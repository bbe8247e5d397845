# A verification of zkap-circuit in TLA+

TLA+ modules for the parts of zkap-circuit that a unit test reaches badly, the TLC
configurations that check them on small instances, and proofs of what holds for every
instance. Paths below are relative to `src/crates/`.

## 1. The system

zkap-circuit proves, in zero knowledge, that a caller holds `k` of `n` registered OAuth
identities: each proof carries one JWT, shows that its issuer signed it, that its claims
are bound to an execution, and that the identity is in a published threshold anchor.

| Component | Source | State it keeps | Operations | What makes it correct |
|---|---|---|---|---|
| Bundle file writers | `service/src/crs.rs`, `cli/src/lib.rs` | the directory: names, inodes, temp files | `atomic_write`, `write_solidity_atomic`, `write_json_or_exit`, `atomic_write_bytes_or_exit` | a reader sees one whole version of a file, whoever fails or dies |
| Trusted setup | `service/src/groth16/setup/mod.rs` | none (draws randomness) | `setup` | the six files of one call belong together |
| `generate_setup` | `cli/src/bin/generate_setup.rs` | a run's progress; the bundle directory | checks, setup, hashing, copy, signing, manifest | a manifest names the output of one setup and discloses its randomness; bad inputs are refused before anything is written |
| Manifest | `service/src/manifest.rs` | `manifest.json` | builder, `sign_manifest`, `verify_manifest` | the signature covers every field |
| Artifact loader | `service/src/artifact/set.rs` | what it has parsed so far | `load_signed`, `load_unsigned` | what is returned is what the manifest names |
| Witness generator sidecar | `service/src/sidecar.rs`, `cli/src/bin/generate_witness_gen_sidecar.rs` | `witness_gen.json` | build, validate, pairing checks | a generator is used with the bundles it was built for |
| Witness generator ABI | `witness-gen-wasm/src/lib.rs` | `LAST_OUTPUT`, `LAST_ERROR`, the guest's heap | alloc, synthesize, read, dealloc | a host reads the answer to its own request |
| Prove pipeline | `service/src/groth16/prover/` | a batch in progress | decode, validate, synthesize, prove in parallel | refusals come before the expensive work; proofs keep their order |
| Anchor | `service/src/anchor/`, `gadget/src/anchor/`, `gadget/src/matrix/` | none | `generate_anchor`, `derive_selector`, witness, constraints | exactly the holders of `k` registered identities can satisfy the relation |
| JWT claims circuit | `circuit/src/` | constraint system | claim extraction, nonce, expiry, audience | a satisfied circuit means a well-formed, bound token |
| R1CS helpers and gadgets | `ark-r1cs-helpers/`, `gadget/` | constraint system | comparison, selection, slicing, packing, bigint, base64, Merkle, RSA, SHA-256 | sound and complete for every witness |
| JWT parser | `service/src/jwt/parser.rs` | none | `locate_claim`, `parse_anchor_secret_from_jwt` | host and circuit agree on a claim's bytes |
| Codec, host hashes | `ark-codec/`, `service/src/hash/` | none | padding, packing, `generate_audience_hashes` | what a host registers is what the circuit commits to |
| EVM verifier generator | `zkap-evm-verifier/` | none | text generation | the verifier has the key's points |

How they interact. An operator runs `generate_setup` (possibly again, possibly from CI and
by hand at once) into a bundle directory. Hosts load the bundle at any moment: they read
`manifest.json`, for a signed bundle the published verifying key, then call the loader,
which opens every artifact again by its path. There is no lock, no directory-level commit
and no clean-up; the only atomic step is the rename of one file. A host then proves: the
circuit-dependent half runs natively or inside `witness_gen.wasm`, the other half in a
parallel loop over the batch.

The hard behaviours, by where they bite, are the `hazards` of `PROJECT.json`.

A prove request passes through five hands: the adapter decodes it, the anchor code searches
the selection of slots its identities fill, the validator mirrors what the circuit will check,
the witness loop makes one bundle per credential, and a thread pool proves the bundles. The
first four run natively or inside an instance of the witness generator that a host drives
through six C functions and keeps between calls. The response goes to a contract that adds up
the batch's partial right-hand sides.

## 2. Modules

| Module | Models | Built from |
|---|---|---|
| `AtomicFile` | what the writers promise about one file: replace it whole or leave it alone | abstract |
| `AtomicWrite` | the temp-file-and-rename protocol, at the level of names, inodes and descriptors | refines `AtomicFile` |
| `BundleFiles` | the bundle directory, artifact contents, manifests | shared state |
| `GenerateSetup` | one run of the command, step by step | extends `BundleFiles` |
| `ArtifactLoader` | one load, open by open | extends `BundleFiles` |
| `CrsBundle` | any number of runs and loaders over one directory; the properties | composes the two |
| `AtomicWriteProofs` | the theorems | extends `AtomicWrite` |
| `MC*` | instances for TLC | |
| `NatPowers` | powers of a natural number, as a recursive function | pure operator |
| `PrimeField`, `Anchor` | the algebra of the k-of-n anchor | pure operators |
| `AnchorProtocol` | the selector search, the library's proofs, any other prover's proofs, the on-chain sum | extends `Anchor` |
| `LinearSolve` | Gaussian elimination with row swaps, one round of its loops at a time | state machine |
| `AnchorSearch` | `AnchorProtocol` with every linear system solved by those steps | composes the two, implements `AnchorProtocol` |
| `AnchorProofs` | the theorems of the four, from the field up | extends `AnchorSearch` |
| `ProveRequest` | requests, what synthesis accepts, the bundles, when the circuit is satisfied, the response | pure operators |
| `ProveService` | what a caller of the pipeline is promised | abstract, extends `ProveRequest` |
| `ProvePipeline` | native call, wasm ABI and thread pool, step by step | refines `ProveService` |
| `ProvePipelineProofs` | its theorems and `AudienceList`'s | extends the two |
| `ClaimLocator` | `locate_claim`, one step for each round of its loops | state machine |
| `ClaimGadgets` | slicing, the claim extractor and its format verifier, the readers of expiry and nonce | pure operators |
| `JwtClaims` | one claim through the host and through the circuit | composes the two |
| `JwtClaimsProofs` | its theorems | extends `JwtClaims` |
| `Sidecar` | the sidecar tool, the sidecar's checks, a consumer's pairing | extends `CrsBundle` |
| `BundleProofs` | the theorems of `CrsBundle` and of `Sidecar` | extends `Sidecar` |
| `BigNat` | big numbers as limbs with a bound on each limb: conversions, bounds, grouping | pure operators |
| `LimbChains` | the chain of borrows that decides an order, the chain of carries that decides equality | state machine |
| `BigNatOps` | the operations, from allocation to the last of the checks each of them makes | extends `LimbChains` |
| `BigNatProofs` | the chains', the checks', the operations' and the small gadgets' theorems | extends `BigNatOps`, `BitGadgets` |
| `Sha256` | padding, the verifier of a padding, midstates | pure operators |
| `Sha256Gadgets` | the gadget's buffer between `update` and `finalize`, the digests | state machine |
| `Sha256Rounds` | one compression, circuit and host side by side | state machine |
| `Sha256Proofs` | the two machines' theorems | extends `Sha256Gadgets`, `Sha256Rounds` |
| `BitGadgets` | comparison, selection, multiplexer, packing, segments | one step each |
| `Rsa`, `Base64Payload` | the encoded message of PKCS #1 v1.5, base64url in the circuit | pure operators |
| `TokenCircuit` | one token through the phases of `ZkapCircuit`, by an honest or by any prover | state machine, extends the two and `Sha256` |
| `TokenCircuitProofs` | its theorems | extends `TokenCircuit`, `Sha256Proofs` |
| `AudienceList` | an account's audience list and identities: configuration, registration, batch, cross-check, circuit | state machine |
| `CircuitGadgets` | the machines above, one call at a time | composes them |

### Correspondence with the code

*AtomicWrite.* A name maps to an inode and bytes belong to inodes, so a rename moves a name
and an open descriptor keeps its bytes. `Create`, `Write`, `Rename` are the three system
calls of a helper; `FailStep` is a failing step followed by `remove_file(tmp)`, which may fail too,
`FailCreate` the one failure that removes nothing (`write_json_or_exit` when
`File::create` fails), `Crash` a death inside the call. The temp name is a function of the
process id, as in the code; a pid may be reused after a death. Two writers that share an
inode leave a mixed file: `Write` chooses nondeterministically whether the bytes are whole,
unless the call is alone on the inode. A failing `remove_file` is ignored by the code: the
call ends as `left`, which to its caller is the same error as `err`.

*BundleFiles.* A file's content is the pair (circuit configuration, setup randomness): what
tells two generations apart. `ar1cs` and `config.json` depend on the configuration only.
A hash is its content (sha256 and blake3 are taken to be injective), a signature is the key
that made it (ed25519 is taken to be unforgeable, and it covers every field, as
`canonical_signing_bytes` does).

*GenerateSetup.* `Start` is everything `main` checks before `setup()`; `Setup` the draw and
the key generation; `Publish` one file of `persist_setup_output`, in its order; `HashEntry`
one hash of the manifest, taken from the directory as the code does and not from memory;
`AttachWasm`/`FinishCopy` the two halves of `std::fs::copy`; `Sign`, `Emit` the rest of
`main`, whose check of the output path's UTF-8 never fails because `--output` is a `String`. `Stop` is an I/O error or a crash at any point. Publishing one file is one step:
`AtomicWrite` is the justification.

*ArtifactLoader.* One action per open: `Hash` and `Parse` are the two opens of
`load_canonical` and `load_arcs`, `Trailer` the third of `load_arcs`, `LoadConfig` the single
read of `config.json`. `BeginLoad` and `ReadKey` are the caller's reads as
`docs/EXAMPLE_GUIDE.md` writes them. A load may be restarted any number of times.

`CrsBundle` adds history variables that no action reads: who last changed the directory,
how often each artifact's content changed during a load (counted up to `SwapCap` = 2), and
whether a load began on a completed bundle that nobody has touched since.

*Anchor, AnchorProtocol.* The Vandermonde matrix, `a`, `b` and the selector are those of
`gadget/src/matrix` over a small prime field. A Poseidon hash of distinct inputs is an
independent unknown, so an anchor value is a linear form over hashes and two values are equal
when their coefficients are. `TrySelector` is one round of the search loop; `Prove` one
credential of the witness loop; `Submit` is a proof by anybody that satisfies Phase 4 of the
circuit. `VectorA` is the solution of a linear system, said without its computation.
`RegularAssumption` says that elimination never meets a singular system; TLC evaluates it for
the instance. `Closes` is the contract's equation, which is outside this repository.

*LinearSolve, AnchorSearch.* `LinearSolve` is `solve_linear_system`: transposition, one step for
each column (`Eliminate`, with the pivot's row swapped into place, or `Singular`), then one for
each unknown from the last (`Substitute`). `AnchorSearch` calls it where `build_anchor_witness`
is called: for every combination the search tries and again for every proof. Its steps between
two calls are invisible to `AnchorProtocol`, and `ImplementsLibrary` says that the others are
that module's.

*ProveRequest.* A hash is the tuple of its inputs and a Merkle root the set of its leaves. A
credential is what the pipeline distinguishes: identity, key, nonce, expiry and five
predicates, one for each place where a token can be refused (decoding, the expiry in the loop,
the circuit's buffer, the span of a claim in the extractor's slice, the signature). `Bindings`
is what the circuit's five phases ask of a bundle's inputs among each other; `Satisfied` adds
what they ask of the token. `Bundle` is what `synthesize_witnesses_streaming` puts in a bundle.

*ProvePipeline.* `Submit` starts `prove()` or a host's call of the guest; `Alloc`, `Enter`,
`Emit`, `Return`, `ReadBack`, `Free` follow `WasmInstance::synthesize` and the exported
functions; `Fail` is `?` out of the synthesis; `Trap` a panic of the guest, after which the
host returns without freeing. `Take`, `Proven`, `Rejected`, `PassOver`, `Collect` are
`prove_bundles`: rayon may run any waiting bundle on a free thread, and after a failure it may
skip the ones not begun. The proof is the bundle it is about. Out of scope: the null-pointer
check of `synthesize_witness` (the host never passes one) and an empty bundle list.

*ClaimLocator, ClaimGadgets, JwtClaims.* A payload is a sequence of characters, one for each
byte, and positions count from 0 as in the code. `pc` names the loop that runs and each
round of it is a step; `Refuse` is every error of `locate_claim` but the missing key. A gadget
`f` is two operators: `fOk`, that its constraints have a solution for these arguments, and
`f`, the value it has then. `Slice` follows `slice_grouped` down to its byte groups and
16-bit indices, because the alignment is where it could go wrong; comparisons and field
arithmetic are their meaning. One character stands for a class where the code makes no
difference between its members: a space for JSON's white space, a form feed for the byte that
only `is_ascii_whitespace` skips, three digits for sixteen. `Read` chooses what the claim is
read as and what its capacity is; `HostReads` is what the host does with it on any of its
paths, `SliceClaim` and `Constrain` are the circuit's. A payload longer than the circuit's is
refused by the host before, as `IndexBits::from_base64_url` does. Base64 and the position of
the payload in the signing input are `TokenCircuit`'s.

*Sidecar.* The tool hashes a wasm file (the release's own or a bundle's copy, which may be
half written), reads one bundle's manifest and writes `witness_gen.json`; it refuses what the
code refuses and writes nothing then. A consumer pairs after its load, by
`WitnessGenSidecar::from_json`, `verify_wasm_sha` and `require_compatible`, and may load again.

*BigNat, LimbChains, BigNatOps.* A `BigNatVar` is its limbs and its word bound. An operation
allocates its witnesses, then a list of checks runs: each check is a chain, one limb (or
group of limbs) for a step, and the prover may give any borrow or carry the constraints allow,
as well as any quotient and remainder. `limb` bounds come from the code's bookkeeping
(`AddWord`, `MultWord`, ...), each operand's its own; `WordOk` is the refusal of a bound that
reaches the order of the field. The two assertions of the grouped comparison (`Supported`) are
about the layout alone and belong to the assumed room. The honest prover's witness is one of the
choices and is marked; where his unsigned subtraction goes below zero he panics, and has no step.
`OpenSignature` is `verify_opt`'s chain of squarings and one product: each link is an operation of
its own, under the bounds it meets there (`MCFastPath`'s `FirstWord`, `SquareWord`, `ProductWord`),
and the chain is what the links leave. A checked `square_mod` is `InputsOk` before `SquareMod`.

*Sha256, Sha256Gadgets, Sha256Rounds.* The gadget keeps pending bytes and completed blocks;
what a block does to the state is left abstract there (an injective function) and is
`Sha256Rounds`'s subject, word by word. `PadVerifierOk` is the constraint system of
`enforce_sha2_pad_verifier`; its inputs are a buffer and the witnesses of position and length.

*BitGadgets.* Each gadget's `Ok` operator is its constraints and its value operator what it
returns; `GateCompare` and its siblings call one with every input of a few bits.

*TokenCircuit.* Its steps are the phases of `generate_constraints`: `DigestPhase`, `RsaPhase`,
`BoundariesPhase`, `ClaimsPhase`, `IssuerPhase`, then the binding. Two provers take them: the
host's, whose witnesses are those of `build_jwt_stage` and `build_merkle_witness`, and any
other, who picks the padding, the signature, the positions of the segments and of the claims,
and the path freely. A token's claims are numbers with a printed form; an issuer signs text.
Base64 decodes groups of four characters as the code does. Phases 3 to 5 of the anchor are
`AnchorProtocol`'s.

*AudienceList.* The four recipes for one list: `generate_audience_hashes` (`HostListHash`), the
prover's (`ShareAudiences`), the cross-check of the two (`CrossCheck`) and the circuit's
membership (`ConstrainAudience`); and the two for an identity (`HostIdentity`,
`CircuitIdentity`). The circuit first slices each claim whole, so it refuses a batch one of whose
claims fits its capacity by value only (`Spans`). `Synthesizable` is what makes synthesis fail whatever the witness, which
the setup meets with its mock circuit.

## 3. Runs

| Run | Instance | Checks |
|---|---|---|
| `atomic_write` | 3 calls, 2 of one pid, 1 reader, failures and crashes anywhere | refinement of `AtomicFile`, the target is never torn, temp files are accounted for |
| `bundle_serial` | 3 runs in turn (plain, signed, seeded; two configurations), 1 loader | generations, completed bundles load, disclosure, the key of an intact bundle |
| `bundle_overlap` | `MCSidecar`: 2 runs at once, 1 loader, missing wasm source; the sidecar tool, a consumer, one handmade sidecar without shapes | a foreign content is explained by a replacement; a half-copied generator or an undescribed circuit is not paired |
| `bundle_disclosure` | 2 runs at once, one seeded | *violation* of `SeedDisclosed` |
| `bundle_rebind` | 3 runs in turn, 1 loader | *violation* of `HashBindsParse` |
| `anchor` | n = 4, k = 2, two identities, F_7, random 0 or 3; 17,444 states | the search is exact, honest batches close, closing batches are honest; the search by elimination implements the algebra |
| `prove` | n = 4, k = 3, pool of 2, 2 calls on one instance, 26 requests | refinement of `ProveService` with liveness; answers are deserved; buffers are freed; work is earned |
| `prove_length` | the same | *violation* of `OnlySignatureLeftToProver` |
| `claims` | key `k`; every text of up to 4 of 10 characters after it; 5600 documents of one or two members; buffer 24, groups of 4, capacities 5, 9, 13, two digits | the search finds the right member and ends; host and circuit agree |
| `gadgets` | field of 127, limbs of 2 bits, two limbs, 1 and 3 squarings; two SHA blocks; token buffer of 128; packing by 2; 162 linear systems; 168,534 states | chains and operations are sound for any prover and complete for the honest one; digests, padding and rounds are SHA-256's; an accepted token was signed with these claims; host, prover and circuit mean one audience list; elimination solves exactly |
| `carries` | field of 239, five limbs of 2 bits, moduli 971 and 1023, four operands, `verify_opt`'s three triples of bounds, a prover who keeps to the code | *violation* of `CarriesNeverUnderflow` |
| `claims_capacity` | the same as `claims` | *violation* of `ValueLengthSuffices` |

Why the bounds are enough. Three calls give one writer, one that shares its pid and one that
does not; a fourth adds no new relation. Three runs in turn are what a double swap of
`circuit.ar1cs` needs (a load begins under the first, parses the second, checks the trailer
of the third). Two configurations and one seed tell every pair of generations apart. Loads
restart, so one loader sees any number of loads. The runs that end leave the system with
nothing to do, so deadlock is not checked there.

For the anchor, n = 4 and k = 2 give a vector `a` of three components, two zero positions and
six selections; with two identities and four slots some registrations repeat an identity, so
several selections may be right. In the field of seven elements no minor of the matrix is
singular, and two values of `random` are zero and not zero. Slots 0 and 3 have equal powers of 2 there, so
elimination has to swap rows, which the scalar field of BN254 would hardly ask of it. For the pipeline, three credentials on two
threads give every order of finishing and a bundle that waits; two calls are what a stale
buffer or an unfreed one needs; `MaxCalls` bounds nothing else. The requests are two good
ones, and the first with each single fault at each position. `ProvePipelineProofs` removes
these bounds for all but liveness.

For the claims, four characters after the key reach every loop of the search with every byte
it tells apart, and each way out of it; the documents add what four characters cannot hold:
escapes, nesting, two members, the key inside a value. With groups of four bytes the offsets
and lengths that occur give every alignment of a slice's start and end; the capacities are one
that few claims fit, one that some fit and one that nearly all fit. Two digits for an expiry
and a nonce give one too few, right and one too many.

In the gadgets' field of 127 elements with limbs of two bits, two limbs fit a group and one of a product does, so a
product of two-limb numbers is compared in more than one group and an overflowing group has
room to occur; the moduli include zero and one whose lowest limb is out of range. SHA-256's
state and schedule keep their 32 bits (as halves of 16); its message has the lengths on both
sides of a block's 55th byte, and the padding verifier's buffers are two blocks with each byte
that the padding has changed in turn. The token circuit's buffer of 128 bytes holds signing
inputs of one block, of one block that needs a second for its padding, and one that fits
nearly; the tokens differ from the plain one by one fault each. Packing takes 2 bytes for 31
and claims end at, before and beyond a limb and their capacity; there is one configuration
for each condition that `validate` or the synthesis has, and two for what both leave open. There is
an audience whose value fits its capacity and whose claim does not. The
linear systems are all of two equations over 0, 1 and −1 with two targets, so every rank occurs
and a pivot is missing in place or altogether; the anchor's have three unknowns and need swaps.
That a singular system of three or more is refused rightly is for the theorem to say.

With two limbs no carry of the fast path goes below zero whatever the bounds: the groups of the
product are too few. `carries` has the smallest layout found where one does, five limbs in groups
of one; the moduli are one of full limbs and one not, the operands full in some limbs and zero
in others. Only the honest prover's witnesses are followed there, for what is asked is about him; any
prover at these bounds is `OperationsSound`'s.

The five violations are real disagreements between the code and its own comments; each is
described under `findings` in `PROJECT.json`. That threads of one process share a temp name
(`crs.rs:52`) is not one of them, for no caller in the repository runs two `setup` calls at
once: it is the assumption of `TargetWhole` and of the theorem about it.

## 4. Fairness and liveness

None is assumed of the bundle's components and no liveness property is stated for them: the
helpers and the command have no loop, no lock and no retry, nothing waits for anything, and
the operator may stop a run for good at any point. `AnchorSearch` is checked for safety; its
loops are bounded by the number of combinations and of columns.

The prove pipeline assumes `WF_vars(Work)`: a call that can take a step takes one. The code is
straight-line or loops over a fixed number of credentials and blocks on nothing but the pool,
whose threads rayon keeps running while there is work. Weak fairness of the disjunction is
enough because every step of `Work` brings the call closer to its end. No fairness is assumed
of callers (`Submit`) or of traps. Under it `ImplementsProveService` contains the liveness of
the abstract specification: every request is answered.

`JwtClaims` assumes `WF_vars(Next)`: the search and the readers are sequential code that blocks
on nothing, so a step that can be taken is taken. `Answered` then says that the scanning loops
end on every payload.

## 5. What is proved

`AtomicWriteProofs`, for any number of calls, readers and pids:

- `TypeCorrect`: `Spec => []TypeOK`.
- `NeverTorn`: without overlapping threads of one process, `Spec => []TargetWhole`.
- `Implements`: under the same assumption, `Spec => Abs!Spec` (the refinement).
- `TempsExplained`: `Spec => []TempsAccountedFor`, threads or no threads.

`TargetWhole` is not inductive. The invariant `IInv` adds that live calls have distinct pids
(`OnePerPid`), that a live call still owns the inode its temp name maps to (`OwnsTemp`), that
no inode has two names (`OneNamePerInode`), that open readers hold whole inodes
(`OpenIsWhole`) and that an idle call's inode is nowhere yet (`FreshInode`). `OwnsTemp` is
what threads of one process break.

`BundleProofs`, for any number of runs, loaders, configurations, seeds and keys:

- `TypeCorrect`: `Spec => []TypeOK`.
- `MismatchExplained`: `Spec => []SwapsExplainMismatch`, with any overlap of runs.
- `SeedAlwaysDisclosed`, `LoadsOneGeneration`: `SeedDisclosed` and `OneGeneration` when runs
  take turns (`MaxActive = 1`) and there are finitely many runs. The assumption is an
  operator's discipline that nothing in the code enforces, which `bundle_disclosure` shows.
- `CompletedLoads`: `CompletedBundleLoads`, under the same assumption.
- `IntactKey`: `IntactBundleHasItsKey`, under the same assumption.

Six inductive invariants carry them. `TInv` is `TypeOK` with what a run has drafted at each
phase. `LoadInv` says, for a loader at every point of its order, what it has checked and which
replacements explain a difference. `SerialInv` says that a run that is under way is the only
one, that the files before its position are its own, and that every manifest in the directory
or in a loader's hands is coherent: its entries are one setup's output and its provenance is
that setup's. `DoneInv` says that while the run that last changed the directory is done, the
manifest names what the directory holds and the published key is the one it is signed with;
`CalmInv` that a load which began then and saw no change finds each of its comparisons true.
`KeyInv` says that a manifest which names a run's own draw is the manifest of a run that is
done; so a later run that replaces the key has replaced `pk.bin` before.

TLC checked every part of these invariants before it was proved.

`AnchorProofs`, for any prime P, any n and k, any identities, any random numbers, and any other
prover; `RegularAssumption` (no set of columns of the matrix is singular modulo P) is the only
assumption about the numbers:

- `SolverIsExact`: `SolveSpec => []SolvesExactly`, for any set of square systems, regular or not.
- `SearchTypes`, `SearchIsRight`, `LibraryCompletes`, `OnlyHoldersAccepted`: `TypeOK`,
  `SelectorIsRegistered`, `LibraryBatchCloses` and `OnlyHoldersClose` of `SearchSpec`.
- `SearchImplements`: `SearchSpec => ImplementsLibrary`, the refinement.

The argument runs from the field up. That 2 .. P - 1 hold no divisor of P gives that the field
has no zero divisors (`FieldIntegral`): a least counterexample would have a smaller one. So a
factor cancels, multiplication by it is a bijection of a finite set, and inverses exist
(`InverseExists`). Inner products are recursive functions; `DotIsSum` and `DotStep` unfold them
one term at a time, and `DotLinear` says that they are linear.

`SolveInv` says of every stage of the elimination that the rows have the solutions of the system
(`SameSolutions`), that the columns passed are cleared below a pivot (`Triangular`), and that the
unknowns solved so far satisfy their rows. `UniqueSolution` then gives that an answer is the only
solution. That a refused system does not have exactly one is `Indistinct`: a column without a
pivot leaves more vectors than the rows above it have values, so two vectors are not told apart,
and what they differ by can be added to any solution.

`Sorted` lists a set by the number of members before each (`SortedIsBijection`): so the search
tries every selection and each proof gets its own slot. By the assumption there is one `a` for
each selection (`VectorAProperties`), which `SystemFor` asks the solver for (`SystemMeans`), and
its `b` vanishes nowhere on the selection. Forms are compared atom by atom: the atom of an
identity in a slot gives that the opening check is exact (`OpensIffOccupies`), the atoms of the
masks give that a batch that closes has one proof for each selected slot, and the identities' that
each proof names who is registered there (`OnlyHolders`). `SearchInv` couples the two machines:
while the solver runs, its system is the one of the selection at hand.

The induction theorems of the library take an operator and no installed backend can instantiate
them. `Least` (a nonempty set of naturals has a least member) is proved from finite sets instead
and `Induct` follows from it, for sets; that is how the theorems above reach sums of any length.

`ProvePipelineProofs`, for any set of requests, any n, k and pool size, and any number of
calls of one instance:

- `TypeCorrect`, `BuffersFreed`, `WorkEarned`: `TypeOK`, `NoBufferLeaks`, `ProofWorkIsEarned`.
- `Deserved`: `Spec => AnsweredAsDeserved`, an action property.
- `Refines`: `Spec => Abs!Init /\ [][Abs!Next]_Abs!vars`, the safety part of
  `ImplementsProveService`; its liveness is TLC's.

Two lemmas about the data carry the argument: `BundleBinds` (the inputs of what the stages accept
are each other's, so only the token's signature, its length and the spans of its claims are left
for the circuit to refuse) and `ProvableMeans` (what a caller must hold is what the stages and
the circuit accept together). The invariant relates
the instance, which outlives a call, to the call under way: what is in the stream is a prefix
of the request's bundles (`Stream`), what the host is about to read or has read is about this
request although the buffers keep older contents (`Results`), a buffer that is still there
belongs to this call or to one that trapped (`Buffers`), and a proof is in its bundle's place
(`Tasks`).

`JwtClaimsProofs`, for every payload, key, buffer and group length:

- `TypeCorrect`: `Spec => []TypeOK`.
- `IndicesDescribe`: `Spec => []IndicesDescribeClaim`.
- `SidesRead`, `HonestClaimsPass`: `Spec => []SidesAgree`, `Spec => []CircuitAccepts`.
- `MembersFound`, `MembersAreFound`: `Spec => []FoundIsMember`, `Spec => []MemberIsFound`.

The invariant `LocInv` says for each loop what the cursor has passed: the key (`KeyRead`), only
blanks since the key, the colon or the value (`ColonSought`, `ValueSought`, `EndSought`), a
colon (`ColonRead`), and that each position lies beyond the one before. The quote is assumed
to be one of `Chars`.

`ReadInv` says for each stage after the search what host and circuit made of the claim: what the
host read is `HostReads` of the positions, and what the circuit holds is the plain slice of the
claim and, within it, of its value (`TheClaim`, `TheValue`), or nothing where a capacity is too
small. That the plain slice is what comes out is `SliceIsExact`: a slice is cut out of byte groups,
by quotient and remainder of its bounds, at every alignment; group lengths are powers of two, and
2, 4, 8 and 16 are those `slice.rs` can pack in one field element. `PowerCovers` adds that the
next power of two leaves room, by an induction from `Least`. From there, `ReadersAgree` goes
through the kinds of claims and their quotes, and `FormatAccepted` through the constraints, for
which `BlankRange` settles the prefix sums of a gap that is empty.

The last two theorems are about documents: flat JSON objects of any length, as `parser.rs:98`
describes a payload. `ClaimsAssumption` says which: no name holds an escaped quote, a value is a
string or else has balanced brackets outside its strings (`IsString`, `IsBare`, by RFC 8259 and
not by the scan), no value holds the key as a name of its own, and the key is free of quotes,
colons and commas, as the circuit's five claim names are. A nested object with the key as a name
is left out for a reason: `locate_claim` would take it for the claim.

- `TextLaid` lays `TextOf(d)` out, each member's pieces at their places; `TextOf` is a recursive
  function, so this goes member by member by `Induct`, which `Least` (a nonempty set of naturals
  has a least member) gives.
- `OccurrenceIs`: where the needle occurs within a member, it is the member's key or stands in its
  value. So the search starts at the first member of the key's name, or at a lookalike in the
  value of an earlier one.
- `DocInv` keeps that through the loops: `AtMember` or `AtLookalike`. At a lookalike no colon
  follows and the search is refused (`NamesNothing`). At a member each position is the member's.
- The scan of the value compares the code's running flags with the definition, which counts:
  `EscapedNext`, `WithinNext` and `OpenNext` say how one byte changes the counts, `StringStep` and
  `BareStep` that a round of the code's scan, which steps over two bytes at a backslash, does
  the same and does not pass the end.

`BigNatProofs`, for any prime field, limb width and number of limbs, and any prover:

- `ChainsSound`: `Spec => []ChainsCompareNumbers`. The invariant relates the limbs already seen to
  the borrow or carry that leaves them: a difference of prefixes is minus the borrow times the
  base's power.
- `ChecksLegal`, `OperationsSound`: `Spec => []ChecksStayInField`, `Spec => []OperationSound`, for
  any operands whose limbs are natural numbers.

They assume `RoomAssumption`: the bounds the code derives from `word_size` (group length, carry
bits) leave the field room for what canonical limbs can add up to. It is arithmetic about the
three parameters alone; it holds of the circuit's (64 bits, 32 limbs, the 254-bit field) with every
triple of bounds `verify_opt` meets, where a group has three limbs, or two for a product, and of the
checked instances. `OpInv` says what the
check under way binds: the result to the operands (`AddTied`, `ReduceTied`), both to a sum
allocated beside the result (`SubTied`), or the remainder to the modulus first and then to the
product by some quotient (`ModTied`). A loop that ends has compared the numbers its limbs stand
for (`SumInv`, `LoopCompares`), so each check in turn becomes an equation. The lemmas about data
say that the equation is about the right numbers: grouping limbs keeps the number
(`GroupsWorth`), the convolution without carries is the product (`ConvWorth`, `ProductWorth`), the
upper triangle is the square (`SquareIsProduct`), the digits of a number stand for it (`Digits`).
`BauerIsPower` is the exponentiation: the bits of the limbs make up the exponent
(`ExponentBits`), a chunk's index selects its power although the first two entries of the table are
not reduced, and squaring `Window` times between chunks shifts the exponent by a window
(`FromStep`).

- `HonestSucceeds`: `Spec => []HonestProverSucceeds`. Whatever bounds the operands were allocated
  with, RSA's among them, the prover who keeps to the code is refused nowhere on operands in range,
  except that his carry may go below zero; and that it does not where `WordCovers`: the modulus is
  within its bound, as `mult_mod`'s is, or both factors have canonical bounds, as in each of
  `verify_opt`'s squarings but the first. The first squaring and the last product are exposed.

It also assumes `HonestRoomAssumption`: the carries of limbs within their bounds pass their range
check, and `mult` of canonical operands is supported; this too holds of the circuit's parameters.
`HonestInv` says that nothing has been refused but where the code panics, and nothing that is
compared will be: each check compares equal numbers, or numbers in order, and leaves its carries
room (`Promising`); where `WordCovers`, each right-hand side is also within the bound that biases
the carry (`Snug`). For full factors that is so whatever the modulus's bound, for the quotient is
below the modulus and not all its limbs are full (`SomeLimbBelow`, `QuotientBelow`). The borrow
chain then ends without a borrow, because what remains of a positive difference below the place
reached is positive (`DigitInv`, `BorrowGoesThrough`). The carry chain finds at every group a carry
that the constraint admits, because the groups still to come make the difference a multiple of the
base (`CarryDivides`), and it lies in its range because the code's bounds do, or is below zero
(`CarryGoesThrough`).
The rest is that the witnesses fit: the quotient in the limbs its operation gives it
(`QuotientFits`), where the fast path needs operands below the modulus (`ResiduesInv`), and the
exponent in the bits `pow_mod` is told (`ExponentFits`).

- `GatesAreExact`: `GateSpec => []GatesMeanArithmetic`, of `BitGadgets`, for any prime field.

It assumes that a byte is smaller than the field's order (`ByteAssumption`) and that 2^(n + 1) is
not above it for the lengths n that are compared (`NumBitsAssumption`), which `comparison.rs` asks
of its callers. A call is one step, so the property is its own invariant and the work is in the
gadgets. Bits, bytes and segments are all read as digits, and numbers are compared by their highest
digit first (`HighStep`): so `compare_bits_raw` is an order (`CompareIsExact`). `enforce_less_than`
is one because a difference that goes below zero has a residue that n bits cannot hold
(`HasBitsMeans`). A pass of the selection keeps the half that the next bit points at
(`PassedStep`), whichever end the bits are taken from. Packed bytes stay below the highest power of
two in the field, so that nothing wraps (`PackedIsSpelled`), and a segment is a digit of the number
it is cut from (`DigitOf`, `SegmentsSurvive`).

`Sha256Proofs`, for every text, every way to cut it into updates, every midstate and every
buffer of whole blocks whose lengths fit 16 bits: `Digests` (`DigestIsOfTheMessage`) and
`Verifies` (`PadVerifierExact`). The invariant is `Holds`: the gadget has compressed some whole
blocks, the bytes that wait begin its buffer, which may hold older bytes after them, and the
two together are what it was fed. `Absorbed` shows that `update` keeps it, whether the bytes
that wait fill up or not. For the verifier, `PaddedLayout` says where the host's padding puts
its marker, zeros and length, and `LayoutFixes` that a buffer laid out in this way is that
padding, because no two lengths below 2^16 have the same last eight bytes (`Digits`). A
state is the sequence of the blocks compressed into it, and a length of 2^21 bytes or more is
counted modulo 2^21 by gadget and host alike, three bytes of its field being modelled.

The same module has `CompressionsAgree` (`SidesCompressAlike`), for any state and any block: the
circuit's formulas, with their merged choice and majority and their rotations, and the host's leave
the same eight words after every round and after the last addition. `RoundsInv` adds that the
words are words of 32 bits, which the formulas need to be the same. They are proved to be the same
bit by bit, and a sum of words does not depend on the order in which its carries are dropped.

`TokenCircuitProofs`, for every set of tokens, keys and leaves, every size of the buffers, and
whatever witnesses a prover makes up:

- `AcceptanceNeedsASignature`: `TokSpec => []AcceptedMeansSigned`.
- `HostIsAccepted`: `TokSpec => []HonestAccepted`.

What is assumed is what a token and a tree are: claims are bytes with an order, messages are
shorter than 2^24 bits (`TokensAssumption`), buffers are whole blocks and groups
(`TokenSizesAssumption`), and the leaves are a full tree of pairs of issuer and key
(`LeavesAssumption`). `TokInv` says that at every
stage what the circuit has read was read from one token (`OneToken`), that the key has signed this
token once the signature was checked, and that a host's witness stays what its request makes and
is not refused (`HostsWitness`). The argument: the bytes a signature opens to hold the digest
(`Opens`), and messages of one digest are the same because the host's padding can be undone
(`DigestFixes`). A payload begins after the only dot and ends with the message, since the base64
table has every character once and no dot, so boundaries fix what is decoded (`BoundariesFix`);
an extractor that finds a claim's name found it in the token's own members or in the copy a user
had nested there, which only the alignment of base64's groups excludes (`PlaceIs`). Whatever
index and path lead to the root, they begin at a leaf of the tree (`RootFixes`), and the path of a
leaf leads there (`PathLeads`). The host's direction also needs that what RSA expects is
what PKCS #1 encodes, digest by digest (`SignedFor`), and that the host's padding passes its
verifier (`HostPads`).

`ProvePipelineProofs`, of `AudienceList`, for any configurations, texts, list sizes and packing
width:

- `Served` (`WellSizedBatchesServed`) and `RecipesAgree` (`NoDrift`, a part of
  `AudienceListsAgree`) without further assumptions.
- `ListsUnambiguous`, `IdentitiesUnambiguous`, `ListsAgree` (`AudienceListsAgree`) under
  `LimbsInjective`: limbs of one width with the same value are the same bytes.

`AudInv` says what each stage of an account's life has established. That padded and quoted
texts are unambiguous (`PaddingUnambiguous`) and that identities, joined before they are
packed, fall into the limbs of their three parts (`LimbsConcat`) are the lemmas about data.

`BundleProofs`, of the composition with the sidecar, for any number of runs, loaders and command
lines, under `HandmadeIsWhole` (no
sidecar that was there before the tool was made from a file half copied):

- `BundleTypes`: `BundleTypeOK`.
- `NeverPairsTruncated`, `PairsDescribed`: `TruncatedNeverPairs`, `PairsOnlyDescribedShapes`.

The composition implements `CrsBundle` (`ImplementsBundle`), so `TInv` and `LoadInv` hold of it.
`TrailerBinds` adds that the `circuit.ar1cs` a load has parsed is the one its trailer check saw, or
the file changed in between; `ToolInv` says where a sidecar comes from, and `PairInv` that what
a consumer paired stays as it was until it loads again.

`TypeOK` of `AtomicWrite`, of `CrsBundle` and of `ProvePipeline` is a theorem that no run repeats.

Only model-checked:

- `CompressionIsSha256`: that three compressions give the published digests is an evaluation.
- `Answered` and the liveness in `ImplementsProveService`. Liveness and `ENABLED` are out of this
  prover's reach, as are `RECURSIVE` operators.

## 6. Not modelled, and the plan

Cryptography is abstract: hashes are injective, signatures unforgeable, Groth16 is a function
of (configuration, randomness). `Rsa.VerifyOk` opens a signature as a whole, which is what
`OperationsSound` says of the chain in `OpenSignature`; a carry below zero (`carries`) is not a case
of the token circuit. Text conversions, logging and timing figures are left out, and
so are the size field of a manifest entry (no code reads it back) and Stage 2 ceremony
provenance (refused by the command).

Of the gadgets: `is_eq_limbwise` and `enforce_equals_bits` (the circuit uses neither), the
inside of Poseidon and its parameters, the number of completed blocks a midstate gadget
reports. The Solidity generator converts data and keeps no state, and so do the codec's
conversions of field elements and points.

The finding of `carries` is about small limbs. At the circuit's parameters (B = 2^64, 32 limbs) the
last product goes below zero too, for m = B^32 - 1 with the sum of (j + 1) B^j and (B - 1) B^31 as
factors, at the ninth group; no RSA modulus for which it does is known to us. Soundness does not
depend on it: `OperationsSound` covers these bounds.

Where a comment and the code part without a run that shows it:

- `gadget/src/bigint/constraints.rs:1162` says that `select_index`'s bits are "big-endian (MSB
  first)"; the code takes the last one for the top, and its caller passes them that way.
- `circuit/src/types.rs:149` says "current_idx is 8-bit decomposed"; `zkap.rs:458` compares it
  with `enforce_cmp`, over the field's whole half range.
- `circuit/src/types.rs` calls `forbidden_string` a guard against substrings, and
  `claimverifier.rs:47` lists "no forbidden substring"; the string only fills the free places
  of the audience list, and no constraint looks for it.
- `CircuitConfig::validate` leaves open whether `k` exceeds `num_audience_limit` and whether
  `forbidden_string` fits `max_aud_len` (`prove` cuts it, the host helper refuses it). Such a
  bundle is published and serves no batch: `WellSizedBatchesServed` names the two cases.

Plan. Done so far: the bundle's files, the anchor, the prove pipeline, the claims, the sidecar,
the gadgets, the token circuit, configurations and audience lists, elimination. Each safety property of a passing run but `CompressionIsSha256`
is a theorem. What would come next is the remaining liveness, for which this prover has no means,
and the EVM verifier generator, which writes a contract out of templates.
