# TLA+ models of the hive Cancun blob test suite

This directory holds TLA+ models of the blob test suite of the hive Ethereum engine simulator (`src/simulators/ethereum/engine`). It also holds the TLC configurations that check those models. Every definition is translated from the Go source. `PROJECT.json` maps each definition to the lines it models and lists the runs, the mutants and the findings.

## The system

The suite drives an execution client through a `TestSequence` of steps:

| part | source | role |
|---|---|---|
| step runner | `CancunBaseSpec`, outside `src/` | Runs the steps of a test in order. Any error or `t.Fatalf` ends the test. |
| `ParallelSteps` | `steps.go` 37-60 | Runs several steps as goroutines and joins them with a `sync.WaitGroup`. Errors travel over a channel buffered to `len(Steps)`, and the first one is returned. |
| `SendBlobTransactions` | `steps.go` 489-573 | Sends blob transactions, numbering their blobs from the shared `TestBlobTxPool.CurrentBlobID`. It then records each transaction in the pool under the pool mutex. |
| `TestBlobTxPool` | outside `src/` | The test's record of what it sent: transactions by hash, hashes by index, and the BlobID and transaction counters. |
| `NewPayloads` | `steps.go` 117-479 | Asks the CL mock for N blocks. For each block it registers three checkpoints, which the mock calls in order: `OnGetPayload` checks the blobs bundle against the pool, `OnNewPayloadBroadcast` resubmits the payload with the version and hashes under test, and `OnForkchoiceBroadcast` checks the header's excess blob gas and the receipts against the previous payload. |
| `ForkConfig` | `unnamed/part_001` 35-93 | Fork activation by timestamp, and the Engine API version for each call. |
| BlobID lists | `helper/blobs.go` 52-79 | `GetBlobList` and `GetBlobListByIndex`, used for expected blobs and overridden versioned hashes. |
| blob synthesizer, commitments | `helper/blobs.go` 22-46 and 95-310, `types/blobs.go` | Deterministic blob content from a BlobID, plus KZG commitments, proofs and versioned hashes. One KZG context, `gCryptoCtx`, is shared by every goroutine and built on first use behind a `sync.Once`. |
| Prague genesis | `config/prague/genesis.go` | `ConfigGenesis` sets and checks the Prague fork time, presets the blob header fields and deploys the system contracts. `ConfigTestAccounts` deploys the DATAHASH accounts. |
| pyspec fixture runner | `pyspec/runner.go` | A separate simulator. It walks a fixture tree, validates each test's network and writes its artefacts. It then starts a client and queries it. |
| `LaunchClients`, `SendModifiedLatestPayload` | `steps.go` 71-111, 578-607 | Start further clients, with or without the bootnode as peer and in or outside the CL mock. Send the CL mock's latest payload, with other versioned hashes, to one of them and expect a status. |
| CL mock, engine client | outside `src/` | The block-production collaborator and the client under test. |

These parts interact in four ways:

- `SendBlobTransactions` steps fill the pool.
- `NewPayloads` reads the pool to cross-check what the client included.
- Steps inside a `ParallelSteps` run at the same time and share the pool and its counters.
- `NewPayloads` relies on `ForkConfig` to choose API versions.

## Modules

| module | models | state and actions |
|---|---|---|
| `BlobTxPool` | `ParallelSteps`, `SendBlobTransactions`, the pool, the step runner | `pc[s]` is where step `s` is in `Execute`. `startId[s]` is the BlobID it copied from the pool without the lock. The pool's four fields are variables, as are the client's nonces and accepted set, the WaitGroup counter and the `errs` channel. There is one action for each segment of `Execute` between two points where another goroutine can run: `StepStart` (client index check), `LoopHead` (the unlocked `CurrentBlobID` read and the account check), `Send`, `VerifyFromNode` and `AddToPool` (the locked update). `GoroutineReturn` is the goroutine's `errs <-` followed by the deferred `wg.Done`. `Launch` and `JoinParallel` are the `ParallelSteps` start loop and `wg.Wait`/first-error return; `JoinStep` stands for a single step. `Fatal` is `t.Fatalf`: it ends the test on the test goroutine, but in a `ParallelSteps` goroutine it ends only that goroutine. |
| `TestRunner` | the contract of the runner and `ParallelSteps` | The abstract specification. `status[s]` is idle, running or ended, and `ret[s]` is what the step returned. `Start` launches an entry. `StepReturn` and `StepFatal` end a step. `Join` returns an entry once all its steps ended: nil if none returned an error, else one of their errors. An error, or a `t.Fatalf` outside a group, ends the test. `BlobTxPool` refines it: `StepStatus` maps `pc` to the abstract status and `retErr` is `ret`. |
| `ForkConfig` | `globals.ForkConfig` | Pure operators. A nil fork timestamp is `NoFork`. |
| `PayloadCycle` | `NewPayloads` and its checkpoints | `built` and `bundle` are the CL mock's latest payload and bundle. `prev` is `previousPayload`; `p` and `stepIdx` are the loop counter and the current step. `cb` is the checkpoint the mock will call next. `Build` is the CL mock and client building a payload, and `OnGetPayload`, `OnNewPayloadBroadcast` and `OnForkchoiceBroadcast` are the three callbacks. `GetBlobDataInPayload`, `VerifyBlobBundle` and `VerifyPayload` are operators. A blob is its BlobID, and a commitment or proof is named by the BlobID it was computed from. `TestSequence` also holds `LaunchClients` steps (the action `LaunchClients`: all clients start, or `StartClient` fails after some were appended and the test fails) and `SendModifiedLatestPayload` steps (the action of that name: the ClientID check, then `NewPayloadV3` of `built` and `ExpectStatus`). `engines` is `t.Engines`, each with its CL-mock membership, its peer and its head. `Build` moves the CL mock's clients to the new block; `SyncFromBootnode` lets a client with the bootnode as peer fetch its chain at any time. `Execute` runs `GetPayloadCount` cycles. |
| `BlobSynth` | `FillBlob`, `VerifyBlob`, `GenerateBlob`, `Blob.MarshalText`, `Blob.UnmarshalText`, `KZGCommitment.MarshalText`, `KZGCommitment.UnmarshalText` | A byte is a digit of base `B`, a field element `W` bytes big-endian, a blob `FE` elements. `sha256` is the constant operator `Sha256`. `ClampBlob` is FillBlob's in-place clamp loop and `ClampElem` VerifyBlob's clamp of its copy, each a `RECURSIVE` operator from its own lines. The modulus `BlsModulus` is chosen in `Init` from every modulus of width `W`. `GenerateBlob` is one action: the fill followed by the KZG library's canonical-element check (`CanonicalBlob`, the numeric reference). `SendBlob` is the client serving the generated blob as text: `MarshalText`, or that text with one character replaced by one of `WireChars` or its last character dropped. `ReceiveBlob` is the JSON decoder calling `Blob.UnmarshalText` into a zero blob: the length check, the `0x` check, then `HexDecode` (`encoding/hex.Decode`, pair by pair, stopping at the first non-hex digit). A character is a one-letter string, and `Nibble` is hex's reverse table, for either case. The blob's commitment travels beside it in the bundle: `CommitmentOf(x)`, one byte standing for 48, named by the BlobID. It is encoded as a blob is, and decoded by `UnmarshalFixedText` (go-ethereum's `hexutil`: a `0x` or `0X` prefix, the exact length, every digit checked before any byte is written). `SendBlob` corrupts one of the two texts. `ReceiveBlob` decodes the commitment first, as `BlobsBundle` lists it first, and its error ends the decoding. `Verify(x)` is one `VerifyBlob` call on the decoded blob. |
| `CommitmentEngine` | `GenerateBlob`, `GetVersionedHash`, `KZGToVersionedHash`, `Blobs.ComputeCommitmentsAndProofs`, `BlobsBundle.VersionedHashes`, `BlobDataGenerator`, `MakeTransaction`, `CryptoCtx`, `InitializeCryptoCtx` | A blob is the BlobID it was filled from (`BlobSynth` shows the fill is deterministic). The KZG library is an opaque capability. The commitment of blob `b` is `[kzg |-> b]`, its proof is named by the commitment, and a versioned hash is the commitment it hashes plus its version byte. The library refuses the commitments of the blobs in `failCommit` and the proofs of those in `failProof`; both sets are chosen in `Init`. The loops are operators in the code's order, with the first failure returned. Two goroutines, as in a `ParallelSteps` of `SendBlobTransactions`, each make one `MakeTransaction` call on their own creator from `Creators`. `pc` follows each goroutine's first `CryptoCtx` call through `sync.Once.Do`, one action per step: the atomic `done` load (`CryptoCtx`), the mutex and the re-check (`LockOnce`), `NewContext4096Insecure1337` (`NewContext`), whose error is a panic that ends the process (`crashed`), the struct copy into `gCryptoCtx` in two halves (`CopyCtx`), the deferred `done` store and unlock (`StoreDone`, or `UnlockOnce` when `done` was already set), and the copy `CryptoCtx` returns (`ReadCtx`). `Make` then runs the rest of `MakeTransaction`. The later `CryptoCtx` calls find `done` set and are part of `Make`. Signing and the fee defaults pass data through and are left out. |
| `PragueGenesis` | `ConfigGenesis`, `ConfigTestAccounts` | The genesis fields the two functions read or write are variables: the Shanghai, Cancun and Prague times (nil is `NoTime`), the timestamp, the two blob header fields and `alloc` (an account is the name of its code). `ConfigGenesis(f)` has one disjunct for each return of the code, with `pragueTime' = f` before the ordering checks, as at line 21. `ConfigTestAccounts` writes the DATAHASH accounts in address order and panics at the first one already allocated. The caller may call again after an error, up to `MaxCalls` calls. |
| `FixtureRunner` | `loadFixtureTests`, `validate`, `run`, `createArtefacts` | The fixture tree is the sequence `Entries` in the lexical order of `filepath.Walk`. `VisitEntry` is the walk function up to the range over the fixture map: a walk error ends the walk, and each skip branch moves on. `NextTest` is one map iteration in any order. `EndFile` and `EndWalk` follow. `Init` chooses which entries Walk fails on (`walkErrs`). `PrepareArtefacts` is `createArtefacts`, which can fail at any write; its error is a `t.Fatal`. `disk[t]` keeps what was written. `RunClient` is the rest of `run`: `StartClient` may fail, and the result of `GetPayloadBodiesByHashV1` is dropped. |
| `BlobIDs` | `GetBlobListByIndex` | BlobID has width `BlobIDBits`, so uint64 wrap-around is `% 2^BlobIDBits`. Each step is one call. |

### The client as environment

In `PayloadCycle` the client is the environment. `Build` chooses a packing of the client's mempool: an ordered subset of `TxOrder` within `MaxBlobsPerBlock`, with no blob transactions before Cancun. `Build` may also commit at most one fault from `Faults`. Every fault is applied only where it changes something the client serves. The faults are:

- a nil bundle;
- a reordered, shortened or ragged bundle;
- a wrong excess;
- a wrong blobGasUsed;
- wrong fork fields;
- a wrong receipt gas;
- a receipt priced from the parent's excess;
- an INVALID answer to a valid payload;
- a client that compares the versioned hashes as a set (`hashesUnordered`). It counts as a fault only in a step that declares it probes order (`probe = "order"`) on a block of at least two blobs.

The client's answer to `newPayloadVx` follows the Engine API:

- An unsupported version is an error; V2 also takes V1 payloads.
- A customised payload or wrong versioned hashes get INVALID.
- Anything else gets VALID, except that a `SendModifiedLatestPayload` probe of a client that does not know the payload's parent gets SYNCING (`ProbeAnswer`).

The excess recurrence and `fake_exponential` (`CalcExcessDataGas`, `GetDataGasPrice`) come from EIP-4844 and the spec, because their Go code is not under `src/`. `fake_exponential` is a `RECURSIVE` operator.

## Runs

| run | cfg | expect | what it shows |
|---|---|---|---|
| `pool_seq` | `BlobTxPool_seq.cfg` | pass | Five tests: parallel senders on distinct accounts, a replacement, a vault-account sender, a parallel group with an invalid account index, an invalid client index, and the catalog's "Replace Blob Transactions" (`ReplaceBlobTransactions`: one send, then three replacements). Under every interleaving the BlobID counter equals the blobs tracked (`CounterNotLost`). The index table is one-to-one on the pool (`IndexTableComplete`). Between steps the pool holds exactly what the client accepted (`PoolMirrorsClient`). Every sequence ends (`SequenceTerminates`, under weak fairness). The model implements `TestRunner` under the refinement mapping (`RunnerContract`, with its fairness). The contract's `Join` returns a group's first error, so a `ParallelSteps` that drops one, or returns one where no step failed, breaks the refinement. |
| `pool_race` | `BlobTxPool_race.cfg` | violation | The catalog's "Parallel Blob Transactions", cut to its first two senders (accounts 0 and 1, one one-blob transaction each, verified from the node). `BlobIDsDisjoint`: two parallel senders on distinct accounts both copy `CurrentBlobID` before either updates it, and send transactions with the same BlobIDs. |
| `payload` | `PayloadCycle.cfg` | pass | First the catalog's "Empty Hashes (Syncing)" test (`EmptyHashesSyncing`): `NewPayloads{}`, a Cancun block, a client with no peer outside the CL mock, and the latest payload sent to it with empty hashes, expecting INVALID. `SyncingProbeLacksParent` says that probe reaches a client that lacks the payload's parent whatever the clients' sync did. Then a client with the bootnode as peer outside the CL mock, which syncs while the next blocks are built, and four `NewPayloads` steps: a pre-Cancun block, two blocks of two blobs (the excess rises above zero and the blob price above its minimum), a V2 call that must be refused, a customised payload, and an overridden versioned hash (the first step of `MCPragueSteps` is the pre-Cancun block above). Last comes the catalog's "Extra Hash" block (`ExtraHash`): its blob's hash plus one for the next BlobID, with no `HashVersions`, expecting INVALID. The client may commit any fault except a wrong blobGasUsed. `NoFalseFailure` says the test fails only on a client fault or a step expectation that is wrong for a conforming client. `PassedCycleIsConformant` says every fault is caught in its own cycle. |
| `payload_prague` | `PayloadCycle_prague.cfg` | violation | `NoFalseFailure` over the five `NewPayloads` steps (`MCPragueSteps`) with Prague active from the third block and no faults. The checkpoint sends `newPayloadV3` for a Prague payload and the conforming client refuses it. |
| `payload_hashorder` | `PayloadCycle_hashorder.cfg` | violation | `PassedCycleIsConformant` for the "NewPayloadV3 Versioned Hashes, Out of Order" step. The client compares the versioned hashes as a set (the `hashesUnordered` fault), the very bug the step is named for. The step sends `VersionedHashes{Blobs: GetBlobListByIndex(1, 0)}` with no `HashVersions`, so the list is `<<(0, v0), (15, v0)>>`. Every version byte is 0 and the second BlobID has wrapped, so the list is not a reordering of the payload's `<<(0, v1), (1, v1)>>`. The faulty client answers INVALID and the step passes. With the intended list `<<(1, v1), (0, v1)>>`, the same model catches the fault. |
| `blobids` | `BlobIDs.cfg` | pass | Every ascending `GetBlobListByIndex` call on 4-bit IDs returns the inclusive range. |
| `blobsynth` | `BlobSynth.cfg` | pass | For every 3-byte modulus over base-3 bytes and BlobIDs 0..7, `GenerateBlob` never fails at the KZG check (`GenerateNeverFails`: every clamped element is numerically below the modulus, including moduli with zero bytes) and `VerifyBlob(x)` accepts the blob it decoded from the client's text exactly when it equals `FillBlob(x)` (`VerifyIsExactlyFill`). An uncorrupted bundle always decodes, and its blob and commitment round-trip (`RoundTrip`, spec: `Unmarshal(Marshal(b)) == b`). The bundle decodes exactly when the blob text has the spec's format (`0x` and two hex digits per byte) and the commitment text has hexutil's (the same, or `0X`), whichever single character the client corrupts (`DecodeAcceptsExactlyWellFormed`). |
| `commitments` | `CommitmentEngine.cfg` | pass | Creators start at BlobID 0, 1 or 2 with up to three blobs, with or without a To address, under every set of refused commitments and proofs among blobs 1 and 2. `MakeTransaction` fails exactly when a commitment or proof is refused or To is nil (`FailsAtomically`). A transaction it returns carries blobs `BlobID..BlobID+BlobCount-1` in order, each with its own commitment and proof (`WrapDataConsistent`). Its `BlobHashes` equal, index for index, both `BlobsBundle.VersionedHashes` of its commitments and `GetVersionedHash` of its BlobIDs. Two goroutines share the KZG context. Neither uses it before it is completely written, and it is built once (`CtxReadyWhenRead`). |
| `genesis` | `PragueGenesis.cfg` | pass | Shanghai and Cancun times are nil or 0..2, the timestamp and fork times 0..2, and there are up to three calls. The base genesis may hold a DATAHASH address. `SuccessIsValid`: after `ConfigGenesis` last returned nil, whatever failed before, the Prague time is at or after Shanghai and Cancun, the blob header fields are set when the genesis is already at Prague, and both system contracts are present. |
| `genesis_order` | `PragueGenesis_order.cfg` | violation | `ForkOrderHolds`: one `ConfigGenesis(0)` with Cancun at 1 returns an error and leaves `PragueTime = 0`, before Cancun. |
| `fixtures` | `FixtureRunner.cfg` | pass | A tree with every kind of entry, and a directory Walk may fail on. Every test of a target fixture the walk reached is validated exactly once, in any map order: handed on if its network is in the ruleset, reported otherwise (`WalkAccountsForEveryTest`). |
| `blobids_descending` | `BlobIDs_descending.cfg` | violation | `GetBlobListByIndex(2, 0)` returns `<<0, 15, 14>>` rather than `<<2, 1, 0>>`. The "Out of Order" versioned-hash tests call it exactly so. |

Each property of a passing run has a mutant in `PROJECT.json`: a plausible bug in the mapped definition, which TLC must catch under the run's configuration. The mutants are:

- the counter advanced from the stale copy;
- the index stored one slot off;
- a send error only logged;
- a double `wg.Done`;
- the group result read without `wg.Wait`;
- an unbuffered `errs` channel;
- `previousPayload` not advanced;
- the receipt price not checked;
- the loop bound `<=`;
- an exclusive count;
- FillBlob using the little-endian index commented out at `blobs.go:171`;
- VerifyBlob advancing the digest before comparing;
- the proof error of `ComputeCommitmentsAndProofs` left unchecked;
- `BlobDataGenerator` starting one BlobID late;
- a retried `ConfigGenesis` keeping the `PragueTime` of a failed call;
- the walk function returning before the fixture map is exhausted;
- `MarshalText` writing a byte's low digit first;
- the `0x` test of `UnmarshalText` with `||` for `&&`;
- `KZGCommitment.MarshalText` without its `0x` prefix;
- `CryptoCtx` as a lazy nil check on `gCryptoCtx` instead of the `sync.Once`;
- `GetPayloadCount` without its default, so `NewPayloads{}` builds nothing and the syncing client knows the parent.

### Findings

1. The BlobID race (`steps.go:536`) is a code bug. Parallel senders reuse BlobIDs, although the spec makes the pool lock serialize the counters.
2. The version choice in `OnNewPayloadBroadcast` (`steps.go:435`) diverges from the spec's version policy at Prague.
3. The descending branch of `GetBlobListByIndex` (`helper/blobs.go:74`) is a code bug.
4. The "Out of Order" versioned-hash tests (`steps.go:150`, with finding 3) do not test order. `VersionedHashes()` defaults every version byte to 0, and the descending list wraps. The spec's scenario C resubmits the same hashes reordered, and a client that ignores order is caught only by that.
5. `ConfigGenesis` (`config/prague/genesis.go:21`) assigns `PragueTime` before its ordering checks. A call that returns "prague fork must be after cancun fork" leaves a genesis whose Prague time is before Cancun. A caller that retries gets a valid genesis (`SuccessIsValid`), but one that goes on after the error gets an invalid one.

Observations that are not given a run of their own:

- The header blobGasUsed is never checked against the included blobs (`steps.go:271`), and the spec lists no such check either. The `usedWrong` client fault shows it, so the `payload` run leaves that fault out.
- The crypto errors name no blob index (`types/blobs.go:121`), though the spec (sections 4.2 and 7) says they are always wrapped with the index of the failing blob.
- In the pyspec runner, `loadFixtureTests` only loads files named `withdrawals_balance_within_block.json` (`runner.go:40`). A file that does not parse is only logged, and Walk's error is dropped. This is contrary to its comment, which says it yields every test. `run` also never feeds the fixture's blocks to the client or checks anything: the import and the checks are commented out, so every started test passes.
- `Blob.UnmarshalText` accepts only a lower-case `0x` prefix (`types/blobs.go:96`), while the commitments and proofs, decoded by `hexutil.UnmarshalFixedText`, also accept `0X`. The spec names `0x` for both. On a non-hex digit `hex.Decode` leaves the bytes before it written into the blob; the JSON decoder then fails the whole call, so nothing reads them. `BlobSynth` states the commitment's format as hexutil's, and its runs reach a commitment text with `0X` that decodes.

## Bounds

- **`pool_seq`.** Two parallel senders with two transactions and one transaction are enough to interleave every segment of one sender between any two segments of the other. Three accounts (the vault, 1, 2) plus an out-of-range index reach both index checks. A replacement after a send reaches both outcomes of `ReplaceLastTransaction`. The run has about 2,900 distinct states.
- **`payload`.**
  - Eight mempool transactions (one non-blob) and at most three blobs per block allow every packing of interest.
  - One client with the bootnode as peer lets `SyncFromBootnode` race the probe. The probed client has no peer, as in the catalog's "(Syncing)" tests.
  - With a target of one blob per block, two-blob blocks move the excess, and a price fraction of 2 moves the price at excess 2. The mutant that leaves `previousPayload` stale, and a receipt priced from the parent, are therefore observable.
  - The fork at the second block exercises the nil-to-zero transition.
  - The run has about 228,000 distinct states.
- **`blobsynth`.** All 26 nonzero 3-byte moduli include those with a zero byte at each position, so the "copy and continue" branch of the clamp runs at every position, and three-valued bytes make "equal to the modulus byte" frequent. Two elements per blob check the chain advance and the chunk offset. The wire characters `X`, `g`, `F` and `1`, put at every position, give a bad prefix, a non-hex digit, an upper-case digit (accepted) and a digit that decodes to another blob; the dropped character gives a wrong length. `X` in second place of the commitment text gives the `0X` prefix that hexutil accepts. The run has about 78,000 distinct states.
- **`commitments`.** Counts 0 to 3 cover the empty transaction and a failure at the first, middle and last blob. Refusals among blobs 1 and 2 include a proof refused after every commitment succeeded, which only the second pass over the blobs sees. Two goroutines are enough for one to find the `Once` held or `done` set by the other. The run has 470,016 distinct states. Each goroutine calls `MakeTransaction` once, so the run stops there and deadlock is not checked.
- **`genesis`.** Three time values give every order of Shanghai, Cancun, Prague and the timestamp, including equal ones. Three calls allow a failure, a retry and `ConfigTestAccounts`. A pre-allocated DATAHASH address in the middle of the range reaches the panic after a partial write. The run has 3,300 distinct states.
- **`fixtures`.** Eight entries reach every branch of the walk function. Two tests in one fixture vary the map order, and two blocks for one test let `createArtefacts` fail between two block files. The run has about 1,800 distinct states.
- **`blobids`.** Four bits give 136 calls. Wrap-around is reachable, and the descending bug shows with any start above end.

## Fairness

- **`BlobTxPool`.** Every step segment and the runner get weak fairness. Go schedules runnable goroutines, and every RPC call returns or times out (a timeout is a step failure).
- **`FixtureRunner` and `CommitmentEngine`.** No fairness: their runs check only safety. That the walk over a finite tree ends, and that `sync.Once` releases its waiters, are properties of `filepath.Walk` and the standard library, not of this repository.
- **`PayloadCycle`.** Weak fairness is taken on `Next`. The callbacks run on the test goroutine, and the CL mock invokes them in order.

Where the test really stops (after its last step or at the first failure), the configurations turn deadlock checking off.

## Not modelled, and why

- **Not modelled:**
  - **KZG arithmetic and signatures.** `CommitmentEngine` treats the library as a capability that returns a value or refuses. What a commitment is, and the transaction signature, are left out. sha256 in `BlobSynth` is a fixed permutation, which is all the clamp and the chain depend on.
  - **Proof and field-element encodings, and generated types.** The `KZGProof` and `BLSFieldElement` text methods are those of `KZGCommitment` (modelled in `BlobSynth`) over other types; `String` is formatting. The marshalling in `unnamed/part_000` is generated.
  - **Test catalog.** The catalog in `steps.go` from line 617 on is data, and it belongs to package `suite_cancun`: its steps use fields (`NewPayloadCustomizer`, `TransactionCount`) whose step code is not under `src/`. The MC sequences run these tests on the `suite_blobs` step code of `steps.go` up to line 616, turning a `NewPayloadCustomizer` that overrides versioned hashes into the step's `VersionedHashes`. `MC_PayloadCycle` transcribes three of its tests (`EmptyHashesSyncing`, `MCOrderStep`, `ExtraHash`) and `MC_BlobTxPool` two more (`ReplaceBlobTransactions`, and `RaceCfg`, "Parallel Blob Transactions" cut to two of its ten senders); the other MC sequences are cut from it.
  - **Step descriptions and `test.Spec` getters.** These have no state changes.
  - **pyspec `getBlock`, `compareGenesis` and `loadFixturePayloads`.** The first two are called only from commented-out code. The third is an uncalled copy of `loadFixtureTests`. The JSON and RLP contents of fixtures are data.
  - **`NewPayloads` inside a `ParallelSteps`.** `GetBlobDataInPayload` reads `pool.Transactions` without the pool mutex (`steps.go:220`), and a sender sends a transaction before it records it. Both would matter only if a `NewPayloads` ran beside a sender. No test of the catalog does that: its `ParallelSteps` hold only `SendBlobTransactions`.
  - **`LaunchClients` in `BlobTxPool`.** There it only grows `t.Engines`, which is the constant `NumEngines`; `PayloadCycle` models it.
  - **A probe before any block, and a step without `VersionedHashes`.** `SendModifiedLatestPayload` takes `&t.CLMock.LatestPayloadBuilt`, which is never nil, so its "no payload available" check is dead and a probe before any build sends the CL mock's initial payload (outside `src/`). A nil `VersionedHashes` pointer panics in `VersionedHashes()` (`steps.go:593`). The model assumes every probe carries hashes and comes after a build.
- **Not modelled yet (later sittings):**
  - `ParallelSteps.Description` and the other step descriptions (formatting only).

## Plan

Modules are added in this order:

1. `BlobTxPool`, `ForkConfig`, `PayloadCycle`, `BlobIDs` and `CommitmentEngine` (done).
2. The blob synthesizer as a pure module (`BlobSynth`, done).
3. The `TestRunner` abstract specification, refined by `BlobTxPool` through `INSTANCE ... WITH` (done).
4. `ConfigGenesis` and `ConfigTestAccounts` (`PragueGenesis`), and the pyspec fixture runner (`FixtureRunner`) (done). `LaunchClients` and `SendModifiedLatestPayload` in `PayloadCycle` (done).
5. Two goroutines through `CryptoCtx`'s `sync.Once` in `CommitmentEngine`, and the `KZGCommitment` text codec in `BlobSynth` (done).
6. An abstract `PayloadCycle` contract (a cycle passes iff the client served a conforming payload), shown refined by the checkpoint model.
