# TLA+ models of kona

This directory holds the formal models of the kona fault-proof program
(`src/`): TLA+ modules, TLC configurations that model-check them on small
instances, and TLAPS proofs of their main invariants. `PROJECT.json` is the
machine-readable inventory. It lists the components, the runs, the mutants,
the map from every definition to the source lines it models, the findings,
the hazards and the theorems.

## The system

kona is the program that settles a dispute about an L2 output root. It runs
in three environments:

* **FPVM client** (`src/bin/client/src/kona.rs`). It runs on a MIPS32
  fault-proof VM and talks to a host over the preimage channel through the
  kernel syscalls of `std-fpvm/src/mips32/io.rs`. It loads its boot
  information through a caching oracle, derives the disputed block's payload
  attributes, executes them, and compares block number and output root with
  the claim. A mismatch exits with code 1.
* **ZKVM client** (`src/bin/programs/zkvm-client`). The prover hands the
  program a serialized key-value map. `main.rs` deserializes it into an
  `InMemoryOracle` and calls `verify()`, which must accept the map before
  anything reads it. The program then builds the L1, L2 and blob providers on
  the map, derives the disputed payload, executes it once and asserts the
  claim. Hints go to a no-op writer.
* **Native host** (`src/bin/host/src/lib.rs`). It runs a preimage server and
  the client side by side (`tokio::try_join!`). A panic of the server is
  caught and turned into an error.

The **stateless executor** (`src/crates/executor/src/lib.rs`) is shared by
all three. Its inputs are a sealed parent header and payload attributes. It
executes the transactions through revm over a trie view of the parent state
and seals the new header. `compute_output_root` then hashes version, state
root, message-passer storage root and block hash.

The **calldata source** (`src/crates/derive/src/sources/calldata.rs`) is the
part of derivation under `src/`. The **sync** binary
(`src/bin/sync/src/main.rs`) follows a live chain and validates the derived
attributes.

## Modules

| Module | Models | Runs |
|---|---|---|
| `Executor` | `execute_payload`, `compute_output_root` (lib.rs) | `MCExecutor` |
| `ExecutorProofs` | TLAPS proofs about `Executor` | (tlapm) |
| `CalldataSource` | `CalldataSource::new/load_calldata/next` (calldata.rs) | `MCCalldataSource` |
| `FrameStream` | the abstract promise of a data source (spec 5): its data, one item per call, then the end | (refinement target) |
| `CalldataSourceProofs` | TLAPS proofs that `next()` drains the loaded calldata exactly once and implements `FrameStream` | (tlapm) |
| `ZkOracle` | `InMemoryOracle::verify/get/get_exact` (oracle.rs), the in-memory `get_blob(s)` of blob_provider.rs, the verify-then-read order of main.rs | `MCZkOracle*` |
| `ZkOracleProofs` | TLAPS proofs of `TypeOK`, `VerifiedCacheIntegrity` and `ServedBlobsReadFromOracle` | (tlapm) |
| `SyncLoop` | the follow-and-validate loop of `sync` (sync main.rs) | `MCSyncLoop`, `MCSyncLoopStall` |
| `SyncLoopProofs` | TLAPS proof of `SafeHeadValidated` | (tlapm) |
| `HostChannel` | `start_server_and_native_client` and its two tasks (host lib.rs), with the client at the far end of the pipes | `MCHostChannel*` |
| `HostChannelProofs` | TLAPS proofs of `TypeOK` and `HostOkOnlyIfClaimValidated` | (tlapm) |
| `ClaimCheck` | the abstract promise of a client program: a verdict on the claim | (refinement target) |
| `Client` | both client programs from boot to exit (kona.rs, zkvm main.rs) | `MCClient` |
| `ClientProofs` | TLAPS proofs of `HeadInvariant` and of `Client` implementing `ClaimCheck` | (tlapm) |

### Executor

One `execute_payload` call becomes a sequence of actions, sequenced by
`status` and `idx`. Nothing else runs between them:

* `ExecutePayload` / `ExecutePayloadFails` model the prologue. This covers
  the block environment, the gas-limit check, the EIP-4788 and Canyon
  create2 system calls, and the decoding of every raw transaction.
* `ExecuteTransaction` / `ExecuteTransactionFails` model one loop iteration.
  It checks the gas limit against the available gas, with the pre-Regolith
  exemption for system deposits, and rejects EIP-4844. It then snapshots the
  depositor, runs transact_commit, accumulates gas and builds the receipt.
* `SealBlock` / `SealBlockFails` model the epilogue. It computes the roots
  and the Cancun fields, seals the header and makes it the new parent.
* `ComputeOutputRoot` models `compute_output_root`.

Data abstraction:

* The world state is each account's nonce.
* A hash is the hashed object itself, so there are no collisions.
* A trie root is the sequence it commits to.
* revm is a nondeterministic choice of gas used and success. A
  pre-Regolith system deposit reports 0 gas.
* Gas arithmetic is modulo `GasWord`, which stands for u64.

### ZkOracle

`verify()` visits one map entry per step. Which entry comes next is chosen
nondeterministically, because HashMap order is arbitrary. Each key type has
its own action: Local, Keccak256, Sha256, GlobalGeneric, Blob and
Precompile. `VerifyFinish` returns Ok, and the KZG loop does nothing.

`GetCommitment`, `GetFieldElement` and `ReturnBlob` model
`get_blob(s)` of `zkvm-client/src/l1/blob_provider.rs`, the blob provider
written for the in-memory oracle. They read after `verify()` has
succeeded, as `main.rs` orders its reads.

That file is not compiled into the ZKVM program yet. `main.rs` declares
only `mod boot; mod oracle;` and builds its blob provider from
`kona_client`'s `OracleBlobProvider`. The runs and findings about
`get_blob` are about the function as it is written, which is what the
program would run once the module is declared.

A hash is abstracted to its preimage. A value's kind fixes its byte length,
and that length decides where `copy_from_slice` and `try_into` panic.

### SyncLoop

One loop iteration of `sync()` is one step. `LoopValidated` covers step,
pop, validate, count and fetch, and makes the fetched block the cursor.
`LoopValidatedFetchFails` covers a validated block whose
`l2_block_info_by_number` fails: the count goes up but the cursor stays.
`LoopValidationFails` covers `continue`: the attributes are dropped. An
iteration whose pop returns nothing changes no state and is a stutter.

The pipeline and the validator are not under `src/` and are modelled from
spec 4.8. A block is its number. The pipeline hands out each batch once, in
order, as attributes on the current cursor. The validator accepts them iff
they are the node's block cursor + 1 and the RPC answers. `validated` is a
history variable: the blocks that passed validation. RPC failures are
bounded by `MaxFailures`.

### HostChannel

The host is four processes:

* the host future: set up, then `try_join!`;
* the server task;
* the program task, which spawns the child and waits for it;
* the client process.

Each has a program counter. The pipes are sequences. The variable
`hostCopies` stands for the parent's copies of the client's pipe ends. They
belong to the `Command` and close only when the program task returns. A
reader sees EOF once the pipe is empty and every write end is closed. For
the server this is a clean exit. For the client it is a fatal error
(exit 2).

`ServerGone` closes the server's pipe ends when the server task returns.
That rests on `PipeHandle` closing its descriptor when it is dropped.
`PipeHandle` is in `kona_common`, not under `src/`, so this is an
assumption of the model, not something it checks.

`try_join!` is two actions:

* `HostJoinErr` fires as soon as either task has returned Err.
* `HostJoinOk` fires when both have returned Ok.

The preimage server and the client's side of the channel are not under
`src/` and are modelled from spec 4.1-4.3. The kv store starts as any
subset of the keys: a disk store may already hold some. The fetcher is
online or not. A client with no requests starts at its epilogue: `Init`
sets its program counter to `"Done"` when `Requests` is empty, as the
client's loop over its requests does nothing then.

### Client and ClaimCheck

`ClaimCheck` is what a client program promises. It starts with a claim
(block, output root) and settles it once: 0 if the claimed block is the
agreed head or derivable and the claim is its root, 1 if not, or 2 for an
internal error.

`Client` models both programs. `mode` chooses `kona.rs` (FPVM) or the
ZKVM `main.rs`. The actions are:

* `Boot` / `BootFails`: load the boot info, or verify the map.
* FPVM: `DeriveNext` derives and executes one block. `DeriveDone` stops at
  the claimed block. `DeriveFails` is a hard error of
  `DerivationDriver::new` or `produce_output`, which `?` returns from main.
  `Epilogue` exits 1 on a mismatch of number or root.
* ZKVM: `ZkDeriveDisputed` derives and executes the one disputed block.
  `ZkDeriveFails` is an error of any of the four unwraps at lines 80-100.
  `ZkEpilogue` runs the asserts.

The chain of true output roots is the constant `Chain`. How much of it the
data reaches, `reach`, is chosen at boot. The driver's executed root of a
block is that block's root: the executor is checked in its own module.
Data that ends before the next block is a temporary error, which the
driver (not under `src/`) retries (spec 4.8). No step is then enabled and
the run waits.

`forged` is chosen at boot, for ZKVM runs only. It says the prover's map
carries blob data that no commitment binds. `verify()` accepts such a map
because the KZG check at `oracle.rs` 175-179 is commented out. Derivation
from it yields a block that executes to any output root the prover aims
for, so `ZkDeriveDisputed` then picks any root in `Claims`.

The refinement mapping shows the exit code as ClaimCheck's `result` once
the program has exited, and `None` before. It leaves out runs on a forged
map: there the ZKVM asserts can pass on a false claim, and the program
exits 0. This is the end of the `zk_kzg_unchecked` finding; when the
mapping also shows forged runs, TLC finds that counterexample in four
steps.

## Runs

### executor_safety (pass)

The run covers up to two blocks on one executor, with three rollup configs:

* Regolith=Canyon at t=2, no Ecotone. The first block is Bedrock, the second
  is Canyon.
* Regolith at genesis and Ecotone at 2.
* Everything active at genesis.

The payloads have up to two transactions drawn from:

* a user deposit
* a system deposit
* an EIP-1559 transaction

There are also three failing payloads: EIP-4844, an undecodable transaction,
and a missing gas limit.

The run checks these properties:

* `TypeOK`.
* `GasWithinLimit`: cumulative gas never exceeds the gas limit, in the block
  being executed and in every sealed header.
* `ReceiptsMatchBlock`: the receipts of the running block, and of the
  sealed parent, agree with its transactions in type and count. Their
  cumulative gas is monotone and ends at `gasUsed`.
* `DepositNonceIsPreState`: a deposit's receipt records its sender's nonce
  before the deposit. For a sealed Canyon block, that holds in the
  receipts root too. A sealed block under Regolith but not Canyon has its
  deposit nonces stripped in the receipts root (lib.rs:431).
* `SealedBlockExtendsParent`, an action property: every step that changes
  the parent header seals a child of it. The child's parent hash is the
  old header and its number is one more. Its state root is the parent's
  with each account's nonce advanced once per transaction the account
  sent in the block. Its mutant seals the header without
  `merge_transitions` (lib.rs:232), so the state root stays the parent's.

### zk_verify (pass)

The run checks 15 maps:

* the honest one
* one variation per check that `verify()` and `get_blob` make
* the tampered and aliased maps

It checks `TypeOK` and `VerifiedCacheIntegrity`. Whatever order `verify()`
visits the entries in, it accepts only maps in which every entry obeys its
key type's integrity rule.

It also checks `ServedBlobsReadFromOracle`, which says what `get_blobs`
returns. There is one blob per hash, in the order asked for. At each
index i, the blob holds the word the oracle has under the Blob key
commitment ++ 0 ++ i. The commitment is the one whose sha256 `get_blob`
asserted to be the hash. In this run, derivation asks for the blob `c1`
twice, as when two transactions of a block carry the same blob. So the
second `get_blob` runs on state the first one left behind. The violation
runs ask for it once.

### calldata_exactly_once (pass)

The run checks every L1 block of up to two transactions, plus one block of
three. The transactions are:

* a batcher transaction of each calldata type (Legacy, EIP-2930, EIP-1559)
* one transaction failing each part of the filter: another recipient,
  another sender, a contract creation, a signature that does not recover,
  and a blob transaction

The chain provider may fail to load the block up to twice. The run checks
`TypeOK` and `FramesExactlyOnce`: through failed loads and retries,
`next()` returns the block's batcher frames exactly once, in block order,
and returns `Eof` only after all of them. The reference filter is written
from spec 5 independently of the code's `filter_map`.

It also checks `StreamSpec`: `CalldataSource` implements `FrameStream`,
the data source of spec 5, under this mapping:

* `data` is `BatcherCalldata(block)`;
* `out` is `returned`;
* `eof` is `result = "Eof"`.

Every call returns one of three things:

* the item after the ones already returned (`Emit`);
* nothing, for a failed load that will be retried (a stutter);
* `Eof`, once all of the data has been returned (`Finish`).

Once `Eof` has been returned, it stays. Unlike the invariant, this
property also rules out a call that returns an item again, or skips one.

### sync_safe_head (pass)

`Start = 0`, `Target = 8`, up to 3 failed RPC calls. It checks `TypeOK`
and `SafeHeadValidated`:

* the cursor only moves onto validated blocks;
* it lags them by at most the one block whose info fetch failed;
* `derived_attributes_count` is the number of validated blocks.

### host_join (pass)

Two keys, requests `<<k1, k2, k1>>`, any initial kv store, online or
offline. It checks these properties:

* `TypeOK`.
* `HostOkOnlyIfClaimValidated`: the host returns Ok only if the client
  exited 0 after all its requests were answered.
* `EverythingTerminates`: under weak fairness of the four processes, the
  host, the server, the program task and the client all finish. This
  includes failed fetches, missing keys and a spawn failure. It is the
  property that catches parent copies of the pipe ends that outlive the
  child.

### client_refines_claim_check (pass)

Agreed head 1 with root r1, a chain `<<r2, r3>>`, claims on blocks 0-4
with any of four roots, data reaching 0, 1 or 2 blocks, and both modes.
It checks these properties:

* `HeadInvariant`: the head and output root belong together. When the
  programs compare, they are the claimed block's (FPVM) or the disputed
  block's (ZKVM).
* `ClaimCheckUnlessForged`: kona.rs implements `ClaimCheck`, and so does
  the ZKVM program on a map whose blob data is the committed data.

Neither program is checked to terminate. Its loop over missing data is
the driver's, which is not under `src/`.

### Violation runs

Each of these shows a finding; see `findings` in PROJECT.json.

* `zk_kzg_unchecked`: a map with one element replaced passes verify(), and
  `BlobsMatchCommitment` fails. The KZG call is commented out (oracle.rs:177).
  In `Client` this is the forged map, on which the ZKVM program can prove
  a false claim.
* `zk_versioned_hash_assert`: on the honest map, get_blob panics. Line 77
  compares the raw sha256 with the versioned hash, whose byte 0 is 0x01.
* `zk_blob_truncated`: `Blob.data` is 4096 bytes, so elements at index 128
  and above are dropped from the verified blob.
* `zk_blob_aliased`: with the buffer widened to every element, a second
  Blob entry under non-zero reserved bytes fills a zero slot of the
  verified blob. The overwrite Err is discarded, and get_blob reads the
  canonical entry.
* `sync_stall` (`SyncReachesTarget`): the loop's comment says it keeps
  validating payloads. A single failed validation, or a failed fetch of
  the next block info, leaves the cursor behind the batches the pipeline
  has already handed out. After that no attributes are built on the cursor
  again, and the safe head never reaches the target (main.rs:73, 78).
* `host_early_return` (`HostOutlivesClient`): when the server fails
  (`ServeHintFails`), `try_join!` returns its Err at once. The host
  finishes while the client process is still running, because nothing
  kills or waits for the child on that path (lib.rs:74).

### Bounds

* `MaxBlocks = 2`. A second block is where stale per-block state, and the
  parent update, would show.
* `GasWord = 8` with gas limit 3. Transactions use 1 to 3 gas, so the
  limit is hit and exceeded.
* Fork times of 0, 2 and never, with block time 1. Both blocks can sit
  on either side of an activation.
* Sync: 8 blocks and 3 failures. This is enough for failures of both
  kinds, at the start, in the middle and at the target, and for more
  than one of them.
* Host: three requests over two keys. A key is asked for twice, and a
  hint arrives for a key the store already has.
* Client: the claims lie below, at, inside and beyond the derivable
  range. With `reach < Len(Chain)`, a true claim can be beyond the data.
  Four roots are enough for a forged root to hit a false claim and to
  miss a true one.
* Blob requests: `c1` twice in `zk_verify` and once in the violation
  runs. Two requests are enough for one `get_blob` to run after another.
* `FieldElementsPerBlob = 3`, `BlobDataSlots = 2`. This keeps the code's
  relation of fewer slots (128) than elements (4096). The proof halves
  sit at N and N+1, as 4096 and 4097 do.

### Mutants

Each property has a mutant: a plausible bug written as an operator next to
the code it replaces, listed under `mutants`. When that mutant replaces the
definition, TLC must find the property violated.

## Fairness and liveness

* `Executor`, `ZkOracle` and `CalldataSource` are single sequential calls.
  They either finish or abort the program, so their specifications are
  `Init /\ [][Next]_vars`, and their runs check safety only.
* `SyncLoop`: the loop is the binary's only task, and it never blocks for
  good, so `WF_vars(Next)`.
* `HostChannel`: weak fairness of each of the four processes. tokio polls
  every spawned task whose I/O is ready, and the OS runs the child.
* `Client`: no fairness, and no liveness property. The only loop is the
  driver's retry on missing data, and the driver is not under `src/`.

The runs use `CHECK_DEADLOCK FALSE` because every one of these programs
stops: after a verdict, an exit, or, for the sync loop, when the data it
carries is used up.

## Proofs

The proofs are kept in six `*Proofs` modules, one per component. Every
theorem holds for every value of the constants that satisfies the
module's `ASSUME`. TLC evaluates each `ASSUME` on the runs.

### ExecutorProofs

Assumptions: `ConstantsAssumption` and `GenesisAssumption`. Theorems:

* `TypeCorrect`: `Spec => []TypeOK`.
* `GasLimitRespected`: `Spec => []GasWithinLimit`.
* `ReceiptsMatchBlockHolds`: `Spec => []ReceiptsMatchBlock`.
* `DepositNonceIsPreStateHolds`: `Spec => []DepositNonceIsPreState`.
* `SealedBlockExtendsParentHolds`: `Spec => SealedBlockExtendsParent`,
  the action property.

`TypeOK` is inductive. It is written to be: besides the types, it states
that an executing payload is decoded, that its gas limit is below
`GasWord`, and that `idx` stays within `1..Len(txs)+1`. The assumptions
give this: payload gas limits are u64 values, and a transaction's gas is
below `GasWord`.

`GasWithinLimit` is proved together with `TypeOK`. The key step is lemma
`AvailableGasExact`: when `cumGas <= gasLimit < GasWord`, the wrapped
difference `(gasLimit - cumGas) % GasWord` is the true difference. So the
code's gas check admits a transaction only if it fits. The pre-Regolith
system-deposit exemption is safe only because such a deposit uses 0 gas
(lemma `GasUsedBound`).

`ReceiptsMatchBlock` is inductive given `TypeOK`. It rests on two lemmas:

* `AgreeAppend`: appending the receipt of transaction `idx` keeps the
  receipts in step with `SubSeq(txs, 1, idx)`.
* `RootKeepsAgreement`: stripping deposit nonces for the receipts root
  keeps every receipt's type and cumulative gas.

`DepositNonceIsPreState` is not inductive. A receipt records `world[from]`
as the loop left it. The strengthening `NonceTrack` says two things:

* between calls, the world state is the parent's state root;
* inside a call, each account's nonce is the parent's plus its sends
  before `idx`, counted by `SentBefore`.

Lemma `SentBeforeStep` counts one more send when the loop passes a
transaction of the account (`FS_AddElement`). `ReceiptsMatchBlock` gives
one receipt per transaction run. TLC checked `NonceTrack` on the
`executor_safety` instance before it was proved. The action property
follows from the same invariant: only `SealBlock` moves the parent, and it
does so at `idx = Len(txs) + 1` (lemma `SealStepExtends`).

### ZkOracleProofs

Assumption: `ZkOracleAssumption`. Its last conjunct says that a map handed
in deserializes into `PreimageKey`s of a known type and byte values.
Theorems:

* `TypeCorrect`: `Spec => []TypeOK`. It is strengthened by
  `RequestInRange`: while reading field elements, `req` names a requested
  hash. Lemma `StoreBlobType` shows that `verify()` writes only a word into
  a data slot or the low proof half.
* `VerifiedCacheIntegrityHolds`: `Spec => []VerifiedCacheIntegrity`, for
  every map and every walk order. The strengthening `VisitedIntegrity`
  says:
  * unless verify() failed, every entry already visited obeys its rule
    (`VisitedOk`);
  * once verify() has returned, no entry is left to visit.

  An entry leaves `pending` only on the branch where its check passed
  (lemma `AcceptedObeysRule`). A rule reads only the map, which no step
  changes (lemma `VisitedOkStep`).
* `ServedBlobsReadFromOracleHolds`: `Spec => []ServedBlobsReadFromOracle`,
  for every map and every list of blob hashes. The property is not
  inductive on its own, because `ReturnBlob` appends a whole blob at once.
  The strengthening `ReadFromOracle` adds three facts:
  * one blob has been served per hash before the current one;
  * inside `get_blob`'s loop, the commitment read is the one for the hash
    being served;
  * the indices below the loop index hold the oracle's words.

  Lemma `DigestDeterminesCommitment` is the sha256 assert: a commitment
  whose digest equals the versioned hash of a requested commitment is that
  commitment.

### HostChannelProofs

Assumption: `HostAssumption`. Theorems:

* `TypeCorrect`: `Spec => []TypeOK`.
* `HostOkOnlyIfClaimValidatedHolds`: `Spec => []HostOkOnlyIfClaimValidated`.

Neither is inductive alone. `JoinChain` links the four processes:

* no child exists before the host spawns the program task and the task
  spawns it;
* the host is Ok only if the program task is, and the task only if the
  child exited 0;
* the child has a status only once it exited, a status 0 or 1 only after
  the epilogue, and the epilogue comes exactly after the last request.

The proof showed that the first `Init` was wrong. With no requests,
`Init` put the client at its first request, so it would read
`Requests[1]`. `Init` now starts such a client at the epilogue, as the
code does. `HostAssumption` also states that `None` is not an exit
status.

### SyncLoopProofs

`SafeHeadValidatedHolds` and `TypeCorrect` hold for every
`Start < Target` and failure bound. `SafeHeadValidated` is not inductive.
That the count equals the number of validated blocks needs each newly
validated block to be new. The strengthening `BatchAhead` says that the
batch is ahead of the cursor and of every validated block. It holds
because the pipeline hands each batch out once. Cardinality is handled by
`FS_AddElement`, `FS_Subset` and `FS_Interval` of FiniteSetTheorems.

### ClientProofs

Three theorems, for every agreed head, chain, claim set and data reach
that satisfies `ClientAssumption`:

* `TypeCorrect`.
* `HeadInvariantHolds`: `Spec => []HeadInvariant`.
* `RefinesClaimCheckUnlessForged`: `Spec => ClaimCheckUnlessForged`.

`TypeOK /\ HeadInvariant` is inductive. `HeadInvariant` says the output
is the head's root only on a map that is not forged; that is all a run
on a forged map keeps. The refinement is proved step by step:

* Every step before the exit is a stutter of `ClaimCheck`.
* So is every step of a run on a forged map (lemma `ForgedStutters`).
* The step that exits an honest run is a `Settle` step (lemma
  `ExitIsSettle`).

FPVM exit 1 is right because, when the program compares, the head is the
claimed block or, for a claim below the agreed head, the agreed head.
Exit 0 is right because the output is the head's root. Nothing is proved
of forged runs: they do not implement `ClaimCheck`.

### CalldataSourceProofs

`FramesExactlyOnce` compares what `next()` returned with `Frames(block)`,
the filter written from spec 5. The code fills its deque with
`BatcherCalldata(block)`, the filter of `load_calldata`. The proof splits
the property at that point:

* `CalldataReturnedOnce`: whatever loads fail and are retried, `next()`
  returns `BatcherCalldata(block)` exactly once, front to back, and says
  Eof only after all of it. The inductive invariant `Loaded` has three
  parts:
  * before the load nothing was returned;
  * after it, the data returned followed by the deque is the loaded
    calldata;
  * Eof comes only from an empty deque.

  Lemmas `PopFront` and `PrefixOfConcat` carry the sequence reasoning.
* `FramesExactlyOnceIfFiltersAgree`: hence `FramesExactlyOnce` holds in
  every state where the two filters agree on the block.
* `ImplementsFrameStream`: `Spec => StreamSpec`, the refinement, proved
  from the same invariant:
  * the initial state maps to `FrameStream`'s initial state (lemma
    `InitStream`);
  * each step maps to a step of `FrameStream` or to a stutter (lemma
    `NextStream`, one case per action):
    * a pop is `Emit`. By `Loaded`, the front of the deque is the item of
      the data right after the ones returned (lemma `NextItem`).
    * `Eof` is `Finish`, because the deque is empty, so the data returned
      is all of it.
    * A failed load returns nothing and leaves the result short of
      `Eof`: a stutter.

### What stays with TLC

* That the two filters agree, `Frames(block) = BatcherCalldata(block)`.
  Both are `SelectSeq` with different predicates that agree only on
  transactions of the five types. Relating them takes an induction over
  the block. The induction theorems of the library take the predicate as
  an operator parameter, which the installed provers cannot instantiate.
  Worse, tlapm 1.4.5 cannot expand `SelectSeq` at all: it reports it as
  an unexpandable identifier, so not even one step of the filter is
  provable. So the `calldata_exactly_once` run checks the full property.
* `CalldataSource.TypeOK`, for the same reason: it says the deque holds
  inputs of the block's transactions, which is again a fact about what
  `SelectSeq` returns.
* Liveness: `EverythingTerminates` and `SyncReachesTarget`. They rest on fairness and `ENABLED`, which TLAPS
  does not handle here.
* The properties of the violation runs. They are false, and TLC shows the
  counterexamples.

## Not modelled (yet) and plan

Not modelled:

* The MIPS32 syscall wrappers: pure I/O.
* The plasma and ethereum crate roots: declarations only.
* The no-op hint writer: stateless.
* `start_server` (FPVM mode): the same server, with the client outside
  the host.
* The derivation pipeline, the preimage channel and the caching oracle
  are not under `src/`. They appear as spec-modelled actions of
  `SyncLoop`, `HostChannel` and `Client`, where those components call
  them.
* The executor's Cancun fields across the Ecotone boundary
  (lib.rs:261). They are modelled in `BlobGasFields`, but no property is
  stated. OP blocks seal `blob_gas_used = 0`, and `calc_excess_blob_gas(0,
  0)` is 0, so both branches of the parent test give 0 for every parent
  the executor can have sealed. No mutant of the test could be told apart.

Planned, in order:

1. Compose `Client` with `HostChannel`: the client's requests driven by
   its derivation.
2. A spec-modelled caching oracle: LRU, and one request in flight per key.
3. More proofs: the refinement of a composed client and host, and
   lemmas that let the proofs of `HostChannel` and `Client` be reused
   for the composition.
