------------------------------ MODULE Executor ------------------------------
(***************************************************************************)
(* The stateless L2 block executor of src/crates/executor/src/lib.rs:      *)
(* StatelessL2BlockExecutor::execute_payload and compute_output_root.      *)
(*                                                                         *)
(* execute_payload is one synchronous call.  Its body is a prologue        *)
(* (environment, pre-block system calls, decoding of every raw             *)
(* transaction), a loop over the transactions and an epilogue (merge,      *)
(* roots, sealed header, new parent).  The model gives the prologue, one   *)
(* loop iteration and the epilogue an action each, sequenced by `status`   *)
(* and `idx`: nothing else runs in between, and once the prologue has      *)
(* succeeded the call can only end in a sealed header or in an error.      *)
(*                                                                         *)
(* Data is abstracted to what the properties tell apart: the world state   *)
(* is the nonce of each account, a header's hash is the header itself      *)
(* (no collisions), a trie root is the sequence it commits to, and the     *)
(* EVM (revm) is a nondeterministic choice among the outcomes its OP       *)
(* handler can produce for a transaction.                                  *)
(***************************************************************************)
EXTENDS Naturals, Sequences, FiniteSets

CONSTANTS
    Accounts,       \* senders and depositors (model values)
    Payloads,       \* payload attributes the derivation can hand over
    RollupConfigs,  \* rollup configs (fork activation times) of a run
    GenesisHeader,  \* the sealed parent header the executor starts from
    BlockTime,      \* L2 block time: a payload's timestamp is parent + BlockTime
    GasWord,        \* 2^64, the modulus of u64 gas arithmetic (scaled down)
    MaxBlocks,      \* bound on the number of execute_payload calls
    None,           \* Option::None
    NoFork,         \* a fork that is not scheduled (activation time None)
    Undecodable     \* raw transaction bytes that OpTxEnvelope::decode_2718 rejects

TxTypes == {"Legacy", "Eip2930", "Eip1559", "Eip4844", "Deposit"}

(* A decoded OpTxEnvelope: its type, gas limit, sender (the recovered      *)
(* signer or the deposit's `from`) and the deposit's is_system_transaction.*)
Txs == [type : TxTypes, gas : Nat, from : Accounts, system : BOOLEAN]

ForkTimes == Nat \cup {NoFork}

(* A header as the model builds it; its parentHash is the parent header.   *)
HeaderOK(h) ==
    /\ h.number \in Nat
    /\ h.stateRoot \in [Accounts -> Nat]
    /\ h.gasLimit \in Nat
    /\ h.gasUsed \in Nat
    /\ h.timestamp \in Nat

ASSUME ConstantsAssumption ==
    /\ BlockTime \in Nat \ {0}
    /\ GasWord \in Nat \ {0}
    /\ MaxBlocks \in Nat
    /\ RollupConfigs \subseteq [regolith : ForkTimes, canyon : ForkTimes, ecotone : ForkTimes]
    /\ Payloads \subseteq [gasLimit : (0..(GasWord - 1)) \cup {None},
                           txs : Seq(Txs \cup {Undecodable})]
    /\ \A p \in Payloads : \A k \in 1..Len(p.txs) :
           p.txs[k] # Undecodable => p.txs[k].gas < GasWord

(* The parent header the run starts from is well formed and within its     *)
(* own gas limit.                                                          *)
ASSUME GenesisAssumption ==
    /\ HeaderOK(GenesisHeader)
    /\ GenesisHeader.gasUsed <= GenesisHeader.gasLimit

VARIABLES
    config,      \* the RollupConfig of the run (immutable)
    parent,      \* state.database.parent_block_header()
    world,       \* the State over the TrieDB: account -> nonce
    status,      \* "Idle" between calls, "Executing" inside execute_payload, "Failed" after an error
    payload,     \* the L2PayloadAttributes being executed (timestamp filled in)
    idx,         \* index of the next transaction of the loop
    cumGas,      \* cumulative_gas_used
    receipts,    \* the OpReceiptEnvelopes built so far
    blocks,      \* number of sealed blocks (bounded by MaxBlocks)
    outputRoot   \* the last value returned by compute_output_root

vars == <<config, parent, world, status, payload, idx, cumGas, receipts, blocks, outputRoot>>

-----------------------------------------------------------------------------
(* RollupConfig::is_*_active: a fork is active from its activation time on. *)
IsActive(fork, t) == fork # NoFork /\ t >= fork

IsRegolith(t) == IsActive(config.regolith, t)
IsCanyon(t)   == IsActive(config.canyon, t)
IsEcotone(t)  == IsActive(config.ecotone, t)

(* calc_excess_blob_gas with the Cancun target of 3 blobs (393216 gas).    *)
TargetBlobGas == 393216
CalcExcessBlobGas(excess, used) ==
    IF excess + used < TargetBlobGas THEN 0 ELSE excess + used - TargetBlobGas

Default(x) == IF x = None THEN 0 ELSE x

(* util::is_system_transaction: a deposit flagged as a system transaction. *)
IsSystemTransaction(tx) == tx.type = "Deposit" /\ tx.system

(* The gas_used the OP revm handler reports for a transaction that         *)
(* executes: before Regolith a deposit is charged its whole gas limit, and *)
(* a system deposit nothing; otherwise anything up to the gas limit.       *)
GasUsedOptions(tx, regolith) ==
    IF tx.type = "Deposit" /\ ~regolith
    THEN IF IsSystemTransaction(tx) THEN {0} ELSE {tx.gas}
    ELSE 0..tx.gas

(* The u64 subtraction gas_limit - cumulative_gas_used (wraps on underflow *)
(* in a release build).                                                    *)
BlockAvailableGas == (payload.gasLimit - cumGas) % GasWord

(* Fault variant of RejectsTransaction: the Regolith exemption written     *)
(* with && for ||, so no pre-Regolith transaction is checked.              *)
RejectsTransactionExemptionInverted(tx, regolith) ==
    \/ tx.gas > BlockAvailableGas /\ (regolith /\ ~IsSystemTransaction(tx))
    \/ tx.type = "Eip4844"

(* The two checks at the head of the loop that bail: the transaction's gas *)
(* limit exceeds the gas left in the block (a system deposit before        *)
(* Regolith is exempt), or it is an EIP-4844 transaction.                  *)
RejectsTransaction(tx, regolith) ==
    \/ tx.gas > BlockAvailableGas /\ (regolith \/ ~IsSystemTransaction(tx))
    \/ tx.type = "Eip4844"

(* Fault variant of Receipt: the depositor's nonce read after             *)
(* transact_commit instead of before it.                                   *)
ReceiptNonceAfterCommit(tx, success, cumulative, nonceBefore) ==
    LET deposit == tx.type = "Deposit" /\ IsRegolith(payload.timestamp)
    IN  [type         |-> tx.type,
         success      |-> success,
         cumGas       |-> cumulative,
         depositNonce |-> IF deposit THEN nonceBefore + 1 ELSE None,
         depositVersion |-> IF deposit /\ IsCanyon(payload.timestamp) THEN 1 ELSE None]

(* Receipt of one transaction, receipt_envelope_from_parts: the deposit    *)
(* nonce is the depositor's nonce read before execution (post-Regolith     *)
(* deposits only) and the deposit receipt version is 1 from Canyon on.     *)
Receipt(tx, success, cumulative, nonceBefore) ==
    LET deposit == tx.type = "Deposit" /\ IsRegolith(payload.timestamp)
    IN  [type         |-> tx.type,
         success      |-> success,
         cumGas       |-> cumulative,
         depositNonce |-> IF deposit THEN nonceBefore ELSE None,
         depositVersion |-> IF deposit /\ IsCanyon(payload.timestamp) THEN 1 ELSE None]

(* compute_receipts_root: the receipts committed to by the header.  Under  *)
(* Regolith without Canyon the deposit nonce is stripped first.            *)
ReceiptsRoot(rs, t) ==
    IF IsRegolith(t) /\ ~IsCanyon(t)
    THEN [k \in 1..Len(rs) |->
            IF rs[k].type = "Deposit" THEN [rs[k] EXCEPT !.depositNonce = None] ELSE rs[k]]
    ELSE rs

(* The Cancun header fields: (blob_gas_used, excess_blob_gas).             *)
BlobGasFields(t) ==
    IF ~IsEcotone(t) THEN [used |-> None, excess |-> None]
    ELSE [used   |-> 0,
          excess |-> IF IsEcotone(parent.timestamp)
                     THEN CalcExcessBlobGas(Default(parent.excessBlobGas),
                                            Default(parent.blobGasUsed))
                     ELSE CalcExcessBlobGas(0, 0)]

(* Fault variant of NewHeader: the state root computed from the bundle    *)
(* taken without merge_transitions, i.e. the parent's state.               *)
NewHeaderUnmerged ==
    LET t == payload.timestamp
    IN  [number          |-> parent.number + 1,
         parentHash      |-> parent,
         stateRoot       |-> parent.stateRoot,
         transactionsRoot |-> payload.txs,
         receiptsRoot    |-> ReceiptsRoot(receipts, t),
         withdrawalsRoot |-> IF IsCanyon(t) THEN "EmptyRoot" ELSE None,
         gasLimit        |-> payload.gasLimit,
         gasUsed         |-> cumGas,
         timestamp       |-> t,
         blobGasUsed     |-> BlobGasFields(t).used,
         excessBlobGas   |-> BlobGasFields(t).excess]

(* The sealed header of the block just executed.                           *)
NewHeader ==
    LET t == payload.timestamp
    IN  [number          |-> parent.number + 1,
         parentHash      |-> parent,
         stateRoot       |-> world,
         transactionsRoot |-> payload.txs,
         receiptsRoot    |-> ReceiptsRoot(receipts, t),
         withdrawalsRoot |-> IF IsCanyon(t) THEN "EmptyRoot" ELSE None,
         gasLimit        |-> payload.gasLimit,
         gasUsed         |-> cumGas,
         timestamp       |-> t,
         blobGasUsed     |-> BlobGasFields(t).used,
         excessBlobGas   |-> BlobGasFields(t).excess]

(* The storage root of the L2ToL1MessagePasser (0x42..16) in a state.      *)
MessagePasserStorageRoot(state) == <<"L2ToL1MessagePasser", state>>

-----------------------------------------------------------------------------
Init ==
    /\ config \in RollupConfigs
    /\ parent = GenesisHeader
    /\ world = GenesisHeader.stateRoot
    /\ status = "Idle"
    /\ payload = None
    /\ idx = 1
    /\ cumGas = 0
    /\ receipts = <<>>
    /\ blocks = 0
    /\ outputRoot = None

(* execute_payload up to the transaction loop, when it fails: a missing    *)
(* gas limit (the expect in prepare_block_env), an error of the EIP-4788   *)
(* beacon-root call or of the Canyon create2 deployment, or a raw          *)
(* transaction that does not decode.                                       *)
ExecutePayloadFails ==
    /\ status = "Idle"
    /\ blocks < MaxBlocks
    /\ \E p \in Payloads :
         \/ p.gasLimit = None
         \/ \E k \in 1..Len(p.txs) : p.txs[k] = Undecodable
         \/ TRUE   \* pre_block_beacon_root_contract_call or ensure_create2_deployer_canyon errs
    /\ status' = "Failed"
    /\ UNCHANGED <<config, parent, world, payload, idx, cumGas, receipts, blocks, outputRoot>>

(* Fault variant of ExecutePayload: cumulative_gas_used kept across calls *)
(* instead of starting each block at 0.                                    *)
ExecutePayloadNoGasReset ==
    /\ status = "Idle"
    /\ blocks < MaxBlocks
    /\ \E p \in Payloads :
         /\ p.gasLimit # None
         /\ \A k \in 1..Len(p.txs) : p.txs[k] # Undecodable
         /\ payload' = [gasLimit  |-> p.gasLimit,
                        txs       |-> p.txs,
                        timestamp |-> parent.timestamp + BlockTime]
    /\ status' = "Executing"
    /\ idx' = 1
    /\ receipts' = <<>>
    /\ UNCHANGED <<config, parent, world, blocks, outputRoot, cumGas>>

(* Fault variant of ExecutePayload: raw transactions that fail to decode   *)
(* are kept (decode errors ignored) instead of failing the call.           *)
ExecutePayloadKeepsUndecodable ==
    /\ status = "Idle"
    /\ blocks < MaxBlocks
    /\ \E p \in Payloads :
         /\ p.gasLimit # None
         /\ payload' = [gasLimit  |-> p.gasLimit,
                        txs       |-> p.txs,
                        timestamp |-> parent.timestamp + BlockTime]
    /\ status' = "Executing"
    /\ idx' = 1
    /\ cumGas' = 0
    /\ receipts' = <<>>
    /\ UNCHANGED <<config, parent, world, blocks, outputRoot>>

(* execute_payload up to the transaction loop: the payload's timestamp is  *)
(* the parent's plus the block time, every transaction decodes, and the    *)
(* loop starts with no gas used and no receipts.                           *)
ExecutePayload ==
    /\ status = "Idle"
    /\ blocks < MaxBlocks
    /\ \E p \in Payloads :
         /\ p.gasLimit # None
         /\ \A k \in 1..Len(p.txs) : p.txs[k] # Undecodable
         /\ payload' = [gasLimit  |-> p.gasLimit,
                        txs       |-> p.txs,
                        timestamp |-> parent.timestamp + BlockTime]
    /\ status' = "Executing"
    /\ idx' = 1
    /\ cumGas' = 0
    /\ receipts' = <<>>
    /\ UNCHANGED <<config, parent, world, blocks, outputRoot>>

(* One iteration of the transaction loop that bails: the transaction's gas *)
(* limit exceeds the block's available gas (system deposits before Regolith*)
(* are exempt), it is an EIP-4844 transaction, or preparing the TxEnv      *)
(* (signer recovery) or transact_commit fails.  A system deposit after     *)
(* Regolith is always refused by revm.  The error of load_cache_account   *)
(* (lib.rs 180) is dropped by .ok(), but transact_commit then loads the   *)
(* same account from the same TrieDB and fails in turn, so a failed load  *)
(* of the depositor is one of the transact_commit failures here.          *)
ExecuteTransactionFails ==
    /\ status = "Executing"
    /\ idx <= Len(payload.txs)
    /\ LET tx == payload.txs[idx]
           regolith == IsRegolith(payload.timestamp)
       IN  \/ RejectsTransaction(tx, regolith)
           \/ TRUE   \* prepare_tx_env or transact_commit errs
    /\ status' = "Failed"
    /\ UNCHANGED <<config, parent, world, payload, idx, cumGas, receipts, blocks, outputRoot>>

(* One iteration of the transaction loop that executes the transaction:    *)
(* the depositor's nonce is read before transact_commit, the sender's      *)
(* nonce is bumped, the gas used is accumulated and the receipt appended.  *)
ExecuteTransaction ==
    /\ status = "Executing"
    /\ idx <= Len(payload.txs)
    /\ LET tx == payload.txs[idx]
           regolith == IsRegolith(payload.timestamp)
       IN  /\ ~RejectsTransaction(tx, regolith)
           /\ ~(IsSystemTransaction(tx) /\ regolith)
           /\ \E used \in GasUsedOptions(tx, regolith), success \in BOOLEAN :
                /\ cumGas' = cumGas + used
                /\ receipts' = Append(receipts, Receipt(tx, success, cumGas + used, world[tx.from]))
           /\ world' = [world EXCEPT ![tx.from] = @ + 1]
    /\ idx' = idx + 1
    /\ UNCHANGED <<config, parent, status, payload, blocks, outputRoot>>

(* The end of execute_payload: merge the transitions, compute the state    *)
(* root, the transactions and receipts roots and the Cancun fields, seal   *)
(* the header and make it the TrieDB's parent.                             *)
SealBlock ==
    /\ status = "Executing"
    /\ idx > Len(payload.txs)
    /\ parent' = NewHeader
    /\ status' = "Idle"
    /\ blocks' = blocks + 1
    /\ UNCHANGED <<config, world, payload, idx, cumGas, receipts, outputRoot>>

(* The end of execute_payload when TrieDB::state_root fails.               *)
SealBlockFails ==
    /\ status = "Executing"
    /\ idx > Len(payload.txs)
    /\ status' = "Failed"
    /\ UNCHANGED <<config, parent, world, payload, idx, cumGas, receipts, blocks, outputRoot>>

(* compute_output_root: keccak256 of version 0, the parent's state root,   *)
(* the message passer's storage root and the parent's hash.  It errs when  *)
(* the message passer account is missing or its storage root unblinded.   *)
ComputeOutputRoot ==
    /\ status = "Idle"
    /\ \/ outputRoot' = <<0, parent.stateRoot, MessagePasserStorageRoot(parent.stateRoot), parent>>
          /\ UNCHANGED status
       \/ status' = "Failed" /\ UNCHANGED outputRoot
    /\ UNCHANGED <<config, parent, world, payload, idx, cumGas, receipts, blocks>>

Next ==
    \/ ExecutePayload
    \/ ExecutePayloadFails
    \/ ExecuteTransaction
    \/ ExecuteTransactionFails
    \/ SealBlock
    \/ SealBlockFails
    \/ ComputeOutputRoot

Spec == Init /\ [][Next]_vars

-----------------------------------------------------------------------------
(***************************************************************************)
(* Properties                                                              *)
(***************************************************************************)

Receipts == [type : TxTypes, success : BOOLEAN, cumGas : Nat,
             depositNonce : Nat \cup {None}, depositVersion : {1, None}]

(* Every variable has the type the code gives it.                          *)
TypeOK ==
    /\ config \in RollupConfigs
    /\ HeaderOK(parent)
    /\ world \in [Accounts -> Nat]
    /\ status \in {"Idle", "Executing", "Failed"}
    /\ status = "Executing" =>
         /\ payload \in [gasLimit : 0..(GasWord - 1), txs : Seq(Txs), timestamp : Nat]
         /\ idx \in 1..(Len(payload.txs) + 1)
         /\ blocks < MaxBlocks
    /\ cumGas \in Nat
    /\ receipts \in Seq(Receipts)
    /\ blocks \in 0..MaxBlocks

(* The block gas limit is never exceeded: while the loop runs and in every *)
(* sealed header, the cumulative gas used is at most the payload's gas     *)
(* limit.  This rests on the per-transaction check against the remaining   *)
(* gas (lib.rs 161-168), its exemption for pre-Regolith system deposits    *)
(* and the u64 subtraction that would wrap were the sum ever to overshoot. *)
GasWithinLimit ==
    /\ status = "Executing" => cumGas <= payload.gasLimit
    /\ parent.gasUsed <= parent.gasLimit

(* Receipts rs agree with transactions txs and with the gas used: one      *)
(* receipt per transaction, of its type, with cumulative gas that never    *)
(* decreases and ends at the block's gas used (0 for an empty block).      *)
ReceiptsAgree(rs, txs, gasUsed) ==
    /\ Len(rs) = Len(txs)
    /\ \A k \in 1..Len(rs) : rs[k].type = txs[k].type
    /\ \A k \in 1..(Len(rs) - 1) : rs[k].cumGas <= rs[k + 1].cumGas
    /\ gasUsed = IF rs = <<>> THEN 0 ELSE rs[Len(rs)].cumGas

(* The receipts of the block being executed agree with the transactions    *)
(* run so far and with cumulative_gas_used, and the receipts root of every *)
(* sealed header agrees with its transactions root and its gas_used.       *)
ReceiptsMatchBlock ==
    /\ status = "Executing" =>
         ReceiptsAgree(receipts, SubSeq(payload.txs, 1, idx - 1), cumGas)
    /\ parent # GenesisHeader =>
         ReceiptsAgree(parent.receiptsRoot, parent.transactionsRoot, parent.gasUsed)

(* The number of transactions among txs[1..k-1] sent by account a.         *)
SentBefore(txs, k, a) == Cardinality({j \in 1..(k - 1) : txs[j].from = a})

(* Each post-Regolith deposit receipt records the depositor's nonce as it  *)
(* was before the deposit executed: the nonce in the block's pre-state     *)
(* plus the transactions the depositor sent earlier in the block.          *)
DepositNoncesRecorded(rs, txs, pre, t) ==
    \A k \in 1..Len(rs) :
        (txs[k].type = "Deposit" /\ IsRegolith(t)) =>
            rs[k].depositNonce = pre[txs[k].from] + SentBefore(txs, k, txs[k].from)

(* The depositor's nonce is snapshotted before transact_commit (lib.rs     *)
(* 182-191): in the block being executed and in every sealed Canyon header *)
(* (whose receipts root keeps the nonce), each deposit receipt carries the *)
(* depositor's pre-execution nonce; a sealed header of a block under       *)
(* Regolith but not Canyon commits to its deposit receipts with the nonce  *)
(* stripped (compute_receipts_root, lib.rs 429-441).                       *)
DepositNonceIsPreState ==
    /\ status = "Executing" =>
         DepositNoncesRecorded(receipts, payload.txs, parent.stateRoot, payload.timestamp)
    /\ (parent # GenesisHeader /\ IsCanyon(parent.timestamp)) =>
         DepositNoncesRecorded(parent.receiptsRoot, parent.transactionsRoot,
                               parent.parentHash.stateRoot, parent.timestamp)
    /\ (parent # GenesisHeader /\ IsRegolith(parent.timestamp)
                               /\ ~IsCanyon(parent.timestamp)) =>
         \A k \in 1..Len(parent.receiptsRoot) :
             parent.receiptsRoot[k].type = "Deposit" =>
                 parent.receiptsRoot[k].depositNonce = None

(* Every header the executor seals extends the previous parent: its parent *)
(* hash is that header, its number is one more, and its state root is the  *)
(* parent's state with each account's nonce advanced once for every        *)
(* transaction of the block it sent, as merge_transitions and state_root   *)
(* (lib.rs 230-238) must produce after the loop.                           *)
SealedBlockExtendsParent ==
    [][parent' # parent =>
         /\ parent'.parentHash = parent
         /\ parent'.number = parent.number + 1
         /\ \A a \in Accounts :
              parent'.stateRoot[a] =
                parent.stateRoot[a] +
                  SentBefore(parent'.transactionsRoot, Len(parent'.transactionsRoot) + 1, a)
      ]_vars

=============================================================================
