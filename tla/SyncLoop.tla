------------------------------ MODULE SyncLoop ------------------------------
(***************************************************************************)
(* The validation loop of the sync binary, src/bin/sync/src/main.rs.      *)
(*                                                                         *)
(* sync() builds an online derivation pipeline whose cursor (the pending  *)
(* L2 safe head) starts at the configured start block, then loops for     *)
(* ever: step the pipeline, pop the attributes it prepared, validate them *)
(* against the L2 node, and on success fetch the info of block cursor + 1 *)
(* and make it the new cursor.  One iteration is one step of the model;   *)
(* an iteration that pops nothing changes no state and is a stutter.      *)
(*                                                                         *)
(* The pipeline and the validator are not under src/ and are modelled     *)
(* from spec 4.8: the pipeline turns the batches the L1 data carries, in  *)
(* order and each once, into attributes built on the cursor it is given;  *)
(* the validator compares them with the L2 node's block parent + 1.  A    *)
(* block is its number: the attributes of batch b on parent p agree with  *)
(* the node iff b = p + 1.                                                 *)
(***************************************************************************)
EXTENDS Naturals, FiniteSets

CONSTANTS
    Start,        \* start_l2_block: the first cursor
    Target,       \* the last L2 block whose batch the L1 data carries
    MaxFailures   \* bound on failed RPC calls (validation or block-info fetch)

ASSUME SyncAssumption ==
    /\ Start \in Nat
    /\ Target \in Nat
    /\ Start < Target
    /\ MaxFailures \in Nat

VARIABLES
    cursor,      \* pipeline.cursor.block_info.number
    batch,       \* the L2 block of the next batch the pipeline turns into attributes
    count,       \* derived_attributes_count
    failures,    \* RPC calls that failed so far
    validated    \* history: the blocks whose attributes passed validation

vars == <<cursor, batch, count, failures, validated>>

(* Spec 4.8: pipeline.step() turns the next batch into attributes on the   *)
(* cursor, which pipeline.pop() then returns.                              *)
PipelineAttributes == [number |-> batch, parent |-> cursor]

(* OnlineValidator::validate: the node's payload of block parent + 1 is    *)
(* fetched and compared; a failed fetch makes it return false.             *)
Validate(attrs, rpcOk) == rpcOk /\ attrs.number = attrs.parent + 1

(* Fault variant of Init: the pipeline started on the start block itself *)
(* rather than the block after it.                                         *)
InitFromStartBlock ==
    /\ cursor = Start
    /\ batch = Start
    /\ count = 0
    /\ failures = 0
    /\ validated = {}

Init ==
    /\ cursor = Start
    /\ batch = Start + 1
    /\ count = 0
    /\ failures = 0
    /\ validated = {}

(* An RPC call of the iteration fails, within the bound.                   *)
RpcFails == failures < MaxFailures /\ failures' = failures + 1

(* Fault variant of LoopValidationFails: no continue, the iteration goes   *)
(* on to count the attributes and move the cursor.                         *)
LoopValidationFailsNoContinue ==
    /\ batch <= Target
    /\ \E rpcOk \in BOOLEAN :
         /\ ~Validate(PipelineAttributes, rpcOk)
         /\ IF rpcOk THEN UNCHANGED failures ELSE RpcFails
    /\ batch' = batch + 1
    /\ count' = count + 1
    /\ cursor' = cursor + 1
    /\ UNCHANGED validated

(* Lines 70-74: the popped attributes fail validation (they do not match  *)
(* the node's block, or the node could not be asked); the loop continues  *)
(* and the attributes are dropped.                                         *)
LoopValidationFails ==
    /\ batch <= Target
    /\ \E rpcOk \in BOOLEAN :
         /\ ~Validate(PipelineAttributes, rpcOk)
         /\ IF rpcOk THEN UNCHANGED failures ELSE RpcFails
    /\ batch' = batch + 1
    /\ UNCHANGED <<cursor, count, validated>>

(* Lines 70-82: the attributes validate, the count goes up, and the info  *)
(* of block cursor + 1 is fetched and becomes the cursor.                  *)
LoopValidated ==
    /\ batch <= Target
    /\ Validate(PipelineAttributes, TRUE)
    /\ batch' = batch + 1
    /\ count' = count + 1
    /\ validated' = validated \cup {PipelineAttributes.parent + 1}
    /\ cursor' = cursor + 1
    /\ UNCHANGED failures

(* Lines 75-80: the attributes validate but l2_block_info_by_number fails; *)
(* the error is logged and the cursor is left where it was.               *)
LoopValidatedFetchFails ==
    /\ batch <= Target
    /\ Validate(PipelineAttributes, TRUE)
    /\ RpcFails
    /\ batch' = batch + 1
    /\ count' = count + 1
    /\ validated' = validated \cup {PipelineAttributes.parent + 1}
    /\ UNCHANGED cursor

Next ==
    \/ LoopValidated
    \/ LoopValidatedFetchFails
    \/ LoopValidationFails

(* The loop is the only task of the binary and never blocks for good: it  *)
(* is weakly fair.                                                         *)
Spec == Init /\ [][Next]_vars /\ WF_vars(Next)

-----------------------------------------------------------------------------
(***************************************************************************)
(* Properties.                                                             *)
(***************************************************************************)

TypeOK ==
    /\ cursor \in Start..Target
    /\ batch \in (Start + 1)..(Target + 1)
    /\ count \in 0..(Target - Start)
    /\ failures \in 0..MaxFailures
    /\ validated \in SUBSET ((Start + 1)..Target)

(* The pending safe head only ever moves onto a block whose attributes     *)
(* the node confirmed, and it lags the confirmed blocks by at most the    *)
(* one whose block info could not be fetched: the validate-then-update    *)
(* order of lines 71-77.                                                   *)
SafeHeadValidated ==
    /\ (Start + 1)..cursor \subseteq validated
    /\ validated \subseteq (Start + 1)..(cursor + 1)
    /\ count = Cardinality(validated)

(* The comment of line 61: the loop keeps stepping the pipeline and       *)
(* validating payloads, so the safe head reaches the last block the L1    *)
(* data carries, whatever RPC calls fail on the way.                      *)
SyncReachesTarget == <>(cursor = Target)

=============================================================================
