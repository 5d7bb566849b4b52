--------------------------- MODULE SyncLoopProofs ---------------------------
(***************************************************************************)
(* Proofs about the validation loop of SyncLoop.tla, for every value of    *)
(* the constants that satisfies SyncAssumption.                            *)
(*                                                                         *)
(* SafeHeadValidated is not inductive: that derived_attributes_count is    *)
(* the number of validated blocks needs each validated block to be new.   *)
(* It is, because the pipeline hands out each batch once (batch only      *)
(* grows) and the validator accepts only the batch of block cursor + 1:   *)
(* every validated block is below batch, and batch is above the cursor.   *)
(***************************************************************************)
EXTENDS SyncLoop, FiniteSetTheorems, TLAPS

USE SyncAssumption

(* The inductive strengthening: the batch is ahead of the cursor and of   *)
(* every validated block, and the validated set is finite.                 *)
BatchAhead ==
    /\ cursor < batch
    /\ validated \subseteq (Start + 1)..(batch - 1)
    /\ IsFiniteSet(validated)

IInv == TypeOK /\ SafeHeadValidated /\ BatchAhead

LEMMA InitIInv == Init => IInv
<1> SUFFICES ASSUME Init PROVE IInv
  OBVIOUS
<1>1. IsFiniteSet(validated) /\ Cardinality(validated) = 0
  BY FS_EmptySet DEF Init
<1>. QED  BY <1>1 DEF Init, IInv, TypeOK, SafeHeadValidated, BatchAhead

(* A validated step adds block cursor + 1, which is new: it is the batch, *)
(* and every block validated so far is below the batch.                    *)
LEMMA AddValidated ==
    ASSUME IInv, batch <= Target, batch = cursor + 1,
           validated' = validated \cup {cursor + 1}
    PROVE  /\ IsFiniteSet(validated')
           /\ Cardinality(validated') = Cardinality(validated) + 1
<1>1. cursor + 1 \notin validated
  BY DEF IInv, BatchAhead, TypeOK
<1>. QED  BY <1>1, FS_AddElement DEF IInv, BatchAhead

(* A set of blocks after the start block, up to the target, has at most   *)
(* Target - Start elements.                                                *)
LEMMA CountBound ==
    ASSUME NEW V, IsFiniteSet(V), V \subseteq (Start + 1)..Target
    PROVE  Cardinality(V) \in 0..(Target - Start)
<1>1. IsFiniteSet((Start + 1)..Target)
      /\ Cardinality((Start + 1)..Target) = Target - Start
  BY FS_Interval
<1>2. Cardinality(V) <= Target - Start
  BY <1>1, FS_Subset
<1>. QED  BY <1>2, FS_CardinalityType

LEMMA NextIInv == IInv /\ [Next]_vars => IInv'
<1> SUFFICES ASSUME IInv, [Next]_vars PROVE IInv'
  OBVIOUS
<1>. USE DEF IInv, TypeOK, SafeHeadValidated, BatchAhead
<1>1. CASE LoopValidated
  <2>1. batch = cursor + 1 /\ batch <= Target
        /\ validated' = validated \cup {cursor + 1}
    BY <1>1 DEF LoopValidated, Validate, PipelineAttributes
  <2>2. IsFiniteSet(validated') /\ Cardinality(validated') = count + 1
    BY <2>1, AddValidated
  <2>3. validated' \subseteq (Start + 1)..Target
    BY <2>1
  <2>4. count + 1 \in 0..(Target - Start)
    BY <2>2, <2>3, CountBound
  <2>5. /\ cursor' = cursor + 1 \/ cursor' = cursor
        /\ batch' = batch + 1 /\ count' = count + 1
        /\ failures' \in 0..MaxFailures
    BY <1>1 DEF LoopValidated
  <2>6. TypeOK'
    BY <2>1, <2>3, <2>4, <2>5
  <2>7. (Start + 1)..cursor' \subseteq validated'
        /\ validated' \subseteq (Start + 1)..(cursor' + 1)
    <3>1. cursor' = cursor + 1
      BY <1>1 DEF LoopValidated
    <3>2. (Start + 1)..(cursor + 1) \subseteq validated \cup {cursor + 1}
      OBVIOUS
    <3>3. validated \cup {cursor + 1} \subseteq (Start + 1)..(cursor + 1)
      BY <2>1
    <3>. QED  BY <2>1, <3>1, <3>2, <3>3
  <2>8. BatchAhead'
    BY <2>1, <2>2, <2>5
  <2>. QED  BY <2>2, <2>5, <2>6, <2>7, <2>8
<1>2. CASE LoopValidatedFetchFails
  <2>1. batch = cursor + 1 /\ batch <= Target
        /\ validated' = validated \cup {cursor + 1}
    BY <1>2 DEF LoopValidatedFetchFails, Validate, PipelineAttributes
  <2>2. IsFiniteSet(validated') /\ Cardinality(validated') = count + 1
    BY <2>1, AddValidated
  <2>3. validated' \subseteq (Start + 1)..Target
    BY <2>1
  <2>4. count + 1 \in 0..(Target - Start)
    BY <2>2, <2>3, CountBound
  <2>5. /\ cursor' = cursor + 1 \/ cursor' = cursor
        /\ batch' = batch + 1 /\ count' = count + 1
        /\ failures' \in 0..MaxFailures
    BY <1>2 DEF LoopValidatedFetchFails, RpcFails
  <2>6. TypeOK'
    BY <2>1, <2>3, <2>4, <2>5
  <2>7. (Start + 1)..cursor' \subseteq validated'
        /\ validated' \subseteq (Start + 1)..(cursor' + 1)
    <3>1. cursor' = cursor
      BY <1>2 DEF LoopValidatedFetchFails, RpcFails
    <3>2. (Start + 1)..(cursor + 1) \subseteq validated \cup {cursor + 1}
      OBVIOUS
    <3>3. validated \cup {cursor + 1} \subseteq (Start + 1)..(cursor + 1)
      BY <2>1
    <3>. QED  BY <2>1, <3>1, <3>2, <3>3
  <2>8. BatchAhead'
    BY <2>1, <2>2, <2>5
  <2>. QED  BY <2>2, <2>5, <2>6, <2>7, <2>8
<1>3. CASE LoopValidationFails
  BY <1>3 DEF LoopValidationFails, RpcFails
<1>4. CASE UNCHANGED vars
  BY <1>4 DEF vars
<1>. QED  BY <1>1, <1>2, <1>3, <1>4 DEF Next

(* The pending safe head of the sync loop only moves onto blocks the node *)
(* confirmed, lags them by at most the block whose info could not be      *)
(* fetched, and derived_attributes_count counts each confirmed block once *)
(* (main.rs 70-82), for every start block, target and failure bound.      *)
THEOREM SafeHeadValidatedHolds == Spec => []SafeHeadValidated
<1>1. IInv => SafeHeadValidated
  BY DEF IInv
<1>. QED  BY <1>1, InitIInv, NextIInv, PTL DEF Spec

(* Every state of the sync loop is well typed: in particular the cursor    *)
(* and the batch stay within the start and target blocks and the failure  *)
(* and attribute counters within their bounds.                             *)
THEOREM TypeCorrect == Spec => []TypeOK
<1>1. IInv => TypeOK
  BY DEF IInv
<1>. QED  BY <1>1, InitIInv, NextIInv, PTL DEF Spec

=============================================================================
