--------------------------- MODULE ExecutorProofs ---------------------------
(***************************************************************************)
(* Proofs about the block executor of Executor.tla, for every value of the *)
(* constants that satisfies ConstantsAssumption and GenesisAssumption.     *)
(*                                                                         *)
(* TypeOK is inductive on its own.  GasWithinLimit is not: the step that   *)
(* executes a transaction keeps cumulative_gas_used under the gas limit    *)
(* only because the u64 subtraction gas_limit - cumulative_gas_used does   *)
(* not wrap, which needs both cumGas <= gasLimit and gasLimit < 2^64.      *)
(* The second fact is part of TypeOK (the payload's gas limit is a u64),   *)
(* so IInv == TypeOK /\ GasWithinLimit is the inductive invariant.         *)
(*                                                                         *)
(* ReceiptsMatchBlock is inductive given TypeOK: each executed transaction *)
(* appends one receipt whose cumulative gas is the new cumGas, and the     *)
(* receipts root only strips nonces.  DepositNonceIsPreState needs         *)
(* NonceTrack (the world is the parent's state plus one nonce per sent     *)
(* transaction) and ReceiptsMatchBlock (one receipt per transaction run).  *)
(***************************************************************************)
EXTENDS Executor, SequenceTheorems, FiniteSetTheorems, TLAPS

USE ConstantsAssumption, GenesisAssumption

(* Gas used by an executed transaction is at most its gas limit, and none  *)
(* for a system deposit before Regolith.                                   *)
LEMMA GasUsedBound ==
    ASSUME NEW tx \in Txs, NEW regolith \in BOOLEAN,
           NEW used \in GasUsedOptions(tx, regolith)
    PROVE  /\ used \in Nat
           /\ used <= tx.gas
           /\ (IsSystemTransaction(tx) /\ ~regolith) => used = 0
BY DEF GasUsedOptions, Txs, IsSystemTransaction

(* As long as the cumulative gas is at most the gas limit, the u64         *)
(* subtraction of lib.rs 162 does not wrap.                                *)
LEMMA AvailableGasExact ==
    ASSUME NEW limit \in 0..(GasWord - 1), NEW cum \in Nat, cum <= limit
    PROVE  (limit - cum) % GasWord = limit - cum
BY SMT

(* A payload that passes the prologue is a well-typed payload.             *)
LEMMA DecodedPayload ==
    ASSUME NEW p \in Payloads,
           p.gasLimit # None,
           \A k \in 1..Len(p.txs) : p.txs[k] # Undecodable
    PROVE  /\ p.gasLimit \in 0..(GasWord - 1)
           /\ p.txs \in Seq(Txs)
<1>1. p \in [gasLimit : (0..(GasWord - 1)) \cup {None}, txs : Seq(Txs \cup {Undecodable})]
  OBVIOUS
<1>2. p.gasLimit \in 0..(GasWord - 1)
  BY <1>1
<1>3. p.txs \in Seq(Txs)
  <2>1. p.txs \in Seq(Txs \cup {Undecodable})
    BY <1>1
  <2>2. \A k \in 1..Len(p.txs) : p.txs[k] \in Txs
    BY <2>1
  <2>. QED  BY <2>1, <2>2
<1>. QED  BY <1>2, <1>3

-----------------------------------------------------------------------------
(* The first n transactions of a payload, as the receipts see them.        *)
LEMMA PrefixProperties ==
    ASSUME NEW txs \in Seq(Txs), NEW n \in 0..Len(txs)
    PROVE  /\ SubSeq(txs, 1, n) \in Seq(Txs)
           /\ Len(SubSeq(txs, 1, n)) = n
           /\ \A k \in 1..n : SubSeq(txs, 1, n)[k] = txs[k]
<1>1. \A i \in 1..n : txs[i] \in Txs
  BY ElementOfSeq
<1>. QED  BY <1>1, SubSeqProperties

(* Appending the receipt of transaction i keeps the receipts in agreement  *)
(* with the transactions run so far, provided its cumulative gas does not  *)
(* go below the previous one.                                              *)
LEMMA AgreeAppend ==
    ASSUME NEW rs \in Seq(Receipts), NEW txs \in Seq(Txs),
           NEW i \in 1..Len(txs), NEW g \in Nat, NEW r \in Receipts,
           ReceiptsAgree(rs, SubSeq(txs, 1, i - 1), g),
           r.type = txs[i].type, g <= r.cumGas
    PROVE  ReceiptsAgree(Append(rs, r), SubSeq(txs, 1, i), r.cumGas)
<1> DEFINE rs2 == Append(rs, r)
<1>1. /\ Len(SubSeq(txs, 1, i - 1)) = i - 1
      /\ \A k \in 1..(i - 1) : SubSeq(txs, 1, i - 1)[k] = txs[k]
      /\ Len(SubSeq(txs, 1, i)) = i
      /\ \A k \in 1..i : SubSeq(txs, 1, i)[k] = txs[k]
  BY PrefixProperties
<1>2. Len(rs) = i - 1
  BY <1>1 DEF ReceiptsAgree
<1>3. /\ Len(rs2) = i
      /\ \A k \in 1..(i - 1) : rs2[k] = rs[k]
      /\ rs2[i] = r
      /\ rs2 # <<>>
  BY <1>2, AppendProperties
<1>4. \A k \in 1..i : rs2[k].type = SubSeq(txs, 1, i)[k].type
  <2> SUFFICES ASSUME NEW k \in 1..i PROVE rs2[k].type = txs[k].type
    BY <1>1
  <2>1. CASE k = i
    BY <1>3, <2>1
  <2>2. CASE k # i
    <3>1. k \in 1..(i - 1) /\ rs[k].type = SubSeq(txs, 1, i - 1)[k].type
      BY <1>2, <2>2 DEF ReceiptsAgree
    <3>. QED  BY <1>1, <1>3, <3>1
  <2>. QED  BY <2>1, <2>2
<1>5. \A k \in 1..(i - 1) : rs2[k].cumGas <= rs2[k + 1].cumGas
  <2>1. rs # <<>> => rs[i - 1].cumGas = g
    BY <1>2 DEF ReceiptsAgree
  <2>2. Len(rs) \in Nat
    BY LenProperties
  <2>. QED  BY <1>2, <1>3, <2>1, <2>2 DEF ReceiptsAgree
<1>. QED  BY <1>1, <1>3, <1>4, <1>5 DEF ReceiptsAgree

(* The receipts root keeps each receipt's type and cumulative gas: only   *)
(* the deposit nonce is ever stripped.                                     *)
LEMMA RootKeepsAgreement ==
    ASSUME NEW rs \in Seq(Receipts), NEW txs, NEW g, NEW t,
           ReceiptsAgree(rs, txs, g)
    PROVE  ReceiptsAgree(ReceiptsRoot(rs, t), txs, g)
<1>1. CASE IsRegolith(t) /\ ~IsCanyon(t)
  <2> DEFINE rr == [k \in 1..Len(rs) |->
                      IF rs[k].type = "Deposit"
                      THEN [rs[k] EXCEPT !.depositNonce = None] ELSE rs[k]]
  <2>1. ReceiptsRoot(rs, t) = rr
    BY <1>1 DEF ReceiptsRoot
  <2>2. Len(rs) \in Nat /\ \A k \in 1..Len(rs) : rs[k] \in Receipts
    BY LenProperties, ElementOfSeq
  <2>3. Len(rr) = Len(rs) /\ (rr = <<>> <=> rs = <<>>)
    BY <2>2
  <2>4. \A k \in 1..Len(rs) : rr[k].type = rs[k].type /\ rr[k].cumGas = rs[k].cumGas
    BY <2>2 DEF Receipts
  <2>5. Len(rr) = Len(txs) /\ \A k \in 1..Len(rr) : rr[k].type = txs[k].type
    BY <2>3, <2>4 DEF ReceiptsAgree
  <2>6. \A k \in 1..(Len(rr) - 1) : rr[k].cumGas <= rr[k + 1].cumGas
    BY <2>2, <2>3, <2>4 DEF ReceiptsAgree
  <2>7. g = IF rr = <<>> THEN 0 ELSE rr[Len(rr)].cumGas
    BY <2>2, <2>3, <2>4 DEF ReceiptsAgree
  <2>. QED  BY <2>1, <2>5, <2>6, <2>7 DEF ReceiptsAgree
<1>2. CASE ~(IsRegolith(t) /\ ~IsCanyon(t))
  BY <1>2 DEF ReceiptsRoot
<1>. QED  BY <1>1, <1>2

-----------------------------------------------------------------------------
LEMMA InitTypeOK == Init => TypeOK
BY DEF Init, TypeOK, HeaderOK

LEMMA NextTypeOK == TypeOK /\ [Next]_vars => TypeOK'
<1> SUFFICES ASSUME TypeOK, [Next]_vars PROVE TypeOK'
  OBVIOUS
<1>1. CASE ExecutePayload
  <2>1. PICK p \in Payloads :
            /\ p.gasLimit # None
            /\ \A k \in 1..Len(p.txs) : p.txs[k] # Undecodable
            /\ payload' = [gasLimit |-> p.gasLimit, txs |-> p.txs,
                           timestamp |-> parent.timestamp + BlockTime]
    BY <1>1 DEF ExecutePayload
  <2>2. p.gasLimit \in 0..(GasWord - 1) /\ p.txs \in Seq(Txs)
    BY <2>1, DecodedPayload
  <2>3. /\ status' = "Executing" /\ idx' = 1 /\ cumGas' = 0 /\ receipts' = <<>>
        /\ blocks < MaxBlocks
        /\ UNCHANGED <<config, parent, world, blocks, outputRoot>>
    BY <1>1 DEF ExecutePayload
  <2>4. payload' \in [gasLimit : 0..(GasWord - 1), txs : Seq(Txs), timestamp : Nat]
    BY <2>1, <2>2 DEF TypeOK, HeaderOK
  <2>. QED  BY <2>1, <2>3, <2>4 DEF TypeOK
<1>2. CASE ExecutePayloadFails
  BY <1>2 DEF ExecutePayloadFails, TypeOK
<1>3. CASE ExecuteTransaction
  <2> DEFINE tx == payload.txs[idx]
             regolith == IsRegolith(payload.timestamp)
  <2>1. status = "Executing" /\ idx \in 1..Len(payload.txs)
    BY <1>3 DEF ExecuteTransaction, TypeOK
  <2>2. tx \in Txs /\ regolith \in BOOLEAN
    BY <2>1 DEF TypeOK, IsRegolith, IsActive
  <2>3. PICK used \in GasUsedOptions(tx, regolith), success \in BOOLEAN :
            /\ cumGas' = cumGas + used
            /\ receipts' = Append(receipts, Receipt(tx, success, cumGas + used, world[tx.from]))
    BY <1>3 DEF ExecuteTransaction
  <2>4. /\ world' = [world EXCEPT ![tx.from] = @ + 1]
        /\ idx' = idx + 1
        /\ UNCHANGED <<config, parent, status, payload, blocks, outputRoot>>
    BY <1>3 DEF ExecuteTransaction
  <2>5. used \in Nat
    BY <2>2, GasUsedBound
  <2>6. Receipt(tx, success, cumGas + used, world[tx.from]) \in Receipts
    BY <2>2, <2>5 DEF TypeOK, Receipt, Receipts, Txs
  <2>7. tx.from \in Accounts
    BY <2>2 DEF Txs
  <2>8. receipts' \in Seq(Receipts)
    BY <2>3, <2>6 DEF TypeOK
  <2>9. world' \in [Accounts -> Nat]
    BY <2>4, <2>7 DEF TypeOK
  <2>10. idx' \in 1..(Len(payload'.txs) + 1) /\ cumGas' \in Nat
    BY <2>1, <2>3, <2>4, <2>5 DEF TypeOK
  <2>. QED  BY <2>1, <2>4, <2>8, <2>9, <2>10 DEF TypeOK
<1>4. CASE ExecuteTransactionFails
  BY <1>4 DEF ExecuteTransactionFails, TypeOK
<1>5. CASE SealBlock
  <2>1. /\ status = "Executing"
        /\ parent' = NewHeader
        /\ status' = "Idle" /\ blocks' = blocks + 1
        /\ UNCHANGED <<config, world, payload, idx, cumGas, receipts, outputRoot>>
    BY <1>5 DEF SealBlock
  <2>2. blocks < MaxBlocks
    BY <2>1 DEF TypeOK
  <2>3. HeaderOK(NewHeader)
    <3>1. /\ NewHeader.number = parent.number + 1
          /\ NewHeader.stateRoot = world
          /\ NewHeader.gasLimit = payload.gasLimit
          /\ NewHeader.gasUsed = cumGas
          /\ NewHeader.timestamp = payload.timestamp
      BY DEF NewHeader
    <3>2. payload \in [gasLimit : 0..(GasWord - 1), txs : Seq(Txs), timestamp : Nat]
      BY <2>1 DEF TypeOK
    <3>3. payload.gasLimit \in Nat /\ payload.timestamp \in Nat
      BY <3>2
    <3>4. parent.number \in Nat /\ world \in [Accounts -> Nat] /\ cumGas \in Nat
      BY DEF TypeOK, HeaderOK
    <3>. QED  BY <3>1, <3>3, <3>4 DEF HeaderOK
  <2>4. HeaderOK(parent')
    BY <2>1, <2>3
  <2>5. blocks' \in 0..MaxBlocks
    BY <2>1, <2>2 DEF TypeOK
  <2>. QED  BY <2>1, <2>4, <2>5 DEF TypeOK
<1>6. CASE SealBlockFails
  BY <1>6 DEF SealBlockFails, TypeOK
<1>7. CASE ComputeOutputRoot
  BY <1>7 DEF ComputeOutputRoot, TypeOK
<1>8. CASE UNCHANGED vars
  BY <1>8 DEF vars, TypeOK
<1>. QED  BY <1>1, <1>2, <1>3, <1>4, <1>5, <1>6, <1>7, <1>8 DEF Next

(* Every reachable state is well typed.                                    *)
THEOREM TypeCorrect == Spec => []TypeOK
BY InitTypeOK, NextTypeOK, PTL DEF Spec

-----------------------------------------------------------------------------
LEMMA InitGasWithinLimit == Init => GasWithinLimit
BY DEF Init, GasWithinLimit

LEMMA NextGasWithinLimit ==
    TypeOK /\ GasWithinLimit /\ [Next]_vars => GasWithinLimit'
<1> SUFFICES ASSUME TypeOK, GasWithinLimit, [Next]_vars PROVE GasWithinLimit'
  OBVIOUS
<1>1. CASE ExecutePayload
  <2>1. PICK p \in Payloads :
            /\ p.gasLimit # None
            /\ \A k \in 1..Len(p.txs) : p.txs[k] # Undecodable
            /\ payload'.gasLimit = p.gasLimit
    BY <1>1 DEF ExecutePayload
  <2>2. p.gasLimit \in 0..(GasWord - 1)
    BY <2>1, DecodedPayload
  <2>3. cumGas' = 0 /\ parent' = parent
    BY <1>1 DEF ExecutePayload
  <2>. QED  BY <2>1, <2>2, <2>3 DEF GasWithinLimit
<1>2. CASE ExecuteTransaction
  <2> DEFINE tx == payload.txs[idx]
             regolith == IsRegolith(payload.timestamp)
  <2>1. /\ status = "Executing" /\ idx \in 1..Len(payload.txs)
        /\ payload.gasLimit \in 0..(GasWord - 1)
        /\ cumGas \in Nat /\ cumGas <= payload.gasLimit
    BY <1>2 DEF ExecuteTransaction, TypeOK, GasWithinLimit
  <2>2. tx \in Txs /\ regolith \in BOOLEAN
    BY <2>1 DEF TypeOK, IsRegolith, IsActive
  <2>3. ~RejectsTransaction(tx, regolith)
    BY <1>2 DEF ExecuteTransaction
  <2>4. BlockAvailableGas = payload.gasLimit - cumGas
    BY <2>1, AvailableGasExact DEF BlockAvailableGas
  <2>5. tx.gas <= payload.gasLimit - cumGas \/ (IsSystemTransaction(tx) /\ ~regolith)
    BY <2>2, <2>3, <2>4 DEF RejectsTransaction, Txs
  <2>6. PICK used \in GasUsedOptions(tx, regolith) : cumGas' = cumGas + used
    BY <1>2 DEF ExecuteTransaction
  <2>7. used \in Nat /\ used <= tx.gas /\ ((IsSystemTransaction(tx) /\ ~regolith) => used = 0)
    BY <2>2, GasUsedBound
  <2>8. cumGas + used <= payload.gasLimit
    BY <2>1, <2>2, <2>5, <2>7 DEF Txs
  <2>9. UNCHANGED <<parent, status, payload>>
    BY <1>2 DEF ExecuteTransaction
  <2>. QED  BY <2>6, <2>8, <2>9 DEF GasWithinLimit
<1>3. CASE SealBlock
  <2>1. status = "Executing" /\ parent' = NewHeader /\ status' = "Idle"
    BY <1>3 DEF SealBlock
  <2>2. NewHeader.gasUsed = cumGas /\ NewHeader.gasLimit = payload.gasLimit
    BY DEF NewHeader
  <2>. QED  BY <2>1, <2>2 DEF GasWithinLimit
<1>4. CASE ExecutePayloadFails \/ ExecuteTransactionFails \/ SealBlockFails
  BY <1>4 DEF ExecutePayloadFails, ExecuteTransactionFails, SealBlockFails, GasWithinLimit
<1>5. CASE ComputeOutputRoot
  BY <1>5 DEF ComputeOutputRoot, GasWithinLimit
<1>6. CASE UNCHANGED vars
  BY <1>6 DEF vars, GasWithinLimit
<1>. QED  BY <1>1, <1>2, <1>3, <1>4, <1>5, <1>6 DEF Next

(* The block gas limit is never exceeded (GasWithinLimit): not inside      *)
(* execute_payload and not in any sealed header.                           *)
THEOREM GasLimitRespected == Spec => []GasWithinLimit
BY TypeCorrect, InitGasWithinLimit, NextGasWithinLimit, PTL DEF Spec

-----------------------------------------------------------------------------
LEMMA InitReceiptsMatchBlock == Init => ReceiptsMatchBlock
BY DEF Init, ReceiptsMatchBlock

LEMMA NextReceiptsMatchBlock ==
    TypeOK /\ ReceiptsMatchBlock /\ [Next]_vars => ReceiptsMatchBlock'
<1> SUFFICES ASSUME TypeOK, ReceiptsMatchBlock, [Next]_vars PROVE ReceiptsMatchBlock'
  OBVIOUS
<1>1. CASE ExecutePayload
  <2>1. PICK p \in Payloads :
            /\ p.gasLimit # None
            /\ \A k \in 1..Len(p.txs) : p.txs[k] # Undecodable
            /\ payload'.txs = p.txs
    BY <1>1 DEF ExecutePayload
  <2>2. p.txs \in Seq(Txs)
    BY <2>1, DecodedPayload
  <2>3. SubSeq(p.txs, 1, 0) = <<>>
    BY <2>2, SubSeqEmpty
  <2>4. /\ idx' = 1 /\ cumGas' = 0 /\ receipts' = <<>>
        /\ UNCHANGED parent
    BY <1>1 DEF ExecutePayload
  <2>5. ReceiptsAgree(<<>>, <<>>, 0)
    BY EmptySeq DEF ReceiptsAgree
  <2>6. status' = "Executing"
          => ReceiptsAgree(receipts', SubSeq(payload'.txs, 1, idx' - 1), cumGas')
    <3>1. SubSeq(payload'.txs, 1, idx' - 1) = <<>>
      BY <2>1, <2>3, <2>4
    <3>. QED  BY <2>4, <2>5, <3>1
  <2>. QED  BY <2>4, <2>6 DEF ReceiptsMatchBlock
<1>2. CASE ExecuteTransaction
  <2> DEFINE tx == payload.txs[idx]
             regolith == IsRegolith(payload.timestamp)
  <2>1. /\ status = "Executing" /\ idx \in 1..Len(payload.txs)
        /\ payload.txs \in Seq(Txs) /\ cumGas \in Nat /\ receipts \in Seq(Receipts)
    BY <1>2 DEF ExecuteTransaction, TypeOK
  <2>2. tx \in Txs /\ regolith \in BOOLEAN
    BY <2>1, ElementOfSeq DEF IsRegolith, IsActive
  <2>3. PICK used \in GasUsedOptions(tx, regolith), success \in BOOLEAN :
            /\ cumGas' = cumGas + used
            /\ receipts' = Append(receipts, Receipt(tx, success, cumGas + used, world[tx.from]))
    BY <1>2 DEF ExecuteTransaction
  <2> DEFINE r == Receipt(tx, success, cumGas + used, world[tx.from])
  <2>4. used \in Nat
    BY <2>2, GasUsedBound
  <2>5. r \in Receipts /\ r.type = tx.type /\ r.cumGas = cumGas + used
    BY <2>2, <2>4 DEF TypeOK, Receipt, Receipts, Txs
  <2>6. ReceiptsAgree(receipts, SubSeq(payload.txs, 1, idx - 1), cumGas)
    BY <2>1 DEF ReceiptsMatchBlock
  <2>7. ReceiptsAgree(Append(receipts, r), SubSeq(payload.txs, 1, idx), r.cumGas)
    <3>1. cumGas <= r.cumGas
      BY <2>1, <2>4, <2>5
    <3>. QED  BY <2>1, <2>5, <2>6, <3>1, AgreeAppend
  <2>8. ReceiptsAgree(receipts', SubSeq(payload.txs, 1, idx), cumGas')
    BY <2>3, <2>5, <2>7
  <2>9. idx' = idx + 1 /\ UNCHANGED <<parent, status, payload>>
    BY <1>2 DEF ExecuteTransaction
  <2>. QED  BY <2>1, <2>8, <2>9 DEF ReceiptsMatchBlock
<1>3. CASE SealBlock
  <2>1. /\ status = "Executing" /\ idx = Len(payload.txs) + 1
        /\ payload.txs \in Seq(Txs) /\ receipts \in Seq(Receipts)
    BY <1>3 DEF SealBlock, TypeOK
  <2>2. SubSeq(payload.txs, 1, idx - 1) = payload.txs
    BY <2>1, SubSeqFull
  <2>3. ReceiptsAgree(receipts, payload.txs, cumGas)
    BY <2>1, <2>2 DEF ReceiptsMatchBlock
  <2>4. ReceiptsAgree(ReceiptsRoot(receipts, payload.timestamp), payload.txs, cumGas)
    BY <2>1, <2>3, RootKeepsAgreement
  <2>5. /\ parent'.receiptsRoot = ReceiptsRoot(receipts, payload.timestamp)
        /\ parent'.transactionsRoot = payload.txs
        /\ parent'.gasUsed = cumGas
        /\ status' = "Idle"
    BY <1>3 DEF SealBlock, NewHeader
  <2>. QED  BY <2>4, <2>5 DEF ReceiptsMatchBlock
<1>4. CASE ExecutePayloadFails \/ ExecuteTransactionFails \/ SealBlockFails
  BY <1>4 DEF ExecutePayloadFails, ExecuteTransactionFails, SealBlockFails,
              ReceiptsMatchBlock
<1>5. CASE ComputeOutputRoot
  BY <1>5 DEF ComputeOutputRoot, ReceiptsMatchBlock
<1>6. CASE UNCHANGED vars
  BY <1>6 DEF vars, ReceiptsMatchBlock
<1>. QED  BY <1>1, <1>2, <1>3, <1>4, <1>5, <1>6 DEF Next

(* The receipts execute_payload builds agree with the transactions it ran  *)
(* and with cumulative_gas_used, inside the loop and in every sealed       *)
(* header's receipts root (lib.rs 150-230, compute_receipts_root), for     *)
(* every fork schedule and every payload.                                  *)
THEOREM ReceiptsMatchBlockHolds == Spec => []ReceiptsMatchBlock
BY TypeCorrect, InitReceiptsMatchBlock, NextReceiptsMatchBlock, PTL DEF Spec

-----------------------------------------------------------------------------
(* DepositNonceIsPreState is not inductive either: the receipt of a        *)
(* deposit records world[from] as the loop left it, and that is the       *)
(* pre-state nonce plus the earlier sends only because the world state is *)
(* the parent's between calls and each executed transaction bumps its     *)
(* sender's nonce once.                                                    *)
NonceTrack ==
    /\ status = "Idle" => world = parent.stateRoot
    /\ status = "Executing" =>
         \A a \in Accounts :
             world[a] = parent.stateRoot[a] + SentBefore(payload.txs, idx, a)

(* Before the first transaction no account has sent anything.              *)
LEMMA SentBeforeFirst ==
    ASSUME NEW txs, NEW a
    PROVE  SentBefore(txs, 1, a) = 0
<1>1. {j \in 1..0 : txs[j].from = a} = {}
  OBVIOUS
<1>. QED  BY <1>1, FS_EmptySet DEF SentBefore

(* Moving past transaction k adds one send for its sender and none for    *)
(* any other account.                                                      *)
LEMMA SentBeforeStep ==
    ASSUME NEW txs, NEW k \in Nat \ {0}, NEW a
    PROVE  /\ SentBefore(txs, k, a) \in Nat
           /\ SentBefore(txs, k + 1, a) =
                SentBefore(txs, k, a) + (IF txs[k].from = a THEN 1 ELSE 0)
<1> DEFINE S == {j \in 1..(k - 1) : txs[j].from = a}
           T == {j \in 1..k : txs[j].from = a}
<1>0. SentBefore(txs, k, a) = Cardinality(S) /\ SentBefore(txs, k + 1, a) = Cardinality(T)
  <2>1. (k + 1) - 1 = k
    OBVIOUS
  <2>. QED  BY <2>1 DEF SentBefore
<1>1. IsFiniteSet(S) /\ Cardinality(S) \in Nat
  <2>1. IsFiniteSet(1..(k - 1))
    BY FS_Interval
  <2>. QED  BY <2>1, FS_Subset, FS_CardinalityType
<1>2. CASE txs[k].from = a
  <2>1. T = S \cup {k} /\ k \notin S
    BY <1>2
  <2>2. Cardinality(S \cup {k}) = Cardinality(S) + 1
    BY <1>1, <2>1, FS_AddElement
  <2>. QED  BY <1>0, <1>1, <1>2, <2>1, <2>2
<1>3. CASE txs[k].from # a
  <2>1. T = S
    BY <1>3
  <2>2. Cardinality(T) = Cardinality(S)
    BY <2>1
  <2>3. (IF txs[k].from = a THEN 1 ELSE 0) = 0
    BY <1>3
  <2>. QED  BY <1>0, <1>1, <2>2, <2>3
<1>. QED  BY <1>2, <1>3

LEMMA InitNonceTrack == Init => NonceTrack
BY DEF Init, NonceTrack

LEMMA NextNonceTrack == TypeOK /\ NonceTrack /\ [Next]_vars => NonceTrack'
<1> SUFFICES ASSUME TypeOK, NonceTrack, [Next]_vars PROVE NonceTrack'
  OBVIOUS
<1>1. CASE ExecutePayload
  <2>1. status = "Idle" /\ status' = "Executing" /\ idx' = 1
        /\ UNCHANGED <<parent, world>>
    BY <1>1 DEF ExecutePayload
  <2>2. \A a \in Accounts : SentBefore(payload'.txs, 1, a) = 0
    BY SentBeforeFirst
  <2>3. \A a \in Accounts : parent.stateRoot[a] \in Nat
    BY DEF TypeOK, HeaderOK
  <2>. QED  BY <2>1, <2>2, <2>3 DEF NonceTrack
<1>2. CASE ExecuteTransaction
  <2> DEFINE tx == payload.txs[idx]
  <2>1. /\ status = "Executing" /\ idx \in 1..Len(payload.txs)
        /\ payload.txs \in Seq(Txs) /\ world \in [Accounts -> Nat]
    BY <1>2 DEF ExecuteTransaction, TypeOK
  <2>2. tx.from \in Accounts
    <3>1. tx \in Txs
      BY <2>1, ElementOfSeq
    <3>. QED  BY <3>1 DEF Txs
  <2>3. /\ world' = [world EXCEPT ![tx.from] = @ + 1]
        /\ idx' = idx + 1 /\ UNCHANGED <<parent, status, payload>>
    BY <1>2 DEF ExecuteTransaction
  <2>4. ASSUME NEW a \in Accounts
        PROVE  world'[a] = parent.stateRoot[a] + SentBefore(payload.txs, idx + 1, a)
    <3>1. /\ SentBefore(payload.txs, idx, a) \in Nat
          /\ SentBefore(payload.txs, idx + 1, a) =
               SentBefore(payload.txs, idx, a) + (IF tx.from = a THEN 1 ELSE 0)
      BY <2>1, SentBeforeStep
    <3>2. world[a] = parent.stateRoot[a] + SentBefore(payload.txs, idx, a)
      BY <2>1 DEF NonceTrack
    <3>3. world'[a] = world[a] + (IF tx.from = a THEN 1 ELSE 0)
      BY <2>1, <2>2, <2>3
    <3>4. parent.stateRoot[a] \in Nat
      BY DEF TypeOK, HeaderOK
    <3>. QED  BY <3>1, <3>2, <3>3, <3>4
  <2>. QED  BY <2>1, <2>3, <2>4 DEF NonceTrack
<1>3. CASE SealBlock
  <2>1. status' = "Idle" /\ parent'.stateRoot = world /\ UNCHANGED world
    BY <1>3 DEF SealBlock, NewHeader
  <2>. QED  BY <2>1 DEF NonceTrack
<1>4. CASE ExecutePayloadFails \/ ExecuteTransactionFails \/ SealBlockFails
  BY <1>4 DEF ExecutePayloadFails, ExecuteTransactionFails, SealBlockFails, NonceTrack
<1>5. CASE ComputeOutputRoot
  BY <1>5 DEF ComputeOutputRoot, NonceTrack
<1>6. CASE UNCHANGED vars
  BY <1>6 DEF vars, NonceTrack
<1>. QED  BY <1>1, <1>2, <1>3, <1>4, <1>5, <1>6 DEF Next

LEMMA InitDepositNonce == Init => DepositNonceIsPreState
BY DEF Init, DepositNonceIsPreState

LEMMA NextDepositNonce ==
    TypeOK /\ ReceiptsMatchBlock /\ NonceTrack /\ DepositNonceIsPreState /\ [Next]_vars
        => DepositNonceIsPreState'
<1> SUFFICES ASSUME TypeOK, ReceiptsMatchBlock, NonceTrack, DepositNonceIsPreState,
                    [Next]_vars
             PROVE  DepositNonceIsPreState'
  OBVIOUS
<1>1. CASE ExecutePayload
  <2>1. receipts' = <<>> /\ UNCHANGED <<config, parent>>
    BY <1>1 DEF ExecutePayload
  <2>2. Len(receipts') = 0
    BY <2>1, EmptySeq
  <2>. QED  BY <2>1, <2>2
    DEF DepositNonceIsPreState, DepositNoncesRecorded, IsRegolith, IsCanyon, IsActive
<1>2. CASE ExecuteTransaction
  <2> DEFINE tx == payload.txs[idx]
             pre == parent.stateRoot
             t == payload.timestamp
             regolith == IsRegolith(t)
  <2>1. /\ status = "Executing" /\ idx \in 1..Len(payload.txs)
        /\ payload.txs \in Seq(Txs) /\ cumGas \in Nat /\ receipts \in Seq(Receipts)
    BY <1>2 DEF ExecuteTransaction, TypeOK
  <2>2. tx \in Txs /\ regolith \in BOOLEAN
    BY <2>1, ElementOfSeq DEF IsRegolith, IsActive
  <2>3. PICK used \in GasUsedOptions(tx, regolith), success \in BOOLEAN :
            /\ cumGas' = cumGas + used
            /\ receipts' = Append(receipts, Receipt(tx, success, cumGas + used, world[tx.from]))
    BY <1>2 DEF ExecuteTransaction
  <2> DEFINE r == Receipt(tx, success, cumGas + used, world[tx.from])
  <2>4. used \in Nat
    BY <2>2, GasUsedBound
  <2>5. r \in Receipts
    BY <2>2, <2>4 DEF TypeOK, Receipt, Receipts, Txs
  <2>6. Len(receipts) = idx - 1
    <3>1. ReceiptsAgree(receipts, SubSeq(payload.txs, 1, idx - 1), cumGas)
      BY <2>1 DEF ReceiptsMatchBlock
    <3>2. Len(SubSeq(payload.txs, 1, idx - 1)) = idx - 1
      BY <2>1, PrefixProperties
    <3>. QED  BY <3>1, <3>2 DEF ReceiptsAgree
  <2>7. /\ Len(receipts') = idx
        /\ \A k \in 1..(idx - 1) : receipts'[k] = receipts[k]
        /\ receipts'[idx] = r
    BY <2>1, <2>3, <2>5, <2>6, AppendProperties
  <2>8. UNCHANGED <<parent, status, payload>>
    BY <1>2 DEF ExecuteTransaction
  <2>9. (tx.type = "Deposit" /\ regolith) =>
            r.depositNonce = pre[tx.from] + SentBefore(payload.txs, idx, tx.from)
    <3>1. tx.from \in Accounts
      BY <2>2 DEF Txs
    <3>2. world[tx.from] = pre[tx.from] + SentBefore(payload.txs, idx, tx.from)
      BY <2>1, <3>1 DEF NonceTrack
    <3>. QED  BY <3>2 DEF Receipt
  <2>10. DepositNoncesRecorded(receipts', payload.txs, pre, t)
    <3> SUFFICES ASSUME NEW k \in 1..Len(receipts'),
                        payload.txs[k].type = "Deposit", IsRegolith(t)
                 PROVE  LET from == payload.txs[k].from
                        IN  receipts'[k].depositNonce =
                              pre[from] + SentBefore(payload.txs, k, from)
      BY DEF DepositNoncesRecorded
    <3>1. CASE k = idx
      BY <2>7, <2>9, <3>1
    <3>2. CASE k # idx
      <4>1. k \in 1..Len(receipts) /\ receipts'[k] = receipts[k]
        BY <2>6, <2>7, <3>2
      <4>. QED  BY <2>1, <4>1 DEF DepositNonceIsPreState, DepositNoncesRecorded
    <3>. QED  BY <3>1, <3>2
  <2>11. UNCHANGED config
    BY <1>2 DEF ExecuteTransaction
  <2>. QED  BY <2>8, <2>11, <2>10
    DEF DepositNonceIsPreState, DepositNoncesRecorded, IsRegolith, IsCanyon, IsActive
<1>3. CASE SealBlock
  <2> DEFINE t == payload.timestamp
  <2>1. /\ status = "Executing" /\ status' = "Idle" /\ parent' = NewHeader
        /\ UNCHANGED <<config, receipts>>
    BY <1>3 DEF SealBlock
  <2>2. /\ parent'.receiptsRoot = ReceiptsRoot(receipts, t)
        /\ parent'.transactionsRoot = payload.txs
        /\ parent'.parentHash = parent
        /\ parent'.timestamp = t
    BY <2>1 DEF NewHeader
  <2>3. IsCanyon(t) => ReceiptsRoot(receipts, t) = receipts
    BY DEF ReceiptsRoot
  <2>4. DepositNoncesRecorded(receipts, payload.txs, parent.stateRoot, t)
    BY <2>1 DEF DepositNonceIsPreState
  <2>5. IsRegolith(t) /\ ~IsCanyon(t) =>
          \A k \in 1..Len(ReceiptsRoot(receipts, t)) :
              ReceiptsRoot(receipts, t)[k].type = "Deposit" =>
                  ReceiptsRoot(receipts, t)[k].depositNonce = None
    <3>1. receipts \in Seq(Receipts)
      BY DEF TypeOK
    <3>. QED  BY <3>1 DEF ReceiptsRoot, Receipts
  <2>. QED  BY <2>1, <2>2, <2>3, <2>4, <2>5
    DEF DepositNonceIsPreState, DepositNoncesRecorded, IsRegolith, IsCanyon, IsActive
<1>4. CASE ExecutePayloadFails \/ ExecuteTransactionFails \/ SealBlockFails
  BY <1>4 DEF ExecutePayloadFails, ExecuteTransactionFails, SealBlockFails,
              DepositNonceIsPreState, DepositNoncesRecorded, IsRegolith, IsCanyon, IsActive
<1>5. CASE ComputeOutputRoot
  BY <1>5
    DEF ComputeOutputRoot, DepositNonceIsPreState, DepositNoncesRecorded, IsRegolith, IsCanyon, IsActive
<1>6. CASE UNCHANGED vars
  BY <1>6
    DEF vars, DepositNonceIsPreState, DepositNoncesRecorded, IsRegolith, IsCanyon, IsActive
<1>. QED  BY <1>1, <1>2, <1>3, <1>4, <1>5, <1>6 DEF Next

(* The depositor's nonce is read before transact_commit (lib.rs 182-191): *)
(* for every fork schedule and payload, each post-Regolith deposit receipt *)
(* of the block being executed, and of every sealed Canyon header, records *)
(* the depositor's nonce of the block's pre-state plus its earlier sends,  *)
(* and a sealed Regolith header before Canyon has its deposit nonces       *)
(* stripped.                                                               *)
THEOREM DepositNonceIsPreStateHolds == Spec => []DepositNonceIsPreState
<1>1. TypeOK /\ ReceiptsMatchBlock /\ NonceTrack /\ DepositNonceIsPreState /\ [Next]_vars
        => (ReceiptsMatchBlock /\ NonceTrack /\ DepositNonceIsPreState)'
  BY NextReceiptsMatchBlock, NextNonceTrack, NextDepositNonce
<1>. QED
  BY <1>1, TypeCorrect, InitReceiptsMatchBlock, InitNonceTrack, InitDepositNonce,
     PTL DEF Spec

-----------------------------------------------------------------------------
(* The only step that moves the parent is SealBlock; it links the new      *)
(* header to the old one, and NonceTrack gives its state root at the end   *)
(* of the loop, when idx is one past the last transaction.                 *)
LEMMA SealStepExtends ==
    ASSUME TypeOK, NonceTrack, [Next]_vars, parent' # parent
    PROVE  /\ parent'.parentHash = parent
           /\ parent'.number = parent.number + 1
           /\ \A a \in Accounts :
                parent'.stateRoot[a] =
                  parent.stateRoot[a] +
                    SentBefore(parent'.transactionsRoot, Len(parent'.transactionsRoot) + 1, a)
<1>1. SealBlock
  BY DEF Next, vars, ExecutePayload, ExecutePayloadFails, ExecuteTransaction,
         ExecuteTransactionFails, SealBlockFails, ComputeOutputRoot
<1>2. /\ status = "Executing" /\ idx = Len(payload.txs) + 1
      /\ parent' = NewHeader
  BY <1>1 DEF SealBlock, TypeOK
<1>3. /\ NewHeader.parentHash = parent
      /\ NewHeader.number = parent.number + 1
      /\ NewHeader.stateRoot = world
      /\ NewHeader.transactionsRoot = payload.txs
  BY DEF NewHeader
<1>4. \A a \in Accounts : world[a] = parent.stateRoot[a] + SentBefore(payload.txs, idx, a)
  BY <1>2 DEF NonceTrack
<1>. QED  BY <1>2, <1>3, <1>4

(* Every header execute_payload seals extends the parent it executed on:   *)
(* the parent hash and number link the two, and the state root is the     *)
(* parent's state with one nonce step per transaction sent, for every      *)
(* fork schedule and payload (lib.rs 230-299).                             *)
THEOREM SealedBlockExtendsParentHolds == Spec => SealedBlockExtendsParent
<1>1. Spec => [](TypeOK /\ NonceTrack)
  <2>1. TypeOK /\ NonceTrack /\ [Next]_vars => (TypeOK /\ NonceTrack)'
    BY NextTypeOK, NextNonceTrack
  <2>. QED  BY <2>1, InitTypeOK, InitNonceTrack, PTL DEF Spec
<1>2. TypeOK /\ NonceTrack /\ [Next]_vars =>
        [parent' # parent =>
           /\ parent'.parentHash = parent
           /\ parent'.number = parent.number + 1
           /\ \A a \in Accounts :
                parent'.stateRoot[a] =
                  parent.stateRoot[a] +
                    SentBefore(parent'.transactionsRoot, Len(parent'.transactionsRoot) + 1, a)
        ]_vars
  BY SealStepExtends
<1>. QED  BY <1>1, <1>2, PTL DEF Spec, SealedBlockExtendsParent

=============================================================================
