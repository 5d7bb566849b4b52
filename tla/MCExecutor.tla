----------------------------- MODULE MCExecutor -----------------------------
(* A small instance of Executor for TLC: two accounts, payloads of up to   *)
(* two transactions under a gas limit of 3, two blocks, and rollup     *)
(* configs whose forks activate at the first or at the second block.       *)
EXTENDS Executor

CONSTANTS a1, a2

(* A user deposit, a system deposit (the L1 attributes deposit), a signed  *)
(* EIP-1559 transaction and an EIP-4844 transaction.                       *)
UserDeposit   == [type |-> "Deposit", gas |-> 2, from |-> a1, system |-> FALSE]
SystemDeposit == [type |-> "Deposit", gas |-> 3, from |-> a1, system |-> TRUE]
Signed1559    == [type |-> "Eip1559", gas |-> 1, from |-> a2, system |-> FALSE]
Blob4844      == [type |-> "Eip4844", gas |-> 1, from |-> a2, system |-> FALSE]

(* Payloads of up to two executable transactions under a gas limit of 3,  *)
(* and one payload for each way the prologue or the loop refuses a block.  *)
Executable == {UserDeposit, SystemDeposit, Signed1559}

MCPayloads ==
    {[gasLimit |-> 3, txs |-> s] : s \in UNION {[1..n -> Executable] : n \in 0..2}}
    \cup {[gasLimit |-> 3, txs |-> <<Blob4844>>],
          [gasLimit |-> 3, txs |-> <<Undecodable>>],
          [gasLimit |-> None, txs |-> <<>>]}

(* Genesis at time 0, block time 1: blocks 1 and 2 have timestamps 1, 2.   *)
MCRollupConfigs ==
    { [regolith |-> 2, canyon |-> 2, ecotone |-> NoFork],
      [regolith |-> 0, canyon |-> 2, ecotone |-> 2],
      [regolith |-> 0, canyon |-> 0, ecotone |-> 0] }

MCGenesisHeader ==
    [number |-> 0, parentHash |-> None, stateRoot |-> [a \in {a1, a2} |-> 0],
     transactionsRoot |-> <<>>, receiptsRoot |-> <<>>, withdrawalsRoot |-> None,
     gasLimit |-> 3, gasUsed |-> 0, timestamp |-> 0,
     blobGasUsed |-> None, excessBlobGas |-> None]
=============================================================================
