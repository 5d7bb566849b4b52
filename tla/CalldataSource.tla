--------------------------- MODULE CalldataSource ---------------------------
(***************************************************************************)
(* The calldata data source of derivation,                                 *)
(* src/crates/derive/src/sources/calldata.rs.                              *)
(*                                                                         *)
(* A CalldataSource is built for one L1 block.  Each call of next() first  *)
(* loads the block's transactions unless the source is open (a failed     *)
(* load is returned as a temporary Provider error and retried by the next *)
(* call), then pops the front of the batcher calldata, or returns a       *)
(* temporary Eof once it is drained.  The caller, the L1 retrieval stage, *)
(* keeps calling next() on temporary errors.                               *)
(*                                                                         *)
(* A transaction is a record of its envelope type, its `to` (an address   *)
(* or Create), its recovered signer (or Unrecoverable) and its input.     *)
(***************************************************************************)
EXTENDS Naturals, Sequences

CONSTANTS
    Blocks,           \* the transaction lists of the L1 blocks a source can be built for
    BatchInbox,       \* batch_inbox_address
    Signer,           \* the batcher address the source accepts
    MaxFetchFailures  \* bound on failed loads of the block (each is retried)

ASSUME CalldataAssumption == MaxFetchFailures \in Nat

VARIABLES
    block,     \* block_ref, as the block's transaction list
    open,      \* CalldataSource.open
    calldata,  \* CalldataSource.calldata, the VecDeque<Bytes>
    result,    \* what the last next() returned: "None", "Data", "Eof" or "ProviderError"
    returned,  \* the data next() has returned so far, in order
    failures   \* failed loads so far

vars == <<block, open, calldata, result, returned, failures>>

(* The filter_map of load_calldata: Legacy, EIP-2930 and EIP-1559          *)
(* transactions that call the batch inbox and whose signer recovers to the *)
(* batcher.                                                                *)
IsBatcherCalldata(tx) ==
    /\ tx.type \in {"Legacy", "Eip2930", "Eip1559"}
    /\ tx.to = BatchInbox
    /\ tx.signer = Signer

(* Fault variant of BatcherCalldata: the transactions kept instead of     *)
(* their input.                                                            *)
BatcherTransactions(txs) == SelectSeq(txs, IsBatcherCalldata)

BatcherCalldata(txs) ==
    LET sel == SelectSeq(txs, IsBatcherCalldata)
    IN  [i \in 1..Len(sel) |-> sel[i].input]

Init ==
    /\ block \in Blocks
    /\ open = FALSE
    /\ calldata = <<>>
    /\ result = "None"
    /\ returned = <<>>
    /\ failures = 0

(* Fault variant of Next: the calldata popped by peeking (front instead   *)
(* of pop_front).                                                          *)
NextPeeks ==
    /\ LET loaded == IF open THEN calldata ELSE BatcherCalldata(block)
       IN  /\ open' = TRUE
           /\ IF loaded = <<>>
              THEN result' = "Eof" /\ calldata' = loaded /\ UNCHANGED returned
              ELSE /\ result' = "Data"
                   /\ returned' = Append(returned, Head(loaded))
                   /\ calldata' = loaded
    /\ UNCHANGED <<block, failures>>

(* next() when the load succeeds or the source is already open:           *)
(* load_calldata fills the deque once and sets open; the front is popped, *)
(* or Eof returned when the deque is empty.                                *)
NextReturns ==
    /\ LET loaded == IF open THEN calldata ELSE BatcherCalldata(block)
       IN  /\ open' = TRUE
           /\ IF loaded = <<>>
              THEN result' = "Eof" /\ calldata' = loaded /\ UNCHANGED returned
              ELSE /\ result' = "Data"
                   /\ returned' = Append(returned, Head(loaded))
                   /\ calldata' = Tail(loaded)
    /\ UNCHANGED <<block, failures>>

(* Fault variant of NextLoadFails: open set although the load failed.     *)
NextLoadFailsOpens ==
    /\ ~open
    /\ failures < MaxFetchFailures
    /\ result' = "ProviderError"
    /\ failures' = failures + 1
    /\ open' = TRUE
    /\ UNCHANGED <<block, calldata, returned>>

(* next() when block_info_and_transactions_by_hash fails: the error is    *)
(* returned as a temporary Provider error, the source stays closed.       *)
NextLoadFails ==
    /\ ~open
    /\ failures < MaxFetchFailures
    /\ result' = "ProviderError"
    /\ failures' = failures + 1
    /\ UNCHANGED <<block, open, calldata, returned>>

Next == NextReturns \/ NextLoadFails

Spec == Init /\ [][Next]_vars

-----------------------------------------------------------------------------
(***************************************************************************)
(* Properties.                                                             *)
(***************************************************************************)

TypeOK ==
    /\ open \in BOOLEAN
    /\ result \in {"None", "Data", "Eof", "ProviderError"}
    /\ failures \in 0..MaxFetchFailures
    /\ calldata \in Seq({tx.input : tx \in {block[i] : i \in DOMAIN block}})
    /\ returned \in Seq({tx.input : tx \in {block[i] : i \in DOMAIN block}})

(* Spec 5, data source: the frames of a block are the inputs of its        *)
(* calldata transactions sent to the batch inbox by the batcher, in block  *)
(* order.                                                                  *)
Frames(txs) ==
    LET sent == SelectSeq(txs, LAMBDA tx : tx.to = BatchInbox /\ tx.signer = Signer
                                           /\ tx.type # "Eip4844")
    IN  [i \in 1..Len(sent) |-> sent[i].input]

(* Whatever failed loads and retries happen, next() returns the block's    *)
(* frames exactly once and in order: what it has returned is a prefix of   *)
(* them, and once it says Eof it has returned all of them.                 *)
FramesExactlyOnce ==
    /\ \E k \in 0..Len(Frames(block)) : returned = SubSeq(Frames(block), 1, k)
    /\ result = "Eof" => returned = Frames(block)

(* The source as the data source spec 5 describes: the calldata            *)
(* load_calldata selects is its data, what next() returned is what it      *)
(* handed out, and an Eof result is the end of the data.                   *)
Stream == INSTANCE FrameStream
            WITH data <- BatcherCalldata(block), out <- returned, eof <- (result = "Eof")

(* next() implements the data source: each call that returns data returns  *)
(* the item after the ones already returned, a failed and retried load    *)
(* returns nothing, and Eof comes only after all of the data and stays.   *)
StreamSpec == Stream!Spec

=============================================================================
