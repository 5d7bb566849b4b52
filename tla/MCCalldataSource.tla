------------------------- MODULE MCCalldataSource -------------------------
(***************************************************************************)
(* CalldataSource for TLC: blocks of up to two transactions (and two of    *)
(* three) drawn from one batcher transaction of each calldata type and one *)
(* transaction failing each condition of the filter, with two failed      *)
(* loads before the provider answers.                                      *)
(***************************************************************************)
EXTENDS CalldataSource

CONSTANTS Inbox, Batcher, Other, Create, Unrecoverable, d1, d2, d3

Tx(type, to, signer, input) == [type |-> type, to |-> to, signer |-> signer, input |-> input]

MCTxs ==
    {Tx("Legacy", Inbox, Batcher, d1),         \* batcher frame
     Tx("Eip1559", Inbox, Batcher, d2),        \* batcher frame
     Tx("Eip2930", Inbox, Batcher, d3),        \* batcher frame
     Tx("Eip2930", Other, Batcher, d3),        \* another recipient
     Tx("Eip1559", Inbox, Other, d3),          \* another sender
     Tx("Eip1559", Create, Batcher, d3),       \* contract creation
     Tx("Legacy", Inbox, Unrecoverable, d3),   \* signature does not recover
     Tx("Eip4844", Inbox, Batcher, d3)}        \* blob transaction

MCBlocks ==
    UNION {[1..n -> MCTxs] : n \in 0..2}
      \cup {<<Tx("Legacy", Inbox, Batcher, d1), Tx("Eip1559", Inbox, Other, d3),
              Tx("Eip1559", Inbox, Batcher, d2)>>}
=============================================================================
