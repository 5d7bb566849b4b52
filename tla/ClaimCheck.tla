----------------------------- MODULE ClaimCheck -----------------------------
(***************************************************************************)
(* What a kona client program promises (spec 1, 2 and 6): given the       *)
(* agreed L2 safe head and the L1 data, it settles the claim that block   *)
(* claimBlock has output root claim.  It succeeds (exit 0) only if that   *)
(* block is the agreed head or one derivable from the data and its output *)
(* root is the claim, and it reports a mismatch (exit 1) only if it is    *)
(* not; it may also stop on an internal error (exit 2).                  *)
(*                                                                         *)
(* The derivable chain is given by its output roots: block Agreed has     *)
(* AgreedRoot and block Agreed + i has Chain[i].                           *)
(***************************************************************************)
EXTENDS Naturals, Sequences

CONSTANTS
    Agreed,       \* number of the agreed L2 safe head
    AgreedRoot,   \* its output root
    Chain,        \* output roots of the blocks derivable after it, in order
    ClaimBlocks,  \* the l2_claim_block values a boot can carry
    Claims,       \* the l2_claim values a boot can carry
    None

VARIABLES claimBlock, claim, result

(* The block numbers whose output root the data determines.                *)
Derivable == Agreed..(Agreed + Len(Chain))

RootOf(n) == IF n = Agreed THEN AgreedRoot ELSE Chain[n - Agreed]

ClaimHolds == claimBlock \in Derivable /\ RootOf(claimBlock) = claim

Init ==
    /\ claimBlock \in ClaimBlocks
    /\ claim \in Claims
    /\ result = None

(* The run ends with the verdict on the claim, or with an internal error.  *)
Settle ==
    /\ result = None
    /\ \/ result' = IF ClaimHolds THEN 0 ELSE 1
       \/ result' = 2
    /\ UNCHANGED <<claimBlock, claim>>

Spec == Init /\ [][Settle]_<<claimBlock, claim, result>>

=============================================================================
