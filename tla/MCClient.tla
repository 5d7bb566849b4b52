------------------------------ MODULE MCClient ------------------------------
(***************************************************************************)
(* Both client programs, agreed safe head at block 1, two derivable       *)
(* blocks after it, and every claim about blocks 0 to 4.                   *)
(***************************************************************************)
EXTENDS Client

CONSTANTS r0, r1, r2, r3

MCChain == <<r2, r3>>
MCClaimBlocks == 0..4
MCClaims == {r0, r1, r2, r3}

=============================================================================
