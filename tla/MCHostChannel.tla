---------------------------- MODULE MCHostChannel ----------------------------
(***************************************************************************)
(* The native host with a client that needs three preimages, k1 twice.    *)
(***************************************************************************)
EXTENDS HostChannel

CONSTANTS k1, k2

MCKeys == {k1, k2}
MCRequests == <<k1, k2, k1>>

=============================================================================
