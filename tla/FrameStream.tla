----------------------------- MODULE FrameStream -----------------------------
(***************************************************************************)
(* What a data source of derivation promises its caller (spec 5): the     *)
(* data of its L1 block, handed out one item per call, front to back, each *)
(* once, and then the end of the data, for good.  Calls that fail and are *)
(* retried are not visible here: they hand out nothing.                   *)
(*                                                                         *)
(* data is the block's data, which no step changes; out is what has been  *)
(* handed out so far; eof is whether the end has been reported.           *)
(***************************************************************************)
EXTENDS Naturals, Sequences

VARIABLES data, out, eof

vars == <<data, out, eof>>

Init == out = <<>> /\ eof = FALSE

(* The next item of the data is handed out.                                *)
Emit ==
    /\ Len(out) < Len(data)
    /\ out' = Append(out, data[Len(out) + 1])
    /\ UNCHANGED <<data, eof>>

(* All of the data has been handed out: the end is reported.               *)
Finish ==
    /\ out = data
    /\ eof' = TRUE
    /\ UNCHANGED <<data, out>>

Spec == Init /\ [][Emit \/ Finish]_vars

=============================================================================
