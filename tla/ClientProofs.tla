---------------------------- MODULE ClientProofs ----------------------------
(***************************************************************************)
(* Proofs about the client programs of Client.tla, for every value of the  *)
(* constants that satisfies ClientAssumption.                              *)
(*                                                                         *)
(* Neither ClaimCheckUnlessForged nor HeadInvariant holds by the shape of *)
(* a single step: an epilogue's exit code is right only because the head  *)
(* the driver reached is the claimed block (or the agreed one, when the   *)
(* claim is below it) and, on a map the prover did not forge, its output  *)
(* is that block's root.  IInv, the type invariant with HeadInvariant, is *)
(* inductive; the refinement follows from it step by step.                *)
(***************************************************************************)
EXTENDS Client, TLAPS

USE ClientAssumption

IInv == TypeOK /\ HeadInvariant

(* The blocks the data reaches are blocks of the chain.                    *)
LEMMA ReachableInDerivable ==
    ASSUME NEW r \in 0..Len(Chain)
    PROVE  Agreed..(Agreed + r) \subseteq Derivable
BY DEF Derivable

(* Every block of the chain has an output root among the claims.           *)
LEMMA RootOfType ==
    ASSUME NEW n \in Derivable
    PROVE  RootOf(n) \in Claims
<1>1. CASE n = Agreed
  BY <1>1 DEF RootOf
<1>2. CASE n # Agreed
  <2>1. n - Agreed \in 1..Len(Chain)
    BY <1>2 DEF Derivable
  <2>. QED  BY <1>2, <2>1 DEF RootOf
<1>. QED  BY <1>1, <1>2

-----------------------------------------------------------------------------
LEMMA InitIInv == Init => IInv
BY DEF Init, IInv, TypeOK, HeadInvariant, Derivable, Reachable, RootOf

LEMMA NextIInv == IInv /\ [Next]_vars => IInv'
<1> SUFFICES ASSUME IInv, [Next]_vars PROVE IInv'
  OBVIOUS
<1>. USE DEF IInv, TypeOK, HeadInvariant, inputs, Reachable
<1>0. Reachable \subseteq Derivable
  BY ReachableInDerivable DEF Reachable
<1>1. CASE Boot
  BY <1>1 DEF Boot
<1>2. CASE BootFails
  BY <1>2 DEF BootFails, Abort
<1>3. CASE DeriveNext
  <2>1. head + 1 \in Derivable /\ head' = head + 1
    BY <1>0, <1>3 DEF DeriveNext
  <2>2. output' \in Claims
    BY <1>3, <2>1, RootOfType DEF DeriveNext
  <2>. QED  BY <1>3, <2>1, <2>2 DEF DeriveNext, Reachable
<1>4. CASE DeriveDone
  BY <1>4 DEF DeriveDone, Reachable
<1>5. CASE DeriveFails
  BY <1>5 DEF DeriveFails, Abort
<1>6. CASE Epilogue
  BY <1>6 DEF Epilogue
<1>7. CASE ZkDeriveDisputed
  <2>1. head + 1 \in Derivable /\ head' = head + 1
    BY <1>0, <1>7 DEF ZkDeriveDisputed
  <2>2. output' \in Claims
    BY <1>7, <2>1, RootOfType DEF ZkDeriveDisputed
  <2>3. ~forged' => output' = RootOf(head')
    BY <1>7, <2>1 DEF ZkDeriveDisputed
  <2>. QED  BY <1>7, <2>1, <2>2, <2>3 DEF ZkDeriveDisputed, Reachable
<1>8. CASE ZkDeriveFails
  BY <1>8 DEF ZkDeriveFails, Abort
<1>9. CASE ZkEpilogue
  BY <1>9 DEF ZkEpilogue
<1>10. CASE UNCHANGED vars
  BY <1>10 DEF vars, Reachable
<1>. QED  BY <1>1, <1>2, <1>3, <1>4, <1>5, <1>6, <1>7, <1>8, <1>9, <1>10 DEF Next

(* The type invariant holds in every state of either program.             *)
THEOREM TypeCorrect == Spec => []TypeOK
BY InitIInv, NextIInv, PTL DEF Spec, IInv

(* The safe head and output root the driver reports always belong         *)
(* together, and are the claimed block's when the programs compare them    *)
(* (kona.rs 72-101, main.rs 106-107).                                      *)
THEOREM HeadInvariantHolds == Spec => []HeadInvariant
BY InitIInv, NextIInv, PTL DEF Spec, IInv

-----------------------------------------------------------------------------
(* The verdict the refinement mapping makes visible: the exit code of a    *)
(* run on a map the prover did not forge.                                  *)
verdict == IF pc = "Exited" /\ ~forged THEN exitCode ELSE None

(* A step of a run on a forged map leaves the visible verdict None.        *)
LEMMA ForgedStutters ==
    ASSUME forged, forged' = forged
    PROVE  UNCHANGED verdict
BY DEF verdict

(* A step that exits a run on an honest map gives the verdict on the      *)
(* claim, or an internal error: a step of ClaimCheck's Settle.             *)
LEMMA ExitIsSettle ==
    ASSUME IInv, ~forged, forged' = forged, pc # "Exited", pc' = "Exited",
           UNCHANGED <<claimBlock, claim>>,
           \/ exitCode' = 2
           \/ exitCode' = 0 /\ head' = claimBlock /\ output' = claim
                            /\ output' = RootOf(head') /\ head' \in Derivable
           \/ exitCode' = 1 /\ (head' # claimBlock \/ output' # claim)
                            /\ output' = RootOf(head')
                            /\ head' = IF claimBlock < Agreed THEN Agreed ELSE claimBlock
    PROVE  CCH!Settle
<1>1. verdict = None /\ verdict' = exitCode'
  BY DEF IInv, HeadInvariant, verdict
<1>2. CASE exitCode' = 2
  BY <1>1, <1>2 DEF CCH!Settle
<1>3. CASE exitCode' = 0 /\ head' = claimBlock /\ output' = claim
                         /\ output' = RootOf(head') /\ head' \in Derivable
  <2>1. CCH!ClaimHolds
    BY <1>3 DEF CCH!ClaimHolds, CCH!Derivable, Derivable, CCH!RootOf, RootOf
  <2>. QED  BY <1>1, <1>3, <2>1 DEF CCH!Settle
<1>4. CASE exitCode' = 1 /\ (head' # claimBlock \/ output' # claim)
                         /\ output' = RootOf(head')
                         /\ head' = IF claimBlock < Agreed THEN Agreed ELSE claimBlock
  <2>1. claimBlock \in Nat
    BY DEF IInv, TypeOK
  <2>2. ~CCH!ClaimHolds
    BY <1>4, <2>1 DEF CCH!ClaimHolds, CCH!Derivable, CCH!RootOf, RootOf
  <2>. QED  BY <1>1, <1>4, <2>2 DEF CCH!Settle
<1>. QED  BY <1>2, <1>3, <1>4

(* Both client programs implement ClaimCheck on a map the prover did not  *)
(* forge: whatever claim the boot info carries, kona.rs exits 0 only if   *)
(* it is the output root of the claimed block and 1 only if it is not,    *)
(* and the ZKVM program's asserts pass only on a true claim.  (On a       *)
(* forged map they can pass on a false one: see the KZG finding.)        *)
THEOREM RefinesClaimCheckUnlessForged == Spec => ClaimCheckUnlessForged
<1>1. Init => CCH!Init
  BY DEF Init, CCH!Init
<1>2. IInv /\ IInv' /\ [Next]_vars => [CCH!Settle]_<<claimBlock, claim, verdict>>
  <2> SUFFICES ASSUME IInv, IInv', [Next]_vars
               PROVE  [CCH!Settle]_<<claimBlock, claim, verdict>>
    OBVIOUS
  <2>0. CASE forged /\ UNCHANGED inputs
    BY <2>0, ForgedStutters DEF inputs
  <2>1. CASE Boot
    BY <2>1 DEF Boot, verdict, inputs
  <2>2. CASE BootFails /\ ~forged
    BY <2>2, ExitIsSettle DEF BootFails, Abort, inputs
  <2>3. CASE DeriveNext
    BY <2>3 DEF DeriveNext, verdict, inputs
  <2>4. CASE DeriveDone
    BY <2>4 DEF DeriveDone, verdict, inputs
  <2>5. CASE DeriveFails /\ ~forged
    BY <2>5, ExitIsSettle DEF DeriveFails, Abort, inputs
  <2>6. CASE Epilogue /\ ~forged
    <3>1. head \in Derivable /\ output = RootOf(head)
          /\ head = IF claimBlock < Agreed THEN Agreed ELSE claimBlock
      BY <2>6 DEF Epilogue, IInv, TypeOK, HeadInvariant
    <3>. QED  BY <2>6, <3>1, ExitIsSettle DEF Epilogue, inputs
  <2>7. CASE ZkDeriveDisputed
    BY <2>7 DEF ZkDeriveDisputed, verdict, inputs
  <2>8. CASE ZkDeriveFails /\ ~forged
    BY <2>8, ExitIsSettle DEF ZkDeriveFails, Abort, inputs
  <2>9. CASE ZkEpilogue /\ ~forged
    <3>1. head \in Derivable /\ output = RootOf(head)
      BY <2>9 DEF ZkEpilogue, IInv, TypeOK, HeadInvariant
    <3>. QED  BY <2>9, <3>1, ExitIsSettle DEF ZkEpilogue, inputs
  <2>10. CASE UNCHANGED vars
    BY <2>10 DEF vars, verdict
  <2>11. Next => UNCHANGED inputs
    BY DEF Next, Boot, BootFails, DeriveNext, DeriveDone, DeriveFails,
           Epilogue, ZkDeriveDisputed, ZkDeriveFails, ZkEpilogue
  <2>. QED  BY <2>0, <2>1, <2>2, <2>3, <2>4, <2>5, <2>6, <2>7, <2>8, <2>9,
               <2>10, <2>11 DEF Next
<1>. QED
  BY <1>1, <1>2, InitIInv, NextIInv, PTL
  DEF Spec, ClaimCheckUnlessForged, CCH!Spec, verdict

=============================================================================
