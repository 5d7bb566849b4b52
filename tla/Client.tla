------------------------------- MODULE Client -------------------------------
(***************************************************************************)
(* The two client programs, from boot to verdict:                          *)
(*   src/bin/client/src/kona.rs                   the FPVM client          *)
(*   src/bin/programs/zkvm-client/src/main.rs     the ZKVM client          *)
(*                                                                         *)
(* Both load the boot info (the claim), derive payloads from the agreed   *)
(* safe head with the derivation driver, execute them and compare the     *)
(* result with the claim.  The FPVM client runs produce_output, which     *)
(* derives and executes block after block up to the claimed one, and      *)
(* exits 1 on a mismatch; the ZKVM client derives and executes only the   *)
(* disputed payload, the one block after the safe head, and asserts.      *)
(*                                                                         *)
(* The driver is not under src/ and is modelled from spec 4.8: each step  *)
(* derives the next block of the chain the L1 data determines, and its    *)
(* executed output root is that block's root (the executor has a module  *)
(* of its own).  Data that ends before the next block is a temporary     *)
(* error, which the driver retries (the run waits); a hard error of the   *)
(* driver ends the run.  How far the data reaches, reach blocks of Chain, *)
(* is chosen at boot.                                                      *)
(*                                                                         *)
(* The ZKVM program reads all of its data from the map the prover hands   *)
(* it; verify() checks the map's preimages but not the blobs' KZG proofs  *)
(* (oracle.rs 175-179 are commented out).  A forged map carries blob data *)
(* no commitment binds, and the block derived from it executes to any     *)
(* output root the prover aims for.                                        *)
(***************************************************************************)
EXTENDS Naturals, Sequences

CONSTANTS
    Agreed,       \* number of the agreed L2 safe head
    AgreedRoot,   \* its output root
    Chain,        \* output roots of the blocks derivable after it, in order
    ClaimBlocks,  \* the l2_claim_block values a boot can carry
    Claims,       \* the l2_claim values a boot can carry
    None

ASSUME ClientAssumption ==
    /\ Agreed \in Nat
    /\ Chain \in Seq(Claims)
    /\ AgreedRoot \in Claims
    /\ ClaimBlocks \subseteq Nat
    /\ None \notin Nat

VARIABLES
    mode,        \* which program runs: "FPVM" (kona.rs) or "ZKVM" (main.rs)
    claimBlock,  \* boot.l2_claim_block
    claim,       \* boot.l2_claim
    pc,          \* "Boot", "Derive", "Epilogue" or "Exited"
    head,        \* number of the last block the driver produced (the safe head)
    output,      \* output root of that block
    exitCode,    \* None until exit; then 0, 1 or 2 (an Err or a panic)
    reach,       \* how many blocks of Chain the L1 data (or the prover's map) carries
    forged       \* the prover's map holds blob data its commitments do not bind

vars == <<mode, claimBlock, claim, pc, head, output, exitCode, reach, forged>>
inputs == <<mode, claimBlock, claim, reach, forged>>

Derivable == Agreed..(Agreed + Len(Chain))

(* The blocks the driver can derive from the data it is given.             *)
Reachable == Agreed..(Agreed + reach)

RootOf(n) == IF n = Agreed THEN AgreedRoot ELSE Chain[n - Agreed]

Init ==
    /\ mode \in {"FPVM", "ZKVM"}
    /\ claimBlock \in ClaimBlocks
    /\ claim \in Claims
    /\ pc = "Boot"
    /\ head = Agreed
    /\ output = AgreedRoot
    /\ exitCode = None
    /\ reach \in 0..Len(Chain)
    /\ forged \in BOOLEAN
    /\ forged => mode = "ZKVM"

(* The run stops with an Err returned from main or a panic.                *)
Abort == pc' = "Exited" /\ exitCode' = 2 /\ UNCHANGED <<head, output>>

(* kona.rs 41-46 and main.rs 53-61, 66-74: the boot info is loaded (or     *)
(* read and the in-memory oracle verified) and the providers are built.   *)
Boot ==
    /\ pc = "Boot"
    /\ pc' = "Derive"
    /\ UNCHANGED <<head, output, exitCode>>
    /\ UNCHANGED inputs

(* kona.rs 43 (?): BootInfo::load fails; main.rs 61 (expect): verify()    *)
(* rejects the map.                                                        *)
BootFails ==
    /\ pc = "Boot"
    /\ Abort
    /\ UNCHANGED inputs

(* kona.rs 53-66, produce_output: one more block is derived and executed  *)
(* while the safe head is below the claimed block.                        *)
DeriveNext ==
    /\ mode = "FPVM" /\ pc = "Derive"
    /\ head < claimBlock
    /\ head + 1 \in Reachable
    /\ head' = head + 1
    /\ output' = RootOf(head + 1)
    /\ UNCHANGED <<pc, exitCode>>
    /\ UNCHANGED inputs

(* kona.rs 64-66: produce_output returns (number, output_root) once the    *)
(* safe head has reached the claimed block.                                *)
DeriveDone ==
    /\ mode = "FPVM" /\ pc = "Derive"
    /\ head >= claimBlock
    /\ pc' = "Epilogue"
    /\ UNCHANGED <<head, output, exitCode>>
    /\ UNCHANGED inputs

(* kona.rs 53-60, 64-66 (?): DerivationDriver::new or produce_output      *)
(* returns a hard error, which main returns.                               *)
DeriveFails ==
    /\ mode = "FPVM" /\ pc = "Derive"
    /\ Abort
    /\ UNCHANGED inputs

(* Fault variant of Epilogue: a mismatch needs both the number and the     *)
(* output root to differ.                                                  *)
EpilogueBothDiffer ==
    /\ mode = "FPVM" /\ pc = "Epilogue"
    /\ pc' = "Exited"
    /\ exitCode' = IF head # claimBlock /\ output # claim THEN 1 ELSE 0
    /\ UNCHANGED <<head, output>>
    /\ UNCHANGED inputs

(* kona.rs 72-101: exit 1 if the number or the output root differs from    *)
(* the claim, else report success.                                         *)
Epilogue ==
    /\ mode = "FPVM" /\ pc = "Epilogue"
    /\ pc' = "Exited"
    /\ exitCode' = IF head # claimBlock \/ output # claim THEN 1 ELSE 0
    /\ UNCHANGED <<head, output>>
    /\ UNCHANGED inputs

(* Fault variant of ZkDeriveDisputed: the output root is taken from the   *)
(* parent header rather than the executed one.                             *)
ZkDeriveDisputedStaleOutput ==
    /\ mode = "ZKVM" /\ pc = "Derive"
    /\ head + 1 \in Reachable
    /\ pc' = "Epilogue"
    /\ head' = head + 1
    /\ UNCHANGED <<output, exitCode>>
    /\ UNCHANGED inputs

(* main.rs 80-100: produce_disputed_payload derives the one block after   *)
(* the safe head, which is executed and its output root computed: the     *)
(* block's root, or with a forged map any root.                            *)
ZkDeriveDisputed ==
    /\ mode = "ZKVM" /\ pc = "Derive"
    /\ head + 1 \in Reachable
    /\ pc' = "Epilogue"
    /\ head' = head + 1
    /\ \/ ~forged /\ output' = RootOf(head + 1)
       \/ forged /\ output' \in Claims
    /\ UNCHANGED exitCode
    /\ UNCHANGED inputs

(* main.rs 80-100 (unwrap): DerivationDriver::new, produce_disputed_payload,*)
(* execute_payload or compute_output_root returns an error: a panic.       *)
ZkDeriveFails ==
    /\ mode = "ZKVM" /\ pc = "Derive"
    /\ Abort
    /\ UNCHANGED inputs

(* main.rs 106-107: assert_eq! of number and output root with the claim;  *)
(* a failed assert panics, so the program proves nothing.                  *)
ZkEpilogue ==
    /\ mode = "ZKVM" /\ pc = "Epilogue"
    /\ pc' = "Exited"
    /\ exitCode' = IF head = claimBlock /\ output = claim THEN 0 ELSE 2
    /\ UNCHANGED <<head, output>>
    /\ UNCHANGED inputs

Next ==
    \/ Boot \/ BootFails
    \/ DeriveNext \/ DeriveDone \/ DeriveFails \/ Epilogue
    \/ ZkDeriveDisputed \/ ZkDeriveFails \/ ZkEpilogue

Spec == Init /\ [][Next]_vars

-----------------------------------------------------------------------------
(***************************************************************************)
(* Properties.                                                             *)
(***************************************************************************)

TypeOK ==
    /\ mode \in {"FPVM", "ZKVM"}
    /\ claimBlock \in ClaimBlocks
    /\ claim \in Claims
    /\ pc \in {"Boot", "Derive", "Epilogue", "Exited"}
    /\ head \in Derivable
    /\ output \in Claims
    /\ exitCode \in {None, 0, 1, 2}
    /\ reach \in 0..Len(Chain)
    /\ forged \in BOOLEAN

(* The driver's safe head and output root always belong together unless   *)
(* the prover forged the map: the output is the root of the head block,   *)
(* and when the programs compare,   *)
(* the FPVM head is the claimed block (or the agreed head if the claim is *)
(* below it) and the ZKVM head is the block after the agreed one.         *)
HeadInvariant ==
    /\ ~forged => output = RootOf(head)
    /\ head \in Reachable
    /\ pc = "Boot" => head = Agreed
    /\ mode = "FPVM" /\ pc = "Derive" => head <= claimBlock \/ head = Agreed
    /\ mode = "FPVM" /\ pc = "Epilogue" =>
           head = IF claimBlock < Agreed THEN Agreed ELSE claimBlock
    /\ mode = "ZKVM" /\ pc = "Derive" => head = Agreed
    /\ mode = "ZKVM" /\ pc = "Epilogue" => head = Agreed + 1
    /\ pc # "Exited" => exitCode = None

(* The refinement: before the run exits no verdict is visible; then the   *)
(* verdict is the exit code, of a run on a map that is not forged.         *)
CCH == INSTANCE ClaimCheck WITH
        result <- IF pc = "Exited" /\ ~forged THEN exitCode ELSE None

(* kona.rs and, on a map whose blobs are the committed ones, main.rs       *)
(* implement ClaimCheck: they exit 0 only on a claim that is the output   *)
(* root of a derivable block, and exit 1 only on one that is not.  On a   *)
(* forged map the ZKVM asserts can pass on a false claim, which is why    *)
(* those runs are hidden.                                                  *)
ClaimCheckUnlessForged == CCH!Spec

=============================================================================
