------------------------- MODULE HostChannelProofs -------------------------
(***************************************************************************)
(* Proofs about the native host of HostChannel.tla, for every key set and  *)
(* request sequence that satisfy HostAssumption.                           *)
(*                                                                         *)
(* HostOkOnlyIfClaimValidated is not inductive: the host's Ok is decided  *)
(* from the two tasks' results, and the client's progress from its        *)
(* program counter.  JoinChain links them:                                 *)
(*   - there is no child before the host spawns the program task and the  *)
(*     task spawns it;                                                     *)
(*   - the host is Ok only if the program task is, and the program task   *)
(*     only if the child exited 0;                                         *)
(*   - the child has a status only once it exited, a status 0 or 1 only   *)
(*     after the epilogue, and the epilogue comes after the last request. *)
(***************************************************************************)
EXTENDS HostChannel, SequenceTheorems, TLAPS

USE HostAssumption

JoinChain ==
    /\ host = "Setup" => program = "Off"
    /\ host = "Ok" => program = "Ok"
    /\ program \in {"Off", "Spawning"} => child = "Off"
    /\ program = "Ok" => child = "Exited" /\ exitCode = 0
    /\ child # "Exited" => exitCode = None
    /\ exitCode \in {0, 1} => cpc = "Done"
    /\ cpc = "Done" <=> ci = Len(Requests) + 1

IInv == TypeOK /\ JoinChain

(* A pipe stays a sequence of its items when one is appended or the front *)
(* is taken.                                                               *)
LEMMA PipeOps ==
    ASSUME NEW S, NEW p \in Seq(S)
    PROVE  /\ \A e \in S : Append(p, e) \in Seq(S)
           /\ p # <<>> => Head(p) \in S /\ Tail(p) \in Seq(S)
BY AppendProperties, HeadTailProperties

(* The request the client is after is one of the keys.                     *)
LEMMA RequestIsKey ==
    ASSUME NEW i \in 1..Len(Requests)
    PROVE  Requests[i] \in Keys
BY ElementOfSeq

-----------------------------------------------------------------------------
LEMMA InitIInv == Init => IInv
<1> SUFFICES ASSUME Init PROVE IInv
  OBVIOUS
<1>1. Len(Requests) \in Nat /\ (Requests = <<>> <=> Len(Requests) = 0)
  BY LenProperties, EmptySeq
<1>2. <<>> \in Seq(Keys) /\ <<>> \in Seq({0})
  BY EmptySeq
<1>3. TypeOK
  <2>1. cpc \in {"Hint", "Done"} /\ ci \in 1..(Len(Requests) + 1)
    BY <1>1 DEF Init
  <2>2. kv \subseteq Keys /\ online \in BOOLEAN /\ hostCopies \in BOOLEAN
    BY DEF Init
  <2>. QED  BY <1>2, <2>1, <2>2 DEF Init, TypeOK, Finished
<1>4. cpc = "Done" <=> ci = Len(Requests) + 1
  <2>1. CASE Requests = <<>>
    BY <1>1, <2>1 DEF Init
  <2>2. CASE Requests # <<>>
    BY <1>1, <2>2 DEF Init
  <2>. QED  BY <2>1, <2>2
<1>5. exitCode \notin {0, 1} /\ host # "Ok" /\ program = "Off" /\ child = "Off"
  BY DEF Init
<1>. QED  BY <1>3, <1>4, <1>5 DEF Init, IInv, JoinChain

LEMMA NextTypeOK == TypeOK /\ JoinChain /\ [Next]_vars => TypeOK'
<1> SUFFICES ASSUME TypeOK, JoinChain, [Next]_vars PROVE TypeOK'
  OBVIOUS
<1>. USE DEF TypeOK, clientVars, pipeVars
<1>0. Len(Requests) \in Nat
  BY LenProperties
<1>1. CASE HostNext
  <2>1. CASE HostSpawns
    BY <2>1 DEF HostSpawns, Finished
  <2>2. CASE HostSetupFails
    BY <2>2 DEF HostSetupFails, Finished
  <2>3. CASE HostJoinErr
    BY <2>3 DEF HostJoinErr, Finished
  <2>4. CASE HostJoinOk
    BY <2>4 DEF HostJoinOk, Finished
  <2>. QED  BY <1>1, <2>1, <2>2, <2>3, <2>4 DEF HostNext
<1>2. CASE ProgramNext
  <2>1. CASE ProgramSpawnsChild
    BY <2>1 DEF ProgramSpawnsChild, Finished
  <2>2. CASE ProgramSpawnFails
    BY <2>2 DEF ProgramSpawnFails, Finished
  <2>3. CASE ProgramExits
    BY <2>3 DEF ProgramExits, Finished
  <2>. QED  BY <1>2, <2>1, <2>2, <2>3 DEF ProgramNext
<1>3. CASE ServeHint
  BY <1>3, PipeOps DEF ServeHint
<1>4. CASE ServeHintFails
  BY <1>4, PipeOps DEF ServeHintFails, Finished
<1>5. CASE ServePreimage
  BY <1>5, PipeOps DEF ServePreimage
<1>6. CASE ServePreimageMissing
  BY <1>6, PipeOps DEF ServePreimageMissing, Finished
<1>7. CASE ServerExits
  BY <1>7 DEF ServerExits, Finished
<1>8. CASE ClientWriteHint
  <2>1. ci \in 1..Len(Requests)
    <3>1. cpc # "Done" /\ ci \in 1..(Len(Requests) + 1)
      BY <1>8 DEF ClientWriteHint
    <3>. QED  BY <1>0, <3>1 DEF JoinChain
  <2>. QED  BY <1>8, <2>1, RequestIsKey, PipeOps DEF ClientWriteHint
<1>9. CASE ClientReadAck
  BY <1>9, PipeOps DEF ClientReadAck
<1>10. CASE ClientWriteKey
  <2>1. ci \in 1..Len(Requests)
    <3>1. cpc # "Done" /\ ci \in 1..(Len(Requests) + 1)
      BY <1>10 DEF ClientWriteKey
    <3>. QED  BY <1>0, <3>1 DEF JoinChain
  <2>. QED  BY <1>10, <2>1, RequestIsKey, PipeOps DEF ClientWriteKey
<1>11. CASE ClientReadPreimage
  <2>1. ci \in 1..Len(Requests)
    BY <1>0, <1>11 DEF ClientReadPreimage, JoinChain
  <2>. QED  BY <1>0, <1>11, <2>1, PipeOps DEF ClientReadPreimage
<1>12. CASE ClientExits
  BY <1>12 DEF ClientExits
<1>13. CASE ClientSeesEof
  BY <1>13 DEF ClientSeesEof
<1>14. CASE UNCHANGED vars
  BY <1>14 DEF vars
<1>. QED
  BY <1>1, <1>2, <1>3, <1>4, <1>5, <1>6, <1>7, <1>8, <1>9, <1>10, <1>11,
     <1>12, <1>13, <1>14 DEF Next, ServerNext, ClientNext

LEMMA NextJoinChain == TypeOK /\ JoinChain /\ [Next]_vars => JoinChain'
<1> SUFFICES ASSUME TypeOK, JoinChain, [Next]_vars PROVE JoinChain'
  OBVIOUS
<1>. USE DEF JoinChain, clientVars, pipeVars
<1>0. Len(Requests) \in Nat
  BY LenProperties
<1>1. CASE HostNext
  <2>1. CASE HostSpawns
    BY <2>1 DEF HostSpawns
  <2>2. CASE HostSetupFails \/ HostJoinErr
    BY <2>2 DEF HostSetupFails, HostJoinErr
  <2>3. CASE HostJoinOk
    BY <2>3 DEF HostJoinOk
  <2>. QED  BY <1>1, <2>1, <2>2, <2>3 DEF HostNext
<1>2. CASE ProgramNext
  <2>1. CASE ProgramSpawnsChild
    BY <2>1 DEF ProgramSpawnsChild
  <2>2. CASE ProgramSpawnFails
    BY <2>2 DEF ProgramSpawnFails
  <2>3. CASE ProgramExits
    BY <2>3 DEF ProgramExits
  <2>. QED  BY <1>2, <2>1, <2>2, <2>3 DEF ProgramNext
<1>3. CASE ServerNext
  BY <1>3 DEF ServerNext, ServeHint, ServeHintFails, ServePreimage,
              ServePreimageMissing, ServerExits
<1>4. CASE ClientWriteHint \/ ClientReadAck \/ ClientWriteKey
  BY <1>4 DEF ClientWriteHint, ClientReadAck, ClientWriteKey
<1>5. CASE ClientReadPreimage
  <2>1. ci \in 1..Len(Requests) /\ child = "Running" /\ exitCode = None
    BY <1>0, <1>5 DEF ClientReadPreimage, TypeOK
  <2>. QED  BY <1>0, <1>5, <2>1 DEF ClientReadPreimage, TypeOK
<1>6. CASE ClientExits
  BY <1>6 DEF ClientExits
<1>7. CASE ClientSeesEof
  BY <1>7 DEF ClientSeesEof
<1>8. CASE UNCHANGED vars
  BY <1>8 DEF vars
<1>. QED  BY <1>1, <1>2, <1>3, <1>4, <1>5, <1>6, <1>7, <1>8 DEF Next, ClientNext

(* Every state of the host, its tasks, the pipes and the client is well   *)
(* typed: in particular a pipe only ever carries keys (or acks), and the   *)
(* client never indexes Requests out of range.                              *)
THEOREM TypeCorrect == Spec => []TypeOK
<1>1. IInv /\ [Next]_vars => IInv'
  BY NextTypeOK, NextJoinChain DEF IInv
<1>. QED  BY <1>1, InitIInv, PTL DEF Spec, IInv

(* try_join! and the status check of lines 149-161: whatever the server,  *)
(* the fetcher and the client do, the host returns Ok only after the      *)
(* client program was answered every request and exited 0.                 *)
THEOREM HostOkOnlyIfClaimValidatedHolds == Spec => []HostOkOnlyIfClaimValidated
<1>1. IInv /\ [Next]_vars => IInv'
  BY NextTypeOK, NextJoinChain DEF IInv
<1>2. IInv => HostOkOnlyIfClaimValidated
  BY DEF IInv, JoinChain, HostOkOnlyIfClaimValidated
<1>. QED  BY <1>1, <1>2, InitIInv, PTL DEF Spec

=============================================================================
