----------------------------- MODULE HostChannel -----------------------------
(***************************************************************************)
(* The native host, src/bin/host/src/lib.rs, start_server_and_native_client *)
(* and the two tasks it joins, with the client program at the far end of  *)
(* the hint and preimage pipes.                                            *)
(*                                                                         *)
(* The host creates the pipes and the fetcher, spawns the preimage server *)
(* task and the client-program task, and waits for both with try_join!:   *)
(* the first Err returned by either task is the host's result, Ok needs   *)
(* both.  The program task spawns the client as a child process whose fds *)
(* 3-6 are the client ends of the pipes; the parent's copies of those     *)
(* ends belong to the Command and are closed when the task returns.       *)
(*                                                                         *)
(* The server (PreimageServer) and the client's side of the channel are   *)
(* not under src/ and are modelled from spec 4.1, 4.2 and 5: for each key *)
(* it needs, the client writes a hint and waits for the one-byte ack,     *)
(* then writes the key and waits for the preimage; the server's hint      *)
(* router fetches what a hint names into the key-value store (a failed    *)
(* fetch, or a panic, ends the server with an error) and its oracle       *)
(* server answers a key from the store (a key it does not have is an      *)
(* error); each loop ends when its request pipe is drained and every      *)
(* write end of it is closed.  A reader whose writer is gone sees EOF;    *)
(* for the client that is fatal (spec 4.1).                               *)
(***************************************************************************)
EXTENDS Naturals, Sequences

CONSTANTS
    Keys,          \* preimage keys (model values); a hint names the key it announces
    Requests,      \* the keys the client program asks for, in order
    None

ASSUME HostAssumption ==
    /\ Requests \in Seq(Keys)
    /\ None \notin {0, 1, 2}

Finished == {"Ok", "Err"}

VARIABLES
    host,        \* start_server_and_native_client: "Setup", "Joining", "Ok" or "Err"
    server,      \* the server task: "Off", "Running", "Ok" or "Err"
    program,     \* the program task: "Off", "Spawning", "Waiting", "Ok" or "Err"
    child,       \* the client process: "Off", "Running" or "Exited"
    exitCode,    \* its exit status: None, 0 (claim holds), 1 (claim fails), 2 (error)
    cpc,         \* where the client is: "Hint", "AwaitAck", "Request", "AwaitPreimage", "Done"
    ci,          \* index in Requests of the key the client is after
    hintPipe,    \* hints written and not yet read by the server
    ackPipe,     \* acks written and not yet read by the client
    keyPipe,     \* keys written and not yet read by the server
    preimagePipe,\* preimages written and not yet read by the client
    kv,          \* the keys the key-value store holds (a disk store may hold any)
    online,      \* construct_fetcher returned a fetcher (the host is not offline)
    hostCopies   \* the Command still holds the parent's copies of the client ends

vars == <<host, server, program, child, exitCode, cpc, ci, hintPipe, ackPipe,
          keyPipe, preimagePipe, kv, online, hostCopies>>
clientVars == <<cpc, ci>>
pipeVars == <<hintPipe, ackPipe, keyPipe, preimagePipe>>

Init ==
    /\ host = "Setup"
    /\ server = "Off"
    /\ program = "Off"
    /\ child = "Off"
    /\ exitCode = None
    /\ cpc = IF Requests = <<>> THEN "Done" ELSE "Hint"
    /\ ci = 1
    /\ hintPipe = <<>> /\ ackPipe = <<>> /\ keyPipe = <<>> /\ preimagePipe = <<>>
    /\ kv \in SUBSET Keys
    /\ online \in BOOLEAN
    /\ hostCopies = FALSE

-----------------------------------------------------------------------------
(* The host task.                                                          *)

(* Lines 61-70: the pipes and the fetcher are created and both tasks are   *)
(* spawned; the program task holds the client ends of the pipes.           *)
HostSpawns ==
    /\ host = "Setup"
    /\ host' = "Joining"
    /\ server' = "Running"
    /\ program' = "Spawning"
    /\ hostCopies' = TRUE
    /\ UNCHANGED <<child, exitCode, clientVars, pipeVars, kv, online>>

(* Lines 61-63: create_native_pipes or construct_fetcher fails; ? returns *)
(* the error before anything is spawned.                                   *)
HostSetupFails ==
    /\ host = "Setup"
    /\ host' = "Err"
    /\ UNCHANGED <<server, program, child, exitCode, clientVars, pipeVars, kv, online, hostCopies>>

(* Lines 74-78: try_join! resolves to the first Err of either task.        *)
HostJoinErr ==
    /\ host = "Joining"
    /\ "Err" \in {server, program}
    /\ host' = "Err"
    /\ UNCHANGED <<server, program, child, exitCode, clientVars, pipeVars, kv, online, hostCopies>>

(* Lines 74-81: both tasks returned Ok.                                    *)
HostJoinOk ==
    /\ host = "Joining"
    /\ server = "Ok" /\ program = "Ok"
    /\ host' = "Ok"
    /\ UNCHANGED <<server, program, child, exitCode, clientVars, pipeVars, kv, online, hostCopies>>

-----------------------------------------------------------------------------
(* The program task, start_native_client_program.                          *)

(* Lines 134-147 and 149-150: the binary path is set and the child is      *)
(* started with the client ends as fds 3-6.                                *)
ProgramSpawnsChild ==
    /\ program = "Spawning"
    /\ program' = "Waiting"
    /\ child' = "Running"
    /\ UNCHANGED <<host, server, exitCode, clientVars, pipeVars, kv, online, hostCopies>>

(* Lines 134-136 and 149-155: no client binary is configured, or it cannot *)
(* be started; the task returns Err and drops the client ends.             *)
ProgramSpawnFails ==
    /\ program = "Spawning"
    /\ program' = "Err"
    /\ hostCopies' = FALSE
    /\ UNCHANGED <<host, server, child, exitCode, clientVars, pipeVars, kv, online>>

(* Fault variant of ProgramExits: the exit status is not looked at.        *)
ProgramExitsIgnoringStatus ==
    /\ program = "Waiting"
    /\ child = "Exited"
    /\ program' = "Ok"
    /\ hostCopies' = FALSE
    /\ UNCHANGED <<host, server, child, exitCode, clientVars, pipeVars, kv, online>>

(* Fault variant of ProgramExits: the parent keeps its copies of the       *)
(* client ends open after the child has exited.                            *)
ProgramExitsKeepingEnds ==
    /\ program = "Waiting"
    /\ child = "Exited"
    /\ program' = IF exitCode = 0 THEN "Ok" ELSE "Err"
    /\ UNCHANGED <<host, server, child, exitCode, clientVars, pipeVars, kv, online, hostCopies>>

(* Lines 149-164: status() returns once the child has exited; a non-zero  *)
(* status is an Err; returning drops the Command and with it the parent's *)
(* copies of the client ends.                                              *)
ProgramExits ==
    /\ program = "Waiting"
    /\ child = "Exited"
    /\ program' = IF exitCode = 0 THEN "Ok" ELSE "Err"
    /\ hostCopies' = FALSE
    /\ UNCHANGED <<host, server, child, exitCode, clientVars, pipeVars, kv, online>>

-----------------------------------------------------------------------------
(* The server task, start_native_preimage_server, running PreimageServer.  *)

(* The server's pipe ends are closed once its task has returned.           *)
ServerGone == server \in Finished

(* A write end of a request pipe is open in the client or in the host.     *)
ClientEndsOpen == child = "Running" \/ hostCopies

(* Fault variant of ServeHint: the ack echoes the hint instead of being   *)
(* the single zero byte of spec 4.1.                                       *)
ServeHintEchoes ==
    /\ server = "Running"
    /\ hintPipe # <<>>
    /\ hintPipe' = Tail(hintPipe)
    /\ kv' = IF online THEN kv \cup {Head(hintPipe)} ELSE kv
    /\ ackPipe' = Append(ackPipe, Head(hintPipe))
    /\ UNCHANGED online
    /\ UNCHANGED <<host, server, program, child, exitCode, clientVars, keyPipe,
                   preimagePipe, hostCopies>>

(* The hint router reads a hint; with a fetcher, the preimage it names is  *)
(* fetched into the store; then the ack is written.                        *)
ServeHint ==
    /\ server = "Running"
    /\ hintPipe # <<>>
    /\ hintPipe' = Tail(hintPipe)
    /\ kv' = IF online THEN kv \cup {Head(hintPipe)} ELSE kv
    /\ ackPipe' = Append(ackPipe, 0)
    /\ UNCHANGED online
    /\ UNCHANGED <<host, server, program, child, exitCode, clientVars, keyPipe,
                   preimagePipe, hostCopies>>

(* Lines 100-110: routing the hint fails (the fetch, with a fetcher, or   *)
(* the ack write) or the server panics, online or not; catch_unwind turns *)
(* the panic into an Err like the error, and the task returns it.          *)
ServeHintFails ==
    /\ server = "Running"
    /\ hintPipe # <<>>
    /\ server' = "Err"
    /\ hintPipe' = Tail(hintPipe)
    /\ UNCHANGED <<host, program, child, exitCode, clientVars, ackPipe, keyPipe,
                   preimagePipe, kv, online, hostCopies>>

(* The oracle server answers a key it holds.                               *)
ServePreimage ==
    /\ server = "Running"
    /\ keyPipe # <<>>
    /\ Head(keyPipe) \in kv
    /\ keyPipe' = Tail(keyPipe)
    /\ preimagePipe' = Append(preimagePipe, Head(keyPipe))
    /\ UNCHANGED <<host, server, program, child, exitCode, clientVars, hintPipe,
                   ackPipe, kv, online, hostCopies>>

(* Lines 107-110: a key the store lacks is an error of server.start().     *)
ServePreimageMissing ==
    /\ server = "Running"
    /\ keyPipe # <<>>
    /\ Head(keyPipe) \notin kv
    /\ server' = "Err"
    /\ keyPipe' = Tail(keyPipe)
    /\ UNCHANGED <<host, program, child, exitCode, clientVars, hintPipe, ackPipe,
                   preimagePipe, kv, online, hostCopies>>

(* Lines 99-113: both loops see EOF, server.start() returns Ok.            *)
ServerExits ==
    /\ server = "Running"
    /\ hintPipe = <<>> /\ keyPipe = <<>>
    /\ ~ClientEndsOpen
    /\ server' = "Ok"
    /\ UNCHANGED <<host, program, child, exitCode, clientVars, pipeVars, kv, online, hostCopies>>

-----------------------------------------------------------------------------
(* The client program at the other end (spec 4.1, 4.2).                    *)

ClientWriteHint ==
    /\ child = "Running" /\ cpc = "Hint" /\ ~ServerGone
    /\ hintPipe' = Append(hintPipe, Requests[ci])
    /\ cpc' = "AwaitAck"
    /\ UNCHANGED <<host, server, program, child, exitCode, ci, ackPipe, keyPipe,
                   preimagePipe, kv, online, hostCopies>>

ClientReadAck ==
    /\ child = "Running" /\ cpc = "AwaitAck" /\ ackPipe # <<>>
    /\ ackPipe' = Tail(ackPipe)
    /\ cpc' = "Request"
    /\ UNCHANGED <<host, server, program, child, exitCode, ci, hintPipe, keyPipe,
                   preimagePipe, kv, online, hostCopies>>

ClientWriteKey ==
    /\ child = "Running" /\ cpc = "Request" /\ ~ServerGone
    /\ keyPipe' = Append(keyPipe, Requests[ci])
    /\ cpc' = "AwaitPreimage"
    /\ UNCHANGED <<host, server, program, child, exitCode, ci, hintPipe, ackPipe,
                   preimagePipe, kv, online, hostCopies>>

ClientReadPreimage ==
    /\ child = "Running" /\ cpc = "AwaitPreimage" /\ preimagePipe # <<>>
    /\ preimagePipe' = Tail(preimagePipe)
    /\ ci' = ci + 1
    /\ cpc' = IF ci = Len(Requests) THEN "Done" ELSE "Hint"
    /\ UNCHANGED <<host, server, program, child, exitCode, hintPipe, ackPipe,
                   keyPipe, kv, online, hostCopies>>

(* The epilogue: exit 0 if the claim is validated, 1 if not.               *)
ClientExits ==
    /\ child = "Running" /\ cpc = "Done"
    /\ child' = "Exited"
    /\ exitCode' \in {0, 1}
    /\ UNCHANGED <<host, server, program, clientVars, pipeVars, kv, online, hostCopies>>

(* EOF or a broken pipe on the channel: the client aborts with an error.   *)
ClientSeesEof ==
    /\ child = "Running" /\ ServerGone
    /\ \/ cpc \in {"Hint", "Request"}
       \/ cpc = "AwaitAck" /\ ackPipe = <<>>
       \/ cpc = "AwaitPreimage" /\ preimagePipe = <<>>
    /\ child' = "Exited"
    /\ exitCode' = 2
    /\ UNCHANGED <<host, server, program, clientVars, pipeVars, kv, online, hostCopies>>

-----------------------------------------------------------------------------
HostNext == HostSpawns \/ HostSetupFails \/ HostJoinErr \/ HostJoinOk
ProgramNext == ProgramSpawnsChild \/ ProgramSpawnFails \/ ProgramExits
ServerNext == ServeHint \/ ServeHintFails \/ ServePreimage \/ ServePreimageMissing
              \/ ServerExits
ClientNext == ClientWriteHint \/ ClientReadAck \/ ClientWriteKey \/ ClientReadPreimage
              \/ ClientExits \/ ClientSeesEof

Next == HostNext \/ ProgramNext \/ ServerNext \/ ClientNext

(* The tokio runtime polls every spawned task that can make progress, and *)
(* the client is an OS process: each of the four is weakly fair.           *)
Fairness ==
    /\ WF_vars(HostNext)
    /\ WF_vars(ProgramNext)
    /\ WF_vars(ServerNext)
    /\ WF_vars(ClientNext)

Spec == Init /\ [][Next]_vars /\ Fairness

-----------------------------------------------------------------------------
(***************************************************************************)
(* Properties.                                                             *)
(***************************************************************************)

TypeOK ==
    /\ host \in {"Setup", "Joining"} \cup Finished
    /\ server \in {"Off", "Running"} \cup Finished
    /\ program \in {"Off", "Spawning", "Waiting"} \cup Finished
    /\ child \in {"Off", "Running", "Exited"}
    /\ exitCode \in {None, 0, 1, 2}
    /\ cpc \in {"Hint", "AwaitAck", "Request", "AwaitPreimage", "Done"}
    /\ ci \in 1..(Len(Requests) + 1)
    /\ hintPipe \in Seq(Keys) /\ keyPipe \in Seq(Keys) /\ preimagePipe \in Seq(Keys)
    /\ ackPipe \in Seq({0})
    /\ kv \subseteq Keys
    /\ online \in BOOLEAN
    /\ hostCopies \in BOOLEAN

(* The host reports success only for a run in which the client program    *)
(* got every preimage it asked for and exited 0: try_join! over both      *)
(* tasks and the status check of lines 149-161.                            *)
HostOkOnlyIfClaimValidated ==
    host = "Ok" => /\ child = "Exited" /\ exitCode = 0
                   /\ ci = Len(Requests) + 1

(* Spec 5: a failure of the server is turned into a fatal error rather    *)
(* than ending the host in the middle of the client's run, so the host    *)
(* returns only once the client program is no longer running.             *)
HostOutlivesClient == host \in Finished => child # "Running"

(* Whatever fails (setup, spawn, fetch, a missing preimage, the claim),    *)
(* the host returns and neither the server nor the client is left blocked *)
(* on a pipe: the host closes its copies of the client ends when the      *)
(* program task returns, so the server sees EOF.                           *)
EverythingTerminates ==
    <>(/\ host \in Finished
       /\ child # "Running"
       /\ server # "Running"
       /\ program \notin {"Spawning", "Waiting"})

=============================================================================
