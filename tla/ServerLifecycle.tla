--------------------------- MODULE ServerLifecycle ---------------------------
(***************************************************************************)
(* When the Visual Studio client has a server: the commands and editors    *)
(* that ask for one (clients/vs/AnalysisPackage.cs), the semaphore they    *)
(* queue at (AnalysisLanguageClient.cs) and the process or debug           *)
(* connection they start and stop (ServerProcess.cs).                      *)
(*                                                                         *)
(* A request runs on the UI thread up to its wait for the semaphore, and   *)
(* from there to its next await.  What Visual Studio does between the      *)
(* StartAsync or StopAsync event and its return is external: starting      *)
(* ends with ActivateAsync, which succeeds or fails.  TCP and WebSocket    *)
(* are one "debug" transport.  The end of Visual Studio itself is left     *)
(* out: the process dies with its standard input.                          *)
(***************************************************************************)
EXTENDS Naturals, Sequences

CONSTANTS Requests,         \* the requests, numbered as they are made
          StopDuringRestart \* a stop may be asked for while a restart is under way

VARIABLES manuallyStopped,
          transport,  \* transportPort and webSocketTransport
          request,    \* what each request is for, and how far it is
          gate,       \* the semaphore: its holder first, then who waits
          loaded,
          link        \* server, tcp and webSocket: what is there to talk to

lifecycleVars == <<manuallyStopped, transport, request, gate, loaded, link>>

Transports == {"stdio", "debug"}
Unmade == [kind |-> "none", step |-> "none", transport |-> "stdio"]

LifecycleInit ==
    /\ manuallyStopped = FALSE
    /\ transport = "stdio"
    /\ request = [r \in Requests |-> Unmade]
    /\ gate = <<>>
    /\ loaded = FALSE
    /\ link = "none"

Running == link \in {"process", "debug"}
UnderWay == {r \in Requests : request[r].step \notin {"none", "done"}}
Restarting == \E r \in UnderWay : request[r].kind = "restart"

-----------------------------------------------------------------------------
(* Requests                                                                 *)

(* A new request goes as far as the semaphore.                              *)
Make(kind, step, t) ==
    \E r \in Requests :
        /\ request[r] = Unmade /\ \A q \in Requests : q < r => request[q] # Unmade
        /\ request' = [request EXCEPT ![r] = [kind |-> kind, step |-> step, transport |-> t]]
        /\ gate' = Append(gate, r)

(* Mutant of EnsureStarted: an editor starts the server whatever was asked. *)
EnsureStartedAnyway ==
    /\ Make("open", "start", transport)
    /\ UNCHANGED <<manuallyStopped, transport, loaded, link>>

(* A supported file is opened.                                              *)
EnsureStarted ==
    /\ ~manuallyStopped
    /\ Make("open", "start", transport)
    /\ UNCHANGED <<manuallyStopped, transport, loaded, link>>

(* Start language server, Connect to TCP (or WebSocket) debug server.       *)
StartCommand(t) ==
    /\ manuallyStopped' = FALSE
    /\ Make("start", "start", t)
    /\ UNCHANGED <<transport, loaded, link>>

(* A debug port that is no number: the command throws at once.              *)
InvalidPort ==
    /\ manuallyStopped' = FALSE
    /\ UNCHANGED <<transport, request, gate, loaded, link>>

StopCommand ==
    /\ StopDuringRestart \/ ~Restarting
    /\ manuallyStopped' = TRUE
    /\ Make("stop", "stop", transport)
    /\ UNCHANGED <<transport, loaded, link>>

RestartCommand ==
    /\ manuallyStopped' = FALSE
    /\ Make("restart", "stop", transport)
    /\ UNCHANGED <<transport, loaded, link>>

-----------------------------------------------------------------------------
(* The holder of the semaphore                                              *)

Holds(r, step) == gate # <<>> /\ r = Head(gate) /\ request[r].step = step
Moves(r, step) == request' = [request EXCEPT ![r].step = step]
Release == gate' = Tail(gate)

(* RequestStartAsync, when there is a server already.                       *)
AlreadyRunning(r) ==
    /\ Holds(r, "start")
    /\ Running
    /\ Moves(r, "done") /\ Release
    /\ UNCHANGED <<manuallyStopped, transport, loaded, link>>

(* RequestStartAsync: LoadAsync or the StartAsync event, and ActivateAsync. *)
ActivateServer(r) ==
    /\ Holds(r, "start")
    /\ ~Running
    /\ loaded' = TRUE
    /\ link' = IF request[r].transport = "stdio" THEN "process" ELSE "debug"
    /\ Moves(r, IF request[r].kind = "start" THEN "started" ELSE "done") /\ Release
    /\ UNCHANGED <<manuallyStopped, transport>>

(* The executable is missing, or nobody listens: the platform may pass the  *)
(* failure on or report it itself.                                          *)
FailToActivate(r) ==
    /\ Holds(r, "start")
    /\ ~Running
    /\ loaded' = TRUE
    /\ link' = IF request[r].transport = "stdio" THEN "none" ELSE link
    /\ \/ Moves(r, "done")
       \/ request[r].kind = "start" /\ Moves(r, "started")
    /\ Release
    /\ UNCHANGED <<manuallyStopped, transport>>

(* RunCommand goes on once its start is through, outside the semaphore.     *)
RememberTransport(r) ==
    /\ request[r].step = "started"
    /\ transport' = request[r].transport
    /\ Moves(r, "done")
    /\ UNCHANGED <<manuallyStopped, gate, loaded, link>>

(* RequestStopAsync, when there is no server.                               *)
AfterStop(r) == IF request[r].kind = "restart" THEN "stopped" ELSE "done"
NotRunning(r) ==
    /\ Holds(r, "stop")
    /\ ~loaded \/ ~Running
    /\ link' = "none"
    /\ Moves(r, AfterStop(r)) /\ Release
    /\ UNCHANGED <<manuallyStopped, transport, loaded>>

(* RequestStopAsync: the StopAsync event,                                   *)
BeginStop(r) ==
    /\ Holds(r, "stop")
    /\ loaded /\ Running
    /\ Moves(r, "stopping")
    /\ UNCHANGED <<manuallyStopped, transport, gate, loaded, link>>

(* and what is left of the server is disposed of, however long it takes: a  *)
(* stop that fails or times out throws, which is the end of a restart.      *)
EndStop(r) ==
    /\ Holds(r, "stopping")
    /\ link' = "none"
    /\ Moves(r, AfterStop(r)) \/ Moves(r, "done")
    /\ Release
    /\ UNCHANGED <<manuallyStopped, transport, loaded>>

(* Restart's second half, which waits for the semaphore anew.               *)
StartAgain(r) ==
    /\ request[r].step = "stopped"
    /\ request' = [request EXCEPT ![r] = [@ EXCEPT !.step = "start", !.transport = transport]]
    /\ gate' = Append(gate, r)
    /\ UNCHANGED <<manuallyStopped, transport, loaded, link>>

(* OnServerInitializeFailedAsync: the platform gives the server up.         *)
InitializeFails ==
    /\ link # "none"
    /\ link' = "none"
    /\ UNCHANGED <<manuallyStopped, transport, request, gate, loaded>>

(* The process dies of itself.                                              *)
ProcessExits ==
    /\ link = "process"
    /\ link' = "exited"
    /\ UNCHANGED <<manuallyStopped, transport, request, gate, loaded>>

Commands ==
    \/ EnsureStarted \/ InvalidPort \/ StopCommand \/ RestartCommand
    \/ \E t \in Transports : StartCommand(t)

Proceed(r) ==
    \/ AlreadyRunning(r) \/ ActivateServer(r) \/ FailToActivate(r) \/ RememberTransport(r)
    \/ NotRunning(r) \/ BeginStop(r) \/ EndStop(r) \/ StartAgain(r)

LifecycleNext == Commands \/ InitializeFails \/ ProcessExits \/ \E r \in Requests : Proceed(r)

LifecycleSpec == LifecycleInit /\ [][LifecycleNext]_lifecycleVars

-----------------------------------------------------------------------------
(* Correctness                                                              *)

(* "A manual stop keeps analysis stopped when more files open; Start or     *)
(* Restart enables it again" (clients/vs/README.md): once nothing is under  *)
(* way and the last command was a stop, there is no server, whatever        *)
(* editors, starts and restarts were queued around it (manuallyStopped and  *)
(* the order of the semaphore).                                             *)
ManualStopHolds == UnderWay = {} /\ manuallyStopped => ~Running

=============================================================================
