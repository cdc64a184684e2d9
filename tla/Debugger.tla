------------------------------ MODULE Debugger ------------------------------
(***************************************************************************)
(* CXXRTLDebugger (debugger.ts): the life of debug sessions, from the      *)
(* launch of a simulation process to the end of its socket, with the start *)
(* and stop commands (extension.ts:17-28) and the sidebar that follows the *)
(* session (sidebar.ts:279-292).                                           *)
(*                                                                         *)
(* Start attempts are numbered; attempt n has terminal n, socket n and     *)
(* session n, and 0 stands for null.  VS Code offers commands by a copy of *)
(* the session status that follows the status after a delay.               *)
(***************************************************************************)
EXTENDS Integers

CONSTANTS
    MaxAttempts  \* bound: calls of startSession() that get past its guard

ASSUME DebuggerAssumption == MaxAttempts \in Nat

Attempts == 1..MaxAttempts

VARIABLES
    terminal,          \* CXXRTLDebugger.terminal
    session,           \* CXXRTLDebugger.session
    sessionStatus,     \* CXXRTLDebugger._sessionStatus
    simulationStatus,  \* CXXRTLDebugger._simulationStatus
    attempts,          \* attempts made so far
    phase,             \* how far each attempt got; then the state of its socket
    process,           \* simulation processes that are alive
    offered,           \* the context value rtlDebugger.sessionStatus in VS Code
    sidebar,           \* TreeDataProvider: session, observer and scope item
    statusBar          \* StatusBarItem: the session and the status it shows

vars == <<terminal, session, sessionStatus, simulationStatus, attempts, phase,
          process, offered, sidebar, statusBar>>

(* "launching": awaits processId; "waiting": the 500 ms timer runs;        *)
(* "connecting", "connected": the socket; "erred": 'error' was emitted;    *)
(* "destroyed": by dispose(); "closed": 'close' was emitted.  'close'      *)
(* follows 'error' and destroy() in the same turn of the event loop.       *)
Phases == {"none", "launching", "waiting", "connecting", "connected",
           "erred", "destroyed", "closed"}

EmptySidebar == [session |-> 0, observer |-> 0, scopes |-> 0]

Init ==
    /\ terminal = 0
    /\ session = 0
    /\ sessionStatus = "absent"
    /\ simulationStatus = "finished"
    /\ attempts = 0
    /\ phase = [n \in Attempts |-> "none"]
    /\ process = {}
    /\ offered = "absent"
    /\ sidebar = EmptySidebar
    /\ statusBar = [session |-> 0, status |-> "finished"]

(* StatusBarItem.update(); without a session it is hidden.                 *)
UpdateStatusBar(n, status) == statusBar' = [session |-> n, status |-> status]

(* No 'close' event is due in this turn of the event loop.                 *)
TurnOver == \A n \in Attempts : phase[n] \notin {"erred", "destroyed"}

-----------------------------------------------------------------------------
(* startSession(), up to its await.                                        *)
StartSession ==
    /\ TurnOver
    /\ offered = "absent"
    /\ terminal = 0
    /\ attempts < MaxAttempts
    /\ attempts' = attempts + 1
    /\ terminal' = attempts + 1
    /\ process' = process \cup {attempts + 1}
    /\ phase' = [phase EXCEPT ![attempts + 1] = "launching"]
    /\ sessionStatus' = "starting"
    /\ UNCHANGED <<session, simulationStatus, offered, sidebar, statusBar>>

(* Mutant: without a process, startSession() returns early.                *)
LaunchedIfAlive(n) ==
    /\ TurnOver
    /\ phase[n] = "launching"
    /\ n \in process
    /\ phase' = [phase EXCEPT ![n] = "waiting"]
    /\ UNCHANGED <<terminal, session, sessionStatus, simulationStatus, attempts,
                   process, offered, sidebar, statusBar>>

Launched(n) ==
    /\ TurnOver
    /\ phase[n] = "launching"
    /\ phase' = [phase EXCEPT ![n] = "waiting"]
    /\ UNCHANGED <<terminal, session, sessionStatus, simulationStatus, attempts,
                   process, offered, sidebar, statusBar>>

CreateConnection(n) ==
    /\ TurnOver
    /\ phase[n] = "waiting"
    /\ phase' = [phase EXCEPT ![n] = "connecting"]
    /\ UNCHANGED <<terminal, session, sessionStatus, simulationStatus, attempts,
                   process, offered, sidebar, statusBar>>

(* Mutant: the phase of the socket is stored as the status.                *)
OnConnectWrongStatus(n) ==
    /\ TurnOver
    /\ phase[n] = "connecting"
    /\ n \in process
    /\ phase' = [phase EXCEPT ![n] = "connected"]
    /\ session' = n
    /\ sessionStatus' = "connected"
    /\ sidebar' = [sidebar EXCEPT !.session = n, !.observer = n]
    /\ simulationStatus' = "paused"
    /\ UpdateStatusBar(n, "paused")
    /\ UNCHANGED <<terminal, attempts, process, offered>>

(* The connection listener.  The views follow: the sidebar's handler sets  *)
(* the observer and the watch item and awaits the root scope.              *)
OnConnect(n) ==
    /\ TurnOver
    /\ phase[n] = "connecting"
    /\ n \in process
    /\ phase' = [phase EXCEPT ![n] = "connected"]
    /\ session' = n
    /\ sessionStatus' = "running"
    /\ sidebar' = [sidebar EXCEPT !.session = n, !.observer = n]
    /\ simulationStatus' = "paused"
    /\ UpdateStatusBar(n, "paused")
    /\ UNCHANGED <<terminal, attempts, process, offered>>

(* stopSession() tells that there is no session, and disposes of the       *)
(* terminal and of the session; `sockets' are the phases the event it      *)
(* serves left.                                                            *)
(* Mutant: nobody is told.                                                 *)
FireNullUntold == UNCHANGED <<sidebar, statusBar>>

FireNull == sidebar' = EmptySidebar /\ UpdateStatusBar(0, "finished")

(* Mutant: the terminal stays.                                             *)
DisposeTerminalKept == process' = process \ {terminal} /\ UNCHANGED terminal

DisposeTerminal == process' = process \ {terminal} /\ terminal' = 0

(* Mutant: the socket stays.                                               *)
DisposeSessionKept(sockets) == phase' = sockets /\ session' = 0

DisposeSession(sockets) ==
    /\ phase' = [n \in Attempts |->
            IF n = session /\ sockets[n] = "connected" THEN "destroyed" ELSE sockets[n]]
    /\ session' = 0

StopSession(sockets) ==
    /\ FireNull
    /\ DisposeTerminal
    /\ DisposeSession(sockets)
    /\ sessionStatus' = "absent"
    /\ simulationStatus' = "finished"
    /\ UNCHANGED <<attempts, offered>>

StopCommand ==
    /\ TurnOver
    /\ offered = "running"
    /\ StopSession(phase)

(* The connection is refused, or fails later.                              *)
OnError(n) ==
    /\ TurnOver
    /\ phase[n] \in {"connecting", "connected"}
    /\ StopSession([phase EXCEPT ![n] = "erred"])

(* Closed by the server, or after an error or dispose().                   *)
OnClose(n) ==
    /\ phase[n] \in {"erred", "destroyed"} \/ (TurnOver /\ phase[n] = "connected")
    /\ StopSession([phase EXCEPT ![n] = "closed"])

-----------------------------------------------------------------------------
(* The session reports a change of the simulation's status.                *)
OnSimulationStatus(n, status) ==
    /\ TurnOver
    /\ phase[n] = "connected"
    /\ status # simulationStatus
    /\ simulationStatus' = status
    /\ UpdateStatusBar(n, status)
    /\ UNCHANGED <<terminal, session, sessionStatus, attempts, phase, process,
                   offered, sidebar>>

(* The sidebar's getRootScope() is answered.                               *)
OnRootScope(n) ==
    /\ TurnOver
    /\ phase[n] = "connected"
    /\ sidebar.scopes # n
    /\ sidebar' = [sidebar EXCEPT !.scopes = n]
    /\ UNCHANGED <<terminal, session, sessionStatus, simulationStatus, attempts,
                   phase, process, offered, statusBar>>

-----------------------------------------------------------------------------
(* VS Code: the context value is brought up to date.                       *)
SetContext ==
    /\ offered # sessionStatus
    /\ offered' = sessionStatus
    /\ UNCHANGED <<terminal, session, sessionStatus, simulationStatus, attempts,
                   phase, process, sidebar, statusBar>>

(* The simulation process ends by itself.                                  *)
Exit(n) ==
    /\ n \in process
    /\ process' = process \ {n}
    /\ UNCHANGED <<terminal, session, sessionStatus, simulationStatus, attempts,
                   phase, offered, sidebar, statusBar>>

-----------------------------------------------------------------------------
Socket(n) == OnConnect(n) \/ OnError(n) \/ OnClose(n)

Next ==
    \/ StartSession
    \/ StopCommand
    \/ SetContext
    \/ \E n \in Attempts :
         \/ Launched(n)
         \/ CreateConnection(n)
         \/ Socket(n)
         \/ OnRootScope(n)
         \/ Exit(n)
         \/ \E status \in {"running", "paused", "finished"} : OnSimulationStatus(n, status)

Spec == Init /\ [][Next]_vars

(* Awaits and timers end, a connection attempt succeeds or fails, and the  *)
(* socket of a process that is gone is closed.                             *)
Fairness ==
    \A n \in Attempts :
        /\ WF_vars(Launched(n))
        /\ WF_vars(CreateConnection(n))
        /\ WF_vars(Socket(n) /\ phase[n] \in {"connecting", "erred", "destroyed"})
        /\ WF_vars(Socket(n) /\ n \notin process)

FairSpec == Spec /\ Fairness

-----------------------------------------------------------------------------
TypeOK ==
    /\ terminal \in 0..MaxAttempts
    /\ session \in 0..MaxAttempts
    /\ sessionStatus \in {"absent", "starting", "running"}
    /\ simulationStatus \in {"running", "paused", "finished"}
    /\ attempts \in 0..MaxAttempts
    /\ phase \in [Attempts -> Phases]
    /\ process \subseteq Attempts
    /\ offered \in {"absent", "starting", "running"}
    /\ sidebar \in [session : 0..MaxAttempts, observer : 0..MaxAttempts, scopes : 0..MaxAttempts]
    /\ statusBar \in [session : 0..MaxAttempts, status : {"running", "paused", "finished"}]

(* The status the commands are offered by tells what is really there: a    *)
(* session, with its socket and its terminal, exactly while it says        *)
(* "running", and nothing at all when it says "absent"                     *)
(* (debugger.ts:71, 81-89, 119-130).                                       *)
StatusAgrees ==
    /\ sessionStatus = "running" <=> session # 0
    /\ sessionStatus = "absent" <=> terminal = 0
    /\ session # 0 => session = terminal /\ phase[session] = "connected"
    /\ session = 0 => simulationStatus = "finished"

Live(n) == phase[n] \notin {"none", "closed"}

(* Events of an earlier attempt never stop, replace or report on a later   *)
(* one, although the callbacks act on whatever session is there            *)
(* (debugger.ts:81, 83, 101, 107): only the latest attempt can still have  *)
(* events to come.                                                         *)
OneAttempt == \A n \in Attempts : Live(n) => n = attempts

(* What the views show belongs to the current session, although the        *)
(* sidebar awaits the root scope (sidebar.ts:284) and the status bar       *)
(* listens to every session there was (status.ts:12-18).                   *)
ViewsFollow ==
    /\ sidebar.observer = session /\ sidebar.scopes \in {0, session}
    /\ statusBar = [session |-> session, status |-> simulationStatus]

(* "The debug session is initializing..." (package.json:194) does not last *)
(* for ever.                                                               *)
StartResolves == (sessionStatus = "starting") ~> (sessionStatus # "starting")
=============================================================================
