------------------------------- MODULE Session -------------------------------
(***************************************************************************)
(* Session (session.ts:199-342): the simulation status kept by polling,    *)
(* the time cursor and the step commands, over a connection that keeps the *)
(* promise of CommandQueue: commands reach the server in order and their   *)
(* replies, and the server's events, come back in order.  An event that is *)
(* the first packet of its chunk holds the stream for good: its handler    *)
(* waits, with the stream paused, for a reply (link.ts:85-91).             *)
(*                                                                         *)
(* An async function suspended at an await is the command it waits for:    *)
(* `then' names the function that goes on when the reply arrives, and the  *)
(* continuation runs with the reply, up to its next await.                 *)
(***************************************************************************)
EXTENDS Integers, Sequences, FiniteSetsExt

CONSTANTS
    SampleTimes,  \* when the design's state changes, in simulated time
    MaxUi,        \* bound: commands the user issues
    MaxErrors,    \* bound: commands the server answers with an error
    Overlap       \* the user does not wait for a command to complete

ASSUME SessionAssumption ==
    /\ SampleTimes \subseteq Nat
    /\ IsFiniteSet(SampleTimes)
    /\ 0 \in SampleTimes
    /\ SampleTimes # {0}
    /\ MaxUi \in Nat
    /\ MaxErrors \in Nat
    /\ Overlap \in BOOLEAN

MaxTime == Max(SampleTimes)

None == -1  \* a time that is undefined, or null

Times == 0..MaxTime

VARIABLES
    simulationStatus,  \* Session._simulationStatus
    timeout,           \* simulationStatusTimeout holds a timer that has not fired
    lostTimers,        \* timers that have not fired and are recorded no more
    timeCursor,        \* Session._timeCursor
    forwardTimeStep,   \* Session._forwardTimeStep
    requests,          \* commands on their way to the server
    inbox,             \* replies and events on their way to the session
    held,              \* the stream is paused until the reply to the query of
                       \* an event is received, which is never
    server,            \* the simulation
    ui,                \* commands the user has issued
    errors,            \* commands the server has answered with an error
    thrown             \* history: exceptions thrown by continuations

sessionVars == <<simulationStatus, timeout, lostTimers, timeCursor, forwardTimeStep>>
vars == <<sessionVars, requests, inbox, held, server, ui, errors, thrown>>

Statuses == {"running", "paused", "finished"}

Names == {"get_simulation_status", "run_simulation", "pause_simulation", "query_interval"}

(* "poll": nobody waits for the query; "run": runSimulation() or           *)
(* pauseSimulation(), called by the user; "stepRun": runSimulation(),      *)
(* called by stepForward(); "stepQuery": the query stepForward() itself    *)
(* makes next; "forward", "backward": the lookups of the two steps.        *)
Continuations == {"poll", "run", "stepRun", "stepQuery", "forward", "backward"}

(* begin..end is the interval of a query; end is also the until_time of a  *)
(* run and the nextSampleTime that stepForward() holds on to.              *)
Command(name, then, begin, end) == [name |-> name, then |-> then, begin |-> begin, end |-> end]

Message(type, command, status, samples) ==
    [type |-> type, command |-> command, status |-> status, samples |-> samples]

InitialStatus == [status |-> "paused", latestTime |-> 0, nextSampleTime |-> None]

QueryStatus(then, end) == Command("get_simulation_status", then, None, end)

(* The constructor queries the status (session.ts:31).                     *)
Init ==
    /\ simulationStatus = InitialStatus
    /\ timeout = FALSE
    /\ lostTimers = 0
    /\ timeCursor = 0
    /\ forwardTimeStep = 1
    /\ requests = <<QueryStatus("poll", None)>>
    /\ inbox = <<>>
    /\ held = FALSE
    /\ server = [status |-> "paused", latestTime |-> 0, until |-> None]
    /\ ui = 0
    /\ errors = 0
    /\ thrown = {}

-----------------------------------------------------------------------------
(* The simulation, at the other end.                                       *)
Later(time) == {t \in SampleTimes : t > time}

HasNext == Later(server.latestTime) # {}

NextSampleTime == Min(Later(server.latestTime))

(* A simulation with nothing left to simulate is finished.                 *)
Stopped == IF HasNext THEN "paused" ELSE "finished"

ServerStatus ==
    [status |-> server.status,
     latestTime |-> server.latestTime,
     nextSampleTime |-> IF server.status = "paused" THEN NextSampleTime ELSE None]

(* query_interval: the sample in effect at its beginning, and those after  *)
(* it up to its end.                                                       *)
SamplesIn(begin, end) ==
    LET recorded == {t \in SampleTimes : t <= server.latestTime}
        inEffect == Max({t \in recorded : t <= begin})
    IN  {inEffect} \cup {t \in recorded : begin < t /\ t <= end}

(* What a command does to the simulation.                                  *)
Execute(command) ==
    CASE command.name = "run_simulation" /\ server.status # "finished" ->
            [server EXCEPT !.status = "running", !.until = command.end]
      [] command.name = "pause_simulation" /\ server.status = "running" ->
            [server EXCEPT !.status = Stopped]
      [] OTHER -> server

ServerAnswer ==
    /\ requests # <<>>
    /\ LET command == Head(requests) IN
         /\ server' = Execute(command)
         /\ inbox' = Append(inbox, Message("response", command, ServerStatus,
                IF command.name = "query_interval"
                  THEN SamplesIn(command.begin, command.end) ELSE {}))
    /\ requests' = Tail(requests)
    /\ UNCHANGED <<sessionVars, held, ui, errors, thrown>>

ServerError ==
    /\ requests # <<>>
    /\ errors < MaxErrors
    /\ errors' = errors + 1
    /\ inbox' = Append(inbox, Message("error", Head(requests), ServerStatus, {}))
    /\ requests' = Tail(requests)
    /\ UNCHANGED <<sessionVars, held, server, ui, thrown>>

ServerAdvance ==
    /\ server.status = "running"
    /\ HasNext
    /\ server.until = None \/ NextSampleTime <= server.until
    /\ server' = [server EXCEPT !.latestTime = NextSampleTime]
    /\ UNCHANGED <<sessionVars, requests, inbox, held, ui, errors, thrown>>

(* The simulation stops by itself and says so with an event.               *)
ServerStop ==
    /\ server.status = "running"
    /\ HasNext => server.until # None /\ NextSampleTime > server.until
    /\ server' = [server EXCEPT !.status = Stopped]
    /\ inbox' = Append(inbox, Message("event", QueryStatus("poll", None), ServerStatus, {}))
    /\ UNCHANGED <<sessionVars, requests, held, ui, errors, thrown>>

-----------------------------------------------------------------------------
Perform(command) == requests' = Append(requests, command)

(* querySimulationStatus() up to its await.                                *)
QuerySimulationStatus(then, end) ==
    /\ timeout' = FALSE
    /\ Perform(QueryStatus(then, end))

(* Mutants: a first nextSampleTime is not a change; a new latest time is   *)
(* not.                                                                    *)
StatusChangedByTime(current) ==
    \/ simulationStatus.status # current.status
    \/ simulationStatus.latestTime # current.latestTime

StatusChangedByName(current) ==
    \/ simulationStatus.status # current.status
    \/ simulationStatus.nextSampleTime = None /\ current.nextSampleTime # None

(* The rest of it: the status is replaced if it changed, and polled again  *)
(* while the simulation runs.  A timer recorded by an overlapping query is *)
(* forgotten, not cleared.                                                 *)
StatusChanged(current) ==
    \/ simulationStatus.status # current.status
    \/ simulationStatus.latestTime # current.latestTime
    \/ simulationStatus.nextSampleTime = None /\ current.nextSampleTime # None

UpdateStatus(current) ==
    simulationStatus' = IF StatusChanged(current) THEN current ELSE simulationStatus

ForgetTimer(current) ==
    lostTimers' = IF current.status = "running" /\ timeout THEN lostTimers + 1 ELSE lostTimers

(* Mutant: polling goes on only when the status has changed.               *)
StartTimerOnChange(current) ==
    timeout' = (timeout \/ (current.status = "running" /\ StatusChanged(current)))

StartTimer(current) ==
    timeout' = (timeout \/ current.status = "running")

(* Mutant: the setter does not check the range.                            *)
SetTimeCursorUnchecked(newTimeCursor, latestTime) ==
    timeCursor' = newTimeCursor /\ UNCHANGED thrown

(* The timeCursor setter.                                                  *)
SetTimeCursor(newTimeCursor, latestTime) ==
    IF newTimeCursor > latestTime
      THEN thrown' = thrown \cup {"RangeError"} /\ UNCHANGED timeCursor
      ELSE timeCursor' = newTimeCursor /\ UNCHANGED thrown

(* The loop of stepForward(), from its head to its await.                  *)
LookAhead(step) ==
    Perform(Command("query_interval", "forward", timeCursor, timeCursor + step))

-----------------------------------------------------------------------------
(* The next message, and what is left of it for its continuation.          *)
Receives(type) ==
    /\ ~held
    /\ inbox # <<>>
    /\ Head(inbox).type = type
    /\ inbox' = Tail(inbox)

Answers(name, thens) ==
    /\ Receives("response")
    /\ Head(inbox).command.name = name
    /\ Head(inbox).command.then \in thens
    /\ UNCHANGED held

(* A status query is over, and nothing comes after it.                     *)
OnStatus ==
    /\ Answers("get_simulation_status", {"poll", "run"})
    /\ UpdateStatus(Head(inbox).status)
    /\ ForgetTimer(Head(inbox).status)
    /\ StartTimer(Head(inbox).status)
    /\ UNCHANGED <<timeCursor, forwardTimeStep, requests, server, ui, errors, thrown>>

(* runSimulation() returns to stepForward(), which queries once more: the  *)
(* timer is started and cleared again.                                     *)
OnStepStatus ==
    /\ Answers("get_simulation_status", {"stepRun"})
    /\ UpdateStatus(Head(inbox).status)
    /\ ForgetTimer(Head(inbox).status)
    /\ QuerySimulationStatus("stepQuery", Head(inbox).command.end)
    /\ UNCHANGED <<timeCursor, forwardTimeStep, server, ui, errors, thrown>>

(* stepForward() compares the time it ran to with the latest time.  When   *)
(* nextSampleTime was undefined there is nothing to compare.               *)
OnStepped ==
    /\ Answers("get_simulation_status", {"stepQuery"})
    /\ UpdateStatus(Head(inbox).status)
    /\ ForgetTimer(Head(inbox).status)
    /\ StartTimer(Head(inbox).status)
    /\ LET nextSampleTime == Head(inbox).command.end
       IN  \/ /\ nextSampleTime = None
              /\ thrown' = thrown \cup {"TypeError"}
              /\ UNCHANGED timeCursor
           \/ /\ nextSampleTime # None
              /\ nextSampleTime <= simulationStatus'.latestTime
              /\ SetTimeCursor(nextSampleTime, simulationStatus'.latestTime)
           \/ /\ nextSampleTime > simulationStatus'.latestTime
              /\ UNCHANGED <<timeCursor, thrown>>
    /\ UNCHANGED <<forwardTimeStep, requests, server, ui, errors>>

(* run_simulation or pause_simulation is answered: the status is queried.  *)
OnRunOrPause ==
    /\ \E name \in {"run_simulation", "pause_simulation"} : Answers(name, {"run", "stepRun"})
    /\ QuerySimulationStatus(Head(inbox).command.then, Head(inbox).command.end)
    /\ UNCHANGED <<simulationStatus, lostTimers, timeCursor, forwardTimeStep,
                   server, ui, errors, thrown>>

(* Mutants: the last sample is taken; the step stays the same; it shrinks. *)
SecondIsLast(samples) == Max(samples)

DoubledNever == forwardTimeStep

DoubledBackwards == forwardTimeStep \div 2

(* stepForward() has its samples.  With one it doubles the step and looks  *)
(* again from where the cursor is now; a step beyond MaxTime sees every    *)
(* sample, and is not doubled any more (bound).                            *)
Second(samples) == Min(samples \ {Min(samples)})

Doubled == IF forwardTimeStep > MaxTime THEN forwardTimeStep ELSE 2 * forwardTimeStep

OnForward ==
    /\ Answers("query_interval", {"forward"})
    /\ LET samples == Head(inbox).samples
       IN  \/ /\ Cardinality(samples) = 1
              /\ forwardTimeStep' = Doubled
              /\ LookAhead(Doubled)
              /\ UNCHANGED <<timeCursor, thrown>>
           \/ /\ Cardinality(samples) > 1
              /\ SetTimeCursor(Second(samples), simulationStatus.latestTime)
              /\ UNCHANGED <<forwardTimeStep, requests>>
    /\ UNCHANGED <<simulationStatus, timeout, lostTimers, server, ui, errors>>

OnBackward ==
    /\ Answers("query_interval", {"backward"})
    /\ SetTimeCursor(Min(Head(inbox).samples), simulationStatus.latestTime)
    /\ UNCHANGED <<simulationStatus, timeout, lostTimers, forwardTimeStep, requests,
                   server, ui, errors>>

(* The promise is rejected, and whoever awaited it is abandoned.           *)
OnError ==
    /\ Receives("error")
    /\ UNCHANGED <<sessionVars, requests, held, server, ui, errors, thrown>>

(* The event comes first in its chunk, and holds the stream, or it comes   *)
(* after a packet that has resumed it.                                     *)
OnEvent ==
    /\ Receives("event")
    /\ held' \in BOOLEAN
    /\ QuerySimulationStatus("poll", None)
    /\ UNCHANGED <<simulationStatus, lostTimers, timeCursor, forwardTimeStep,
                   server, ui, errors, thrown>>

(* Timers are all of the same delay and fire in the order they were set:   *)
(* the recorded one is the newest.                                         *)
TimerFires ==
    /\ timeout \/ lostTimers > 0
    /\ lostTimers' = IF lostTimers > 0 THEN lostTimers - 1 ELSE 0
    /\ QuerySimulationStatus("poll", None)
    /\ UNCHANGED <<simulationStatus, timeCursor, forwardTimeStep, inbox, held,
                   server, ui, errors, thrown>>

-----------------------------------------------------------------------------
(* The commands of the user (extension.ts:31-61).                          *)
InFlight == {requests[i] : i \in DOMAIN requests} \cup {inbox[i].command : i \in DOMAIN inbox}

UserCommand ==
    /\ ui < MaxUi
    /\ Overlap \/ \A command \in InFlight : command.then = "poll"
    /\ ui' = ui + 1
    /\ UNCHANGED <<inbox, held, server, errors>>

RunSimulation ==
    /\ UserCommand
    /\ simulationStatus.status # "running"
    /\ Perform(Command("run_simulation", "run", None, None))
    /\ UNCHANGED <<sessionVars, thrown>>

(* The status may have changed while the user typed the time.              *)
RunSimulationUntil(untilTime) ==
    /\ UserCommand
    /\ Perform(Command("run_simulation", "run", None, untilTime))
    /\ UNCHANGED <<sessionVars, thrown>>

PauseSimulation ==
    /\ UserCommand
    /\ simulationStatus.status = "running"
    /\ Perform(Command("pause_simulation", "run", None, None))
    /\ UNCHANGED <<sessionVars, thrown>>

StepForward ==
    /\ UserCommand
    /\ \/ /\ timeCursor = simulationStatus.latestTime
          /\ simulationStatus.status = "paused"
          /\ Perform(Command("run_simulation", "stepRun", None, simulationStatus.nextSampleTime))
       \/ /\ timeCursor # simulationStatus.latestTime
          /\ LookAhead(forwardTimeStep)
    /\ UNCHANGED <<sessionVars, thrown>>

StepBackward ==
    /\ UserCommand
    /\ timeCursor # 0
    /\ Perform(Command("query_interval", "backward", timeCursor - 1, timeCursor - 1))
    /\ UNCHANGED <<sessionVars, thrown>>

(* The command checks the time it was given, then uses the setter.         *)
GoToTime(goToTime) ==
    /\ UserCommand
    /\ goToTime <= simulationStatus.latestTime
    /\ SetTimeCursor(goToTime, simulationStatus.latestTime)
    /\ UNCHANGED <<simulationStatus, timeout, lostTimers, forwardTimeStep, requests>>

-----------------------------------------------------------------------------
Continue ==
    \/ OnStatus
    \/ OnStepStatus
    \/ OnStepped
    \/ OnRunOrPause
    \/ OnForward
    \/ OnBackward
    \/ OnError
    \/ OnEvent

User ==
    \/ RunSimulation
    \/ \E t \in SampleTimes : RunSimulationUntil(t)
    \/ PauseSimulation
    \/ StepForward
    \/ StepBackward
    \/ \E t \in Times : GoToTime(t)

Simulation == ServerAnswer \/ ServerError \/ ServerAdvance \/ ServerStop

Next == Continue \/ TimerFires \/ User \/ Simulation

Spec == Init /\ [][Next]_vars

(* Messages are delivered unless the stream is held, timers fire, and the  *)
(* simulation answers, advances while it runs, and stops; the user need    *)
(* not do anything.                                                        *)
Fairness ==
    /\ WF_vars(Continue)
    /\ WF_vars(TimerFires)
    /\ WF_vars(ServerAnswer)
    /\ WF_vars(ServerAdvance)
    /\ WF_vars(ServerStop)

FairSpec == Spec /\ Fairness

-----------------------------------------------------------------------------
Commands ==
    [name : Names, then : Continuations, begin : Times \cup {None}, end : Int]

SimulationStatuses ==
    [status : Statuses, latestTime : SampleTimes, nextSampleTime : SampleTimes \cup {None}]

Messages ==
    [type : {"response", "error", "event"}, command : Commands,
     status : SimulationStatuses, samples : SUBSET SampleTimes]

TypeOK ==
    /\ simulationStatus \in SimulationStatuses
    /\ timeout \in BOOLEAN
    /\ lostTimers \in Nat
    /\ timeCursor \in Times
    /\ forwardTimeStep \in Nat \ {0}
    /\ requests \in Seq(Commands)
    /\ inbox \in Seq(Messages)
    /\ held \in BOOLEAN
    /\ server \in [status : Statuses, latestTime : SampleTimes, until : Times \cup {None}]
    /\ ui \in 0..MaxUi
    /\ errors \in 0..MaxErrors
    /\ thrown \subseteq {"RangeError", "TypeError"}

(* The cursor never points beyond what the session knows to be simulated,  *)
(* whatever the order of status replies and cursor movements               *)
(* (session.ts:285-292).                                                   *)
CursorInRange == timeCursor <= simulationStatus.latestTime

(* While the session shows a running simulation, something will look at    *)
(* the status again: a timer or a query on its way.  No interleaving of    *)
(* queries, timers and events that clear each other's timers               *)
(* (session.ts:216-219, 240) stops the polling.                            *)
PollerAlive ==
    simulationStatus.status = "running" /\ errors = 0 =>
        \/ timeout
        \/ lostTimers > 0
        \/ \E command \in InFlight : command.name = "get_simulation_status"

(* A paused session's nextSampleTime is the sample that follows its        *)
(* latestTime: stepForward() runs to the next sample (session.ts:297).     *)
(* It is undefined only while the constructor's query is under way, or if  *)
(* it failed: its reply is taken over although it differs from the initial *)
(* status in nextSampleTime alone (session.ts:231-238).                    *)
NextIsNext ==
    simulationStatus.status = "paused" =>
        \/ simulationStatus.nextSampleTime = Min(Later(simulationStatus.latestTime))
        \/ /\ simulationStatus = InitialStatus
           /\ errors > 0 \/ \E command \in InFlight : command.name = "get_simulation_status"

(* A user who waits for each command to complete moves by single samples:  *)
(* a step that moves the cursor moves it to the sample after it, or to     *)
(* the one before it, however far the simulation runs ahead meanwhile      *)
(* (session.ts:294-342).                                                   *)
StepIsAdjacent ==
    [][timeCursor' # timeCursor /\ ui' = ui =>
        IF timeCursor' > timeCursor
          THEN timeCursor' = Min(Later(timeCursor))
          ELSE timeCursor' = Max({t \in SampleTimes : t < timeCursor})]_vars

(* The setter's RangeError never reaches a user who waits for each command *)
(* to complete (session.ts:301, 320, 339).                                 *)
NoRangeError == "RangeError" \notin thrown

Stepping == \E command \in InFlight : command.then \in {"forward", "backward", "stepRun", "stepQuery"}

(* "we guess this time step using binary search and then look ahead to     *)
(* find out the actual next cursor position" (session.ts:276-277): the     *)
(* search of stepForward() ends when no other command moves the cursor     *)
(* meanwhile and no event holds the stream (link.ts:90).                   *)
StepTerminates == Stepping ~> (~Stepping \/ held)

(* Once the simulation stops, the session learns its final status, unless  *)
(* it runs again first or an event holds the stream (link.ts:90): no       *)
(* change goes unnoticed (session.ts:231-238) and polling goes on until    *)
(* the last one.                                                           *)
StatusConverges ==
    (server.status # "running") ~>
        (server.status = "running" \/ simulationStatus = ServerStatus \/ held)
=============================================================================
