---------------------------- MODULE SessionProofs ----------------------------
(***************************************************************************)
(* Proofs about Session, for every set of sample times and every number of *)
(* commands and errors.                                                    *)
(***************************************************************************)
EXTENDS Session, FiniteSetTheorems, WellFoundedInduction, TLAPS

-----------------------------------------------------------------------------
(* Smallest and largest elements.                                          *)

(* A nonempty set of naturals has a smallest element, and Min is it.       *)
LEMMA MinIsLeast ==
    ASSUME NEW S \in SUBSET Nat, S # {}
    PROVE  Min(S) \in S /\ \A x \in S : Min(S) <= x
<1> DEFINE less == {ss \in Nat \X Nat : ss[1] < ss[2]}
<1>1. IsWellFoundedOn(less, Nat)
  BY NatLessThanWellFounded DEF OpToRel
<1>2. PICK x \in S : \A y \in S : <<y, x>> \notin less
  BY <1>1, WFMin
<1>3. ASSUME NEW y \in S PROVE x <= y
  <2>1. y \in Nat /\ x \in Nat /\ (y < x => <<y, x>> \in less)
    OBVIOUS
  <2> QED
    BY <1>2, <2>1
<1> QED
  BY <1>3 DEF Min

(* A finite set of naturals is bounded: a smallest counterexample would    *)
(* have an element to spare.                                               *)
LEMMA FiniteIsBounded ==
    ASSUME NEW S \in SUBSET Nat, IsFiniteSet(S)
    PROVE  \E b \in Nat : \A x \in S : x <= b
<1> DEFINE Bounded(U) == \E b \in Nat : \A x \in U : x <= b
           sizes == {n \in Nat : \E U \in SUBSET Nat :
                        IsFiniteSet(U) /\ Cardinality(U) = n /\ ~Bounded(U)}
<1> SUFFICES ASSUME ~Bounded(S) PROVE FALSE
  OBVIOUS
<1>1. sizes # {} /\ sizes \in SUBSET Nat
  BY FS_CardinalityType
<1>2. PICK n \in sizes : \A m \in sizes : n <= m
  BY <1>1, MinIsLeast
<1>3. PICK U \in SUBSET Nat : IsFiniteSet(U) /\ Cardinality(U) = n /\ ~Bounded(U)
  BY <1>2
<1>4. PICK x \in U : TRUE
  <2>1. U = {} => \A x \in U : x <= 0
    OBVIOUS
  <2> QED
    BY <1>3, <2>1
<1>5. IsFiniteSet(U \ {x}) /\ Cardinality(U \ {x}) = n - 1 /\ n - 1 \in Nat
  <2>1. IsFiniteSet(U \ {x}) /\ Cardinality(U \ {x}) = Cardinality(U) - 1
    BY <1>3, <1>4, FS_RemoveElement
  <2>2. Cardinality(U \ {x}) \in Nat
    BY <2>1, FS_CardinalityType
  <2> QED
    BY <1>3, <2>1, <2>2
<1>6. PICK b \in Nat : \A y \in U \ {x} : y <= b
  <2>1. n - 1 \notin sizes
    BY <1>2, <1>5
  <2> QED
    BY <1>5, <2>1
<1>7. b + x \in Nat /\ \A y \in U : y <= b + x
  BY <1>4, <1>6
<1> QED
  BY <1>3, <1>7

(* A nonempty finite set of naturals has a largest element, and Max is it. *)
LEMMA MaxIsGreatest ==
    ASSUME NEW S \in SUBSET Nat, S # {}, IsFiniteSet(S)
    PROVE  Max(S) \in S /\ \A x \in S : x <= Max(S)
<1>1. PICK b \in Nat : \A x \in S : x <= b
  BY FiniteIsBounded
<1> DEFINE gaps == {g \in Nat : b - g \in S}
<1>2. gaps # {} /\ gaps \in SUBSET Nat
  <2>1. PICK x \in S : x \in Nat /\ x <= b
    BY <1>1
  <2>2. b - x \in Nat /\ b - (b - x) = x
    BY <2>1
  <2> QED
    BY <2>1, <2>2
<1>3. PICK g \in gaps : \A h \in gaps : g <= h
  BY <1>2, MinIsLeast
<1>4. \A x \in S : b - x \in gaps
  BY <1>1
<1>5. b - g \in S /\ \A x \in S : b - g >= x
  BY <1>1, <1>3, <1>4
<1> QED
  BY <1>5 DEF Max

-----------------------------------------------------------------------------
(* Times and samples.                                                      *)

(* The sample times are naturals up to MaxTime.                            *)
LEMMA TimeFacts ==
    /\ SampleTimes \in SUBSET Nat
    /\ MaxTime \in Nat
    /\ Times \in SUBSET Nat
    /\ SampleTimes \subseteq Times
    /\ 0 \in SampleTimes
    /\ Later(0) # {}
<1>1. SampleTimes \in SUBSET Nat /\ 0 \in SampleTimes /\ SampleTimes # {} /\ IsFiniteSet(SampleTimes)
  BY SessionAssumption
<1>2. MaxTime \in SampleTimes /\ \A t \in SampleTimes : t <= MaxTime
  BY <1>1, MaxIsGreatest DEF MaxTime
<1>3. PICK t \in SampleTimes : t # 0
  BY <1>1, SessionAssumption
<1>4. t \in Later(0)
  BY <1>1, <1>3 DEF Later
<1> QED
  BY <1>1, <1>2, <1>4 DEF Times

(* Min(Later(time)) is the sample that follows a time.                     *)
LEMMA NextSample ==
    ASSUME NEW time \in Nat, Later(time) # {}
    PROVE  /\ Min(Later(time)) \in SampleTimes
           /\ Min(Later(time)) > time
           /\ \A t \in SampleTimes : t > time => Min(Later(time)) <= t
<1>1. Later(time) \in SUBSET Nat
  BY TimeFacts DEF Later
<1>2. Min(Later(time)) \in Later(time) /\ \A t \in Later(time) : Min(Later(time)) <= t
  BY <1>1, MinIsLeast
<1> QED
  BY <1>2, TimeFacts DEF Later

(* What a query of an interval returns when the simulation has got to      *)
(* `latest', and the sample in effect at a time.                           *)
InEffect(begin, latest) == Max({t \in SampleTimes : t <= latest /\ t <= begin})

Recorded(begin, end, latest) ==
    {InEffect(begin, latest)} \cup {t \in SampleTimes : t <= latest /\ begin < t /\ t <= end}

(* The sample in effect is the last one up to that time.                   *)
LEMMA InEffectIsLast ==
    ASSUME NEW begin \in Nat, NEW latest \in Nat
    PROVE  /\ InEffect(begin, latest) \in SampleTimes
           /\ InEffect(begin, latest) <= begin
           /\ InEffect(begin, latest) <= latest
           /\ \A t \in SampleTimes : t <= begin /\ t <= latest => t <= InEffect(begin, latest)
<1> DEFINE S == {t \in SampleTimes : t <= latest /\ t <= begin}
<1>1. S \in SUBSET Nat /\ S # {} /\ S \in SUBSET SampleTimes
  <2>1. 0 \in S
    BY TimeFacts
  <2> QED
    BY <2>1, TimeFacts
<1>2. IsFiniteSet(S)
  BY <1>1, FS_Subset, SessionAssumption
<1>3. Max(S) \in S /\ \A t \in S : t <= Max(S)
  BY <1>1, <1>2, MaxIsGreatest
<1> QED
  BY <1>3 DEF InEffect

(* The smallest of the samples is the one in effect; if there are more,    *)
(* the second is the sample that follows.                                  *)
LEMMA RecordedSamples ==
    ASSUME NEW begin \in Nat, NEW end \in Int, NEW latest \in Nat
    PROVE  LET samples == Recorded(begin, end, latest)
           IN  /\ samples \in SUBSET SampleTimes
               /\ Min(samples) = InEffect(begin, latest)
               /\ Cardinality(samples) > 1 => 
                    /\ Second(samples) \in SampleTimes
                    /\ Second(samples) > begin
                    /\ Second(samples) <= latest
                    /\ \A t \in SampleTimes : t > begin => Second(samples) <= t
<1> DEFINE samples == Recorded(begin, end, latest)
           e == InEffect(begin, latest)
           rest == {t \in SampleTimes : t <= latest /\ begin < t /\ t <= end}
<1> HIDE DEF e
<1>1. /\ e \in SampleTimes /\ e \in Nat /\ e <= begin /\ e <= latest
  BY InEffectIsLast, TimeFacts DEF e
<1>2. samples = {e} \cup rest /\ samples \in SUBSET Nat /\ samples # {} /\ samples \in SUBSET SampleTimes
  BY <1>1, TimeFacts DEF Recorded, e
<1>3. Min(samples) = e
  <2>1. Min(samples) \in samples /\ \A x \in samples : Min(samples) <= x
    BY <1>2, MinIsLeast
  <2>2. \A x \in samples : e <= x
    BY <1>1, <1>2, TimeFacts
  <2> QED
    BY <1>1, <1>2, <2>1, <2>2, TimeFacts
<1>4. ASSUME Cardinality(samples) > 1
      PROVE  /\ Second(samples) \in rest
             /\ \A t \in rest : Second(samples) <= t
  <2>1. samples \ {e} = rest
    BY <1>1, <1>2, TimeFacts
  <2>2. rest # {}
    <3> SUFFICES ASSUME rest = {} PROVE FALSE
      OBVIOUS
    <3>1. samples = {e}
      BY <1>2
    <3>2. Cardinality(samples) = 1
      BY <3>1, FS_Singleton
    <3> QED
      BY <1>4, <3>2
  <2>3. Min(rest) \in rest /\ \A t \in rest : Min(rest) <= t
    <3>1. rest \in SUBSET Nat
      BY TimeFacts
    <3> QED
      BY <2>2, <3>1, MinIsLeast
  <2> QED
    BY <1>3, <2>1, <2>3 DEF Second
<1>5. ASSUME Cardinality(samples) > 1, NEW t \in SampleTimes, t > begin
      PROVE  Second(samples) <= t
  <2>1. Second(samples) \in rest /\ \A u \in rest : Second(samples) <= u
    BY <1>4, <1>5
  <2>2. CASE t \in rest
    BY <2>1, <2>2
  <2>3. CASE t \notin rest
    <3>1. t > latest \/ t > end
      BY <1>5, <2>3, TimeFacts
    <3>2. Second(samples) \in Nat /\ Second(samples) <= latest /\ Second(samples) <= end
      BY <2>1, TimeFacts
    <3>3. t \in Nat
      BY TimeFacts
    <3> QED
      BY <3>1, <3>2, <3>3
  <2> QED
    BY <2>2, <2>3
<1> QED
  BY <1>2, <1>3, <1>4, <1>5 DEF e

-----------------------------------------------------------------------------
(* The inductive invariant.                                                *)

(* A paused simulation has a next sample, and says which.                  *)
TellsNext(status) ==
    status.status = "paused" =>
        /\ Later(status.latestTime) # {}
        /\ status.nextSampleTime = Min(Later(status.latestTime))

(* The commands the session sends.                                         *)
KnownCommands ==
    {c \in Commands :
        /\ c.name = "query_interval" => c.begin \in Times /\ c.then \in {"forward", "backward"}
        /\ c.name = "run_simulation" => c.end \in Times \cup {None}
        /\ c.then \in {"stepRun", "stepQuery"} => c.end \in SampleTimes \cup {None}}

(* The messages the server sends: their status is that of the moment.      *)
KnownMessages ==
    {m \in Messages :
        /\ m.command \in KnownCommands
        /\ TellsNext(m.status)
        /\ m.type = "response" /\ m.command.name = "query_interval" =>
             m.samples = Recorded(m.command.begin, m.command.end, m.status.latestTime)}

TypeInv ==
    /\ TypeOK
    /\ requests \in Seq(KnownCommands)
    /\ inbox \in Seq(KnownMessages)
    /\ server.status = "paused" => HasNext

(* Time goes forward from the cursor to the status the session knows, to   *)
(* those on their way and to the simulation.                               *)
OrderInv ==
    /\ CursorInRange
    /\ simulationStatus.latestTime <= server.latestTime
    /\ \A i \in 1..Len(inbox) :
         /\ simulationStatus.latestTime <= inbox[i].status.latestTime
         /\ inbox[i].status.latestTime <= server.latestTime
    /\ \A i, j \in 1..Len(inbox) : i <= j =>
         inbox[i].status.latestTime <= inbox[j].status.latestTime

(* From the first status reply on the session knows the next sample.       *)
NextKnown ==
    simulationStatus.status = "paused" /\ simulationStatus # InitialStatus =>
        simulationStatus.nextSampleTime = Min(Later(simulationStatus.latestTime))

StatusInv ==
    /\ NextKnown
    /\ simulationStatus.status = "paused" => Later(simulationStatus.latestTime) # {}

ErrorInv == \A i \in 1..Len(inbox) : inbox[i].type = "error" => errors > 0

Query == "get_simulation_status"

(* A status query is on its way: among the requests r or in the messages m.*)
Polled(r, m) ==
    \/ \E i \in 1..Len(r) : r[i].name = Query
    \/ \E i \in 1..Len(m) : m[i].command.name = Query

(* Before the first status reply, the query for it is on its way.          *)
FirstPolled == simulationStatus = InitialStatus /\ errors = 0 => Polled(requests, inbox)

IInv == TypeInv /\ OrderInv /\ ErrorInv /\ PollerAlive /\ FirstPolled /\ StatusInv

-----------------------------------------------------------------------------
(* Parts of the actions.                                                   *)

(* The queries of the status that the session sends are known commands.    *)
LEMMA QueryKnown ==
    ASSUME NEW then \in {"poll", "run", "stepRun", "stepQuery"}, NEW end \in Int,
           then \in {"stepRun", "stepQuery"} => end \in SampleTimes \cup {None}
    PROVE  /\ QueryStatus(then, end) \in KnownCommands
           /\ QueryStatus(then, end).name = "get_simulation_status"
           /\ QueryStatus(then, end).then = then
           /\ QueryStatus(then, end).end = end
  BY DEF QueryStatus, Command, KnownCommands, Commands, Names, Continuations

(* What the simulation says of itself.                                     *)
LEMMA ServerTells ==
    ASSUME TypeInv
    PROVE  /\ ServerStatus \in SimulationStatuses
           /\ TellsNext(ServerStatus)
           /\ ServerStatus.latestTime = server.latestTime
           /\ ServerStatus.status = server.status
<1>1. /\ server \in [status : Statuses, latestTime : SampleTimes, until : Times \cup {None}]
      /\ server.latestTime \in Nat
      /\ server.status = "paused" => HasNext
  BY TimeFacts DEF TypeInv, TypeOK
<1>2. /\ ServerStatus.latestTime = server.latestTime
      /\ ServerStatus.status = server.status
      /\ ServerStatus.nextSampleTime = IF server.status = "paused" THEN NextSampleTime ELSE None
      /\ ServerStatus = [status |-> server.status, latestTime |-> server.latestTime,
            nextSampleTime |-> IF server.status = "paused" THEN NextSampleTime ELSE None]
  BY DEF ServerStatus
<1>3. server.status = "paused" => NextSampleTime \in SampleTimes
  BY <1>1, NextSample DEF HasNext, NextSampleTime
<1>4. (IF server.status = "paused" THEN NextSampleTime ELSE None) \in SampleTimes \cup {None}
  BY <1>3
<1>5. ServerStatus \in SimulationStatuses
  BY <1>1, <1>2, <1>4 DEF SimulationStatuses
<1>6. TellsNext(ServerStatus)
  BY <1>1, <1>2 DEF TellsNext, NextSampleTime, HasNext
<1> QED
  BY <1>2, <1>5, <1>6

(* A message is taken from the inbox.                                      *)
LEMMA ReceivesHead ==
    ASSUME TypeInv, NEW type, Receives(type)
    PROVE  /\ inbox # <<>> /\ Head(inbox) = inbox[1] /\ Len(inbox) \in Nat /\ 1 \in 1..Len(inbox)
           /\ Head(inbox) \in KnownMessages
           /\ Head(inbox).type = type
           /\ inbox' \in Seq(KnownMessages)
           /\ Len(inbox') = Len(inbox) - 1
           /\ \A i \in 1..Len(inbox') : i + 1 \in 1..Len(inbox) /\ inbox'[i] = inbox[i + 1]
<1>1. inbox \in Seq(KnownMessages) /\ inbox # <<>> /\ inbox' = Tail(inbox)
  BY DEF TypeInv, Receives
<1>2. Len(inbox) \in Nat /\ Len(inbox) # 0
  BY <1>1
<1>3. Head(inbox) = inbox[1] /\ Head(inbox) \in KnownMessages /\ inbox' \in Seq(KnownMessages)
  BY <1>1, <1>2
<1>4. Len(inbox') = Len(inbox) - 1 /\ \A i \in 1..Len(inbox') : inbox'[i] = inbox[i + 1]
  BY <1>1, <1>2
<1> QED
  BY <1>1, <1>2, <1>3, <1>4 DEF Receives

(* What is known of a message.                                             *)
LEMMA MessageFacts ==
    ASSUME NEW m \in KnownMessages
    PROVE  /\ m.command \in KnownCommands
           /\ m.status \in SimulationStatuses
           /\ TellsNext(m.status)
           /\ m.status.latestTime \in SampleTimes /\ m.status.latestTime \in Nat
           /\ m.status.status \in Statuses
           /\ m.command.end \in Int
           /\ m.command.then \in Continuations
           /\ m.command.then \in {"stepRun", "stepQuery"} => m.command.end \in SampleTimes \cup {None}
           /\ m.command.name = "query_interval" =>
                m.command.begin \in Times /\ m.command.then \in {"forward", "backward"}
           /\ m.type = "response" /\ m.command.name = "query_interval" =>
                m.samples = Recorded(m.command.begin, m.command.end, m.status.latestTime)
<1>1. m \in Messages /\ m.command \in KnownCommands
  BY DEF KnownMessages
<1>2. m.status \in SimulationStatuses /\ m.status.latestTime \in SampleTimes /\ m.status.status \in Statuses
  BY <1>1 DEF Messages, SimulationStatuses
<1>3. /\ m.command.end \in Int /\ m.command.then \in Continuations
      /\ m.command.then \in {"stepRun", "stepQuery"} => m.command.end \in SampleTimes \cup {None}
      /\ m.command.name = "query_interval" =>
           m.command.begin \in Times /\ m.command.then \in {"forward", "backward"}
  BY <1>1 DEF KnownCommands, Commands
<1> QED
  BY <1>1, <1>2, <1>3, TimeFacts DEF KnownMessages

(* A status reply is taken over: its status and its time in any case.      *)
LEMMA StatusTaken ==
    ASSUME simulationStatus \in SimulationStatuses, StatusInv,
           NEW current \in SimulationStatuses, TellsNext(current), UpdateStatus(current)
    PROVE  /\ simulationStatus' \in SimulationStatuses
           /\ simulationStatus'.latestTime = current.latestTime
           /\ simulationStatus'.status = current.status
           /\ simulationStatus' # InitialStatus
           /\ StatusInv'
<1>1. current.status = "paused" => current.nextSampleTime # None
  <2>1. current.latestTime \in Nat
    BY TimeFacts DEF SimulationStatuses
  <2>2. ASSUME current.status = "paused" PROVE current.nextSampleTime \in Nat
    BY <2>1, <2>2, NextSample, TimeFacts DEF TellsNext
  <2> QED
    BY <2>2 DEF None
<1>2. InitialStatus.status = "paused" /\ InitialStatus.nextSampleTime = None
  BY DEF InitialStatus
<1>3. CASE StatusChanged(current)
  <2>1. simulationStatus' = current /\ current # InitialStatus
    BY <1>1, <1>2, <1>3 DEF UpdateStatus
  <2> QED
    BY <2>1 DEF StatusInv, NextKnown, TellsNext, Later
<1>4. CASE ~StatusChanged(current)
  <2>1. /\ simulationStatus' = simulationStatus /\ simulationStatus.status = current.status
        /\ simulationStatus.latestTime = current.latestTime
        /\ simulationStatus.nextSampleTime = None => current.nextSampleTime = None
    BY <1>4 DEF UpdateStatus, StatusChanged
  <2>2. simulationStatus # InitialStatus
    BY <1>1, <1>2, <2>1
  <2> QED
    BY <2>1, <2>2 DEF StatusInv, NextKnown, Later
<1> QED
  BY <1>3, <1>4

(* The setter keeps the cursor in a range, or where it is.                 *)
LEMMA CursorSet ==
    ASSUME timeCursor \in Times, thrown \subseteq {"RangeError", "TypeError"},
           NEW new \in Times, NEW latest \in Nat, SetTimeCursor(new, latest)
    PROVE  /\ timeCursor' \in Times
           /\ thrown' \subseteq {"RangeError", "TypeError"}
           /\ timeCursor' = timeCursor \/ timeCursor' <= latest
           /\ new <= latest => timeCursor' = new /\ thrown' = thrown
           /\ timeCursor' \in {timeCursor, new}
<1>1. new \in Nat /\ timeCursor \in Nat
  BY TimeFacts
<1>2. CASE new > latest
  <2>1. thrown' = thrown \cup {"RangeError"} /\ timeCursor' = timeCursor
    BY <1>2 DEF SetTimeCursor
  <2>2. ~(new <= latest)
    BY <1>1, <1>2
  <2> QED
    BY <2>1, <2>2
<1>3. CASE new <= latest
  <2>1. ~(new > latest)
    BY <1>1, <1>3
  <2>2. thrown' = thrown /\ timeCursor' = new
    BY <2>1 DEF SetTimeCursor
  <2> QED
    BY <1>3, <2>2
<1> QED
  BY <1>1, <1>2, <1>3

(* The commands of the user are known commands.                            *)
LEMMA UserKnown ==
    ASSUME TypeInv
    PROVE  /\ Command("run_simulation", "run", None, None) \in KnownCommands
           /\ \A t \in SampleTimes : Command("run_simulation", "run", None, t) \in KnownCommands
           /\ Command("pause_simulation", "run", None, None) \in KnownCommands
           /\ Command("run_simulation", "stepRun", None, simulationStatus.nextSampleTime) \in KnownCommands
           /\ \A step \in Nat :
                Command("query_interval", "forward", timeCursor, timeCursor + step) \in KnownCommands
           /\ timeCursor # 0 =>
                Command("query_interval", "backward", timeCursor - 1, timeCursor - 1) \in KnownCommands
<1>1. /\ timeCursor \in Times /\ timeCursor \in Nat
      /\ simulationStatus.nextSampleTime \in SampleTimes \cup {None}
      /\ SampleTimes \subseteq Times /\ Times \in SUBSET Nat /\ None \in Int
  BY TimeFacts DEF TypeInv, TypeOK, SimulationStatuses, None
<1>2. timeCursor # 0 => timeCursor - 1 \in Times
  BY <1>1, TimeFacts DEF Times
<1> USE DEF Command, KnownCommands, Commands, Names, Continuations
<1>3. /\ Command("run_simulation", "run", None, None) \in KnownCommands
      /\ Command("pause_simulation", "run", None, None) \in KnownCommands
  BY <1>1
<1>4. ASSUME NEW t \in SampleTimes
      PROVE  Command("run_simulation", "run", None, t) \in KnownCommands
  BY <1>1
<1>5. Command("run_simulation", "stepRun", None, simulationStatus.nextSampleTime) \in KnownCommands
  <2>1. ASSUME NEW n \in SampleTimes \cup {None}
        PROVE  Command("run_simulation", "stepRun", None, n) \in KnownCommands
    <3>1. n \in Int /\ n \in Times \cup {None}
      BY <1>1
    <3> QED
      BY <3>1
  <2> QED
    BY <1>1, <2>1
<1>6. ASSUME NEW step \in Nat
      PROVE  Command("query_interval", "forward", timeCursor, timeCursor + step) \in KnownCommands
  BY <1>1
<1>7. ASSUME timeCursor # 0
      PROVE  Command("query_interval", "backward", timeCursor - 1, timeCursor - 1) \in KnownCommands
  BY <1>1, <1>2, <1>7
<1> QED
  BY <1>3, <1>4, <1>5, <1>6, <1>7

(* A known command is put in line.                                         *)
LEMMA Performs ==
    ASSUME requests \in Seq(KnownCommands), NEW c \in KnownCommands, Perform(c)
    PROVE  /\ requests' \in Seq(KnownCommands)
           /\ Len(requests) \in Nat
           /\ Len(requests') = Len(requests) + 1
           /\ requests'[Len(requests) + 1] = c
           /\ \A i \in 1..Len(requests) : requests'[i] = requests[i]
  BY DEF Perform

(* Types of the sequences.                                                 *)
LEMMA SequenceTypes ==
    ASSUME requests \in Seq(KnownCommands), inbox \in Seq(KnownMessages)
    PROVE  requests \in Seq(Commands) /\ inbox \in Seq(Messages)
<1>1. KnownCommands \subseteq Commands /\ KnownMessages \subseteq Messages
  BY DEF KnownCommands, KnownMessages
<1> QED
  BY <1>1

-----------------------------------------------------------------------------
(* Every step keeps the types.                                             *)

(* The initial state is well-typed.                                        *)
LEMMA TypeInit == Init => TypeInv
<1> SUFFICES ASSUME Init PROVE TypeInv
  OBVIOUS
<1>1. requests \in Seq(KnownCommands) /\ inbox \in Seq(KnownMessages)
  <2>1. None \in Int
    BY DEF None
  <2>2. QueryStatus("poll", None) \in KnownCommands
    BY <2>1, QueryKnown
  <2> QED
    BY <2>2 DEF Init
<1>2. requests \in Seq(Commands) /\ inbox \in Seq(Messages)
  BY <1>1, SequenceTypes
<1>3. /\ server \in [status : Statuses, latestTime : SampleTimes, until : Times \cup {None}]
      /\ HasNext /\ simulationStatus \in SimulationStatuses /\ timeCursor \in Times
  BY TimeFacts DEF Init, Statuses, SimulationStatuses, InitialStatus, HasNext
<1>4. ui \in 0..MaxUi /\ errors \in 0..MaxErrors /\ lostTimers \in Nat /\ forwardTimeStep \in Nat \ {0}
  BY SessionAssumption DEF Init
<1>5. timeout \in BOOLEAN /\ held \in BOOLEAN /\ thrown \subseteq {"RangeError", "TypeError"}
  BY DEF Init
<1> QED
  BY <1>1, <1>2, <1>3, <1>4, <1>5 DEF TypeInv, TypeOK

(* The types of the session's own variables.                               *)
SessionOK ==
    /\ simulationStatus \in SimulationStatuses
    /\ timeout \in BOOLEAN
    /\ lostTimers \in Nat
    /\ timeCursor \in Times
    /\ forwardTimeStep \in Nat \ {0}
    /\ thrown \subseteq {"RangeError", "TypeError"}

(* A continuation runs: the types of what it changes are those of          *)
(* TypeInv.                                                                *)
LEMMA ContinueType ==
    ASSUME TypeInv, SessionOK', requests' \in Seq(KnownCommands),
           inbox' \in Seq(KnownMessages), held' \in BOOLEAN,
           UNCHANGED <<server, errors>>, ui' \in 0..MaxUi
    PROVE  TypeInv'
<1>1. requests' \in Seq(Commands) /\ inbox' \in Seq(Messages)
  <2>1. KnownCommands \subseteq Commands /\ KnownMessages \subseteq Messages
    BY DEF KnownCommands, KnownMessages
  <2> QED
    BY <2>1
<1>2. HasNext' <=> HasNext
  BY DEF HasNext, Later
<1> QED
  BY <1>1, <1>2 DEF TypeInv, TypeOK, SessionOK

-----------------------------------------------------------------------------
(* The continuations keep the invariant.                                   *)

(* The polling goes on if a timer runs or a query is on its way.           *)
LEMMA PolledInFlight ==
    ASSUME NEW r \in Seq(KnownCommands), NEW m \in Seq(KnownMessages)
    PROVE  Polled(r, m) <=>
             \E c \in {r[i] : i \in DOMAIN r} \cup {m[i].command : i \in DOMAIN m} : c.name = Query
<1>1. DOMAIN r = 1..Len(r) /\ DOMAIN m = 1..Len(m)
  OBVIOUS
<1> QED
  BY <1>1 DEF Polled

(* A step that leaves someone to ask for the status again.                 *)
LEMMA StillPolled ==
    ASSUME requests' \in Seq(KnownCommands), inbox' \in Seq(KnownMessages),
           \/ simulationStatus'.status # "running"
           \/ errors' # 0
           \/ timeout'
           \/ lostTimers' > 0
           \/ Polled(requests', inbox')
    PROVE  PollerAlive'
<1>1. Polled(requests', inbox') <=> \E c \in InFlight' : c.name = Query
  BY PolledInFlight DEF InFlight
<1> QED
  BY <1>1 DEF PollerAlive, Query

(* What polls now.                                                         *)
LEMMA WhoPolls ==
    ASSUME TypeInv, PollerAlive, simulationStatus.status = "running", errors = 0
    PROVE  timeout \/ lostTimers > 0 \/ Polled(requests, inbox)
<1>1. Polled(requests, inbox) <=> \E c \in InFlight : c.name = Query
  BY PolledInFlight DEF TypeInv, InFlight
<1> QED
  BY <1>1 DEF PollerAlive, Query

(* A query that was sent is on its way.                                    *)
LEMMA QueryPolled ==
    ASSUME requests \in Seq(KnownCommands), NEW c \in KnownCommands, c.name = Query, Perform(c),
           NEW m
    PROVE  Polled(requests', m)
<1>1. Len(requests') \in Nat \ {0} /\ requests'[Len(requests')] = c
  BY Performs
<1> QED
  BY <1>1 DEF Polled

(* Requests are only added.                                                *)
LEMMA RequestsGrow ==
    ASSUME requests \in Seq(KnownCommands), requests' = requests \/ \E c \in KnownCommands : Perform(c)
    PROVE  /\ requests' \in Seq(KnownCommands)
           /\ \A i \in 1..Len(requests) : i \in 1..Len(requests') /\ requests'[i] = requests[i]
<1>1. CASE requests' = requests
  BY <1>1
<1>2. CASE \E c \in KnownCommands : Perform(c)
  BY <1>2, Performs
<1> QED
  BY <1>1, <1>2

(* A message is received that is no reply to a query: those stay.          *)
LEMMA LookupPolled ==
    ASSUME TypeInv, NEW type, Receives(type), Head(inbox).command.name # Query,
           requests' = requests \/ \E c \in KnownCommands : Perform(c), Polled(requests, inbox)
    PROVE  Polled(requests', inbox')
<1>1. /\ Head(inbox) = inbox[1] /\ Len(inbox) \in Nat /\ Len(inbox') = Len(inbox) - 1
      /\ \A i \in 1..Len(inbox') : i + 1 \in 1..Len(inbox) /\ inbox'[i] = inbox[i + 1]
  BY ReceivesHead
<1>2. \A i \in 1..Len(requests) : i \in 1..Len(requests') /\ requests'[i] = requests[i]
  BY RequestsGrow DEF TypeInv
<1>3. CASE \E i \in 1..Len(requests) : requests[i].name = Query
  BY <1>2, <1>3 DEF Polled
<1>4. CASE \E i \in 1..Len(inbox) : inbox[i].command.name = Query
  <2>1. PICK i \in 1..Len(inbox) : inbox[i].command.name = Query
    BY <1>4
  <2>2. i # 1
    BY <1>1, <2>1
  <2>3. i - 1 \in 1..Len(inbox') /\ inbox'[i - 1] = inbox[i]
    BY <1>1, <2>2
  <2> QED
    BY <2>1, <2>3 DEF Polled
<1> QED
  BY <1>3, <1>4 DEF Polled

(* A message is received, and the session may take over its status and     *)
(* move the cursor within it.                                              *)
LEMMA ContinueKeeps ==
    ASSUME IInv, NEW type, Receives(type), SessionOK', requests' \in Seq(KnownCommands),
           UNCHANGED <<server, errors, ui>>,
           simulationStatus'.latestTime \in {simulationStatus.latestTime, Head(inbox).status.latestTime},
           timeCursor' = timeCursor \/ timeCursor' <= simulationStatus'.latestTime,
           held' \in BOOLEAN, PollerAlive', FirstPolled', StatusInv'
    PROVE  IInv'
<1>1. TypeInv /\ OrderInv /\ ErrorInv
  BY DEF IInv
<1>2. /\ Head(inbox) = inbox[1] /\ Len(inbox) \in Nat /\ 1 \in 1..Len(inbox)
      /\ inbox' \in Seq(KnownMessages) /\ Len(inbox') = Len(inbox) - 1
      /\ \A i \in 1..Len(inbox') : i + 1 \in 1..Len(inbox) /\ inbox'[i] = inbox[i + 1]
  BY <1>1, ReceivesHead
<1>3. TypeInv'
  <2>1. ui' \in 0..MaxUi
    BY <1>1 DEF TypeInv, TypeOK
  <2> QED
    BY <1>1, <1>2, <2>1, ContinueType
<1>4. /\ timeCursor \in Nat /\ timeCursor' \in Nat /\ server.latestTime \in Nat
      /\ simulationStatus.latestTime \in Nat /\ simulationStatus'.latestTime \in Nat
      /\ \A i \in 1..Len(inbox) : inbox[i].status.latestTime \in Nat
  <2>1. /\ timeCursor \in Nat /\ timeCursor' \in Nat /\ server.latestTime \in Nat
        /\ simulationStatus.latestTime \in Nat /\ simulationStatus'.latestTime \in Nat
    BY <1>1, TimeFacts DEF TypeInv, TypeOK, SessionOK, SimulationStatuses
  <2>2. \A i \in 1..Len(inbox) : inbox[i].status.latestTime \in Nat
    BY <1>1, MessageFacts DEF TypeInv
  <2> QED
    BY <2>1, <2>2
<1>5. OrderInv'
  <2>1. /\ timeCursor <= simulationStatus.latestTime
        /\ simulationStatus.latestTime <= inbox[1].status.latestTime
        /\ inbox[1].status.latestTime <= server.latestTime
        /\ \A i \in 1..Len(inbox) : inbox[1].status.latestTime <= inbox[i].status.latestTime
    BY <1>1, <1>2 DEF OrderInv, CursorInRange
  <2>2. CursorInRange' /\ simulationStatus'.latestTime <= server'.latestTime
    BY <1>2, <1>4, <2>1 DEF CursorInRange
  <2>3. \A i \in 1..Len(inbox') :
          /\ simulationStatus'.latestTime <= inbox'[i].status.latestTime
          /\ inbox'[i].status.latestTime <= server'.latestTime
    BY <1>1, <1>2, <1>4, <2>1 DEF OrderInv
  <2>4. ASSUME NEW i \in 1..Len(inbox'), NEW j \in 1..Len(inbox'), i <= j
        PROVE  inbox'[i].status.latestTime <= inbox'[j].status.latestTime
    <3>1. i + 1 \in 1..Len(inbox) /\ j + 1 \in 1..Len(inbox) /\ i + 1 <= j + 1
      BY <1>2, <2>4
    <3>2. inbox[i + 1].status.latestTime <= inbox[j + 1].status.latestTime
      BY <1>1, <3>1 DEF OrderInv
    <3> QED
      BY <1>2, <3>2
  <2> QED
    BY <2>2, <2>3, <2>4 DEF OrderInv
<1>6. ErrorInv'
  BY <1>1, <1>2 DEF ErrorInv
<1> QED
  BY <1>3, <1>5, <1>6 DEF IInv

(* A status reply is taken over, and its timer forgotten or started.       *)
LEMMA StatusReply ==
    ASSUME IInv, NEW thens, Answers(Query, thens), UpdateStatus(Head(inbox).status),
           ForgetTimer(Head(inbox).status)
    PROVE  /\ Receives("response")
           /\ Head(inbox) \in KnownMessages
           /\ Head(inbox).command.then \in thens
           /\ simulationStatus' \in SimulationStatuses
           /\ simulationStatus'.latestTime = Head(inbox).status.latestTime
           /\ simulationStatus'.latestTime \in Nat
           /\ simulationStatus'.status = Head(inbox).status.status
           /\ lostTimers' \in Nat
           /\ held' \in BOOLEAN
           /\ StatusInv' /\ FirstPolled'
<1>1. TypeInv /\ StatusInv /\ Receives("response") /\ Head(inbox).command.then \in thens
  BY DEF IInv, Answers
<1>2. Head(inbox) \in KnownMessages
  BY <1>1, ReceivesHead
<1>3. /\ Head(inbox).status \in SimulationStatuses /\ TellsNext(Head(inbox).status)
      /\ Head(inbox).status.latestTime \in Nat
  BY <1>2, MessageFacts
<1>4. simulationStatus \in SimulationStatuses /\ lostTimers \in Nat
  BY <1>1 DEF TypeInv, TypeOK
<1>5. /\ simulationStatus' \in SimulationStatuses
      /\ simulationStatus'.latestTime = Head(inbox).status.latestTime
      /\ simulationStatus'.status = Head(inbox).status.status
      /\ simulationStatus' # InitialStatus
      /\ StatusInv'
  BY <1>1, <1>3, <1>4, StatusTaken
<1>6. lostTimers' \in Nat
  BY <1>4 DEF ForgetTimer
<1>7. FirstPolled'
  BY <1>5 DEF FirstPolled
<1>8. held' \in BOOLEAN
  BY <1>1 DEF TypeInv, TypeOK, Answers
<1> QED
  BY <1>1, <1>2, <1>3, <1>5, <1>6, <1>7, <1>8

(* A status reply: the timer that is started keeps the polling alive.      *)
LEMMA OnStatusKeeps == IInv /\ OnStatus => IInv'
<1> SUFFICES ASSUME IInv, OnStatus PROVE IInv'
  OBVIOUS
<1>1. /\ Receives("response") /\ StatusInv' /\ FirstPolled' /\ held' \in BOOLEAN
      /\ simulationStatus' \in SimulationStatuses /\ lostTimers' \in Nat
      /\ simulationStatus'.latestTime = Head(inbox).status.latestTime
      /\ simulationStatus'.status = Head(inbox).status.status
  BY StatusReply DEF OnStatus, Query
<1>2. /\ requests' \in Seq(KnownCommands) /\ inbox' \in Seq(KnownMessages)
  BY <1>1, ReceivesHead DEF IInv, TypeInv, OnStatus
<1>3. SessionOK'
  BY <1>1 DEF IInv, TypeInv, TypeOK, SessionOK, OnStatus, StartTimer
<1>4. PollerAlive'
  BY <1>1, <1>2, StillPolled DEF OnStatus, StartTimer
<1> QED
  BY <1>1, <1>2, <1>3, <1>4, ContinueKeeps DEF OnStatus

(* The status reply within stepForward(): the next query keeps it alive.   *)
LEMMA OnStepStatusKeeps == IInv /\ OnStepStatus => IInv'
<1> SUFFICES ASSUME IInv, OnStepStatus PROVE IInv'
  OBVIOUS
<1>1. /\ Receives("response") /\ StatusInv' /\ FirstPolled' /\ held' \in BOOLEAN
      /\ Head(inbox) \in KnownMessages
      /\ Head(inbox).command.then = "stepRun"
      /\ simulationStatus' \in SimulationStatuses /\ lostTimers' \in Nat
      /\ simulationStatus'.latestTime = Head(inbox).status.latestTime
  BY StatusReply DEF OnStepStatus, Query
<1> DEFINE c == QueryStatus("stepQuery", Head(inbox).command.end)
<1>2. c \in KnownCommands /\ c.name = Query
  <2>1. Head(inbox).command.end \in Int /\ Head(inbox).command.end \in SampleTimes \cup {None}
    BY <1>1, MessageFacts
  <2> QED
    BY <2>1, QueryKnown DEF Query
<1>3. Perform(c) /\ timeout' = FALSE
  BY DEF OnStepStatus, QuerySimulationStatus
<1>4. /\ requests' \in Seq(KnownCommands) /\ inbox' \in Seq(KnownMessages)
      /\ Polled(requests', inbox')
  BY <1>1, <1>2, <1>3, Performs, QueryPolled, ReceivesHead DEF IInv, TypeInv
<1>5. SessionOK'
  BY <1>1, <1>3 DEF IInv, TypeInv, TypeOK, SessionOK, OnStepStatus
<1>6. PollerAlive'
  BY <1>4, StillPolled
<1> QED
  BY <1>1, <1>4, <1>5, <1>6, ContinueKeeps DEF OnStepStatus

(* The end of stepForward(): the cursor is set only within the new status. *)
LEMMA OnSteppedKeeps == IInv /\ OnStepped => IInv'
<1> SUFFICES ASSUME IInv, OnStepped PROVE IInv'
  OBVIOUS
<1> DEFINE next == Head(inbox).command.end
<1>1. /\ Receives("response") /\ StatusInv' /\ FirstPolled' /\ held' \in BOOLEAN
      /\ Head(inbox) \in KnownMessages
      /\ Head(inbox).command.then = "stepQuery"
      /\ simulationStatus' \in SimulationStatuses /\ lostTimers' \in Nat
      /\ simulationStatus'.latestTime \in Nat
      /\ simulationStatus'.latestTime = Head(inbox).status.latestTime
      /\ simulationStatus'.status = Head(inbox).status.status
  BY StatusReply DEF OnStepped, Query
<1>2. /\ requests' \in Seq(KnownCommands) /\ inbox' \in Seq(KnownMessages)
  BY <1>1, ReceivesHead DEF IInv, TypeInv, OnStepped
<1>3. next \in SampleTimes \cup {None}
  BY <1>1, MessageFacts
<1>4. timeCursor \in Times /\ thrown \subseteq {"RangeError", "TypeError"}
  BY DEF IInv, TypeInv, TypeOK
<1>5. /\ timeCursor' \in Times /\ thrown' \subseteq {"RangeError", "TypeError"}
      /\ timeCursor' = timeCursor \/ timeCursor' <= simulationStatus'.latestTime
  <2>1. CASE next = None /\ thrown' = thrown \cup {"TypeError"} /\ UNCHANGED timeCursor
    BY <1>4, <2>1
  <2>2. CASE next # None /\ SetTimeCursor(next, simulationStatus'.latestTime)
    <3>1. next \in Times
      BY <1>3, <2>2, TimeFacts
    <3> QED
      BY <1>1, <1>4, <2>2, <3>1, CursorSet
  <2>3. CASE UNCHANGED <<timeCursor, thrown>>
    BY <1>4, <2>3
  <2> QED
    BY <2>1, <2>2, <2>3 DEF OnStepped
<1>6. SessionOK'
  BY <1>1, <1>5 DEF IInv, TypeInv, TypeOK, SessionOK, OnStepped, StartTimer
<1>7. PollerAlive'
  BY <1>1, <1>2, StillPolled DEF OnStepped, StartTimer
<1> QED
  BY <1>1, <1>2, <1>5, <1>6, <1>7, ContinueKeeps DEF OnStepped

(* The continuations that do nothing but query the status.                 *)
LEMMA QueryKeeps ==
    ASSUME IInv, NEW type, Receives(type),
           NEW c \in KnownCommands, c.name = Query, Perform(c), timeout' = FALSE, held' \in BOOLEAN,
           UNCHANGED <<simulationStatus, lostTimers, timeCursor, forwardTimeStep,
                       server, ui, errors, thrown>>
    PROVE  IInv'
<1>1. /\ requests' \in Seq(KnownCommands) /\ inbox' \in Seq(KnownMessages)
      /\ Polled(requests', inbox')
  BY Performs, QueryPolled, ReceivesHead DEF IInv, TypeInv
<1>2. SessionOK'
  BY DEF IInv, TypeInv, TypeOK, SessionOK
<1>3. PollerAlive' /\ FirstPolled'
  BY <1>1, StillPolled DEF FirstPolled
<1>4. StatusInv'
  BY DEF IInv, StatusInv, NextKnown, Later
<1> QED
  BY <1>1, <1>2, <1>3, <1>4, ContinueKeeps

(* A run or a pause is answered: the query that follows keeps it alive.    *)
LEMMA OnRunOrPauseKeeps == IInv /\ OnRunOrPause => IInv'
<1> SUFFICES ASSUME IInv, OnRunOrPause PROVE IInv'
  OBVIOUS
<1> DEFINE c == QueryStatus(Head(inbox).command.then, Head(inbox).command.end)
<1>1. Receives("response") /\ Head(inbox).command.then \in {"run", "stepRun"}
  BY DEF OnRunOrPause, Answers
<1>2. Head(inbox) \in KnownMessages
  BY <1>1, ReceivesHead DEF IInv
<1>3. c \in KnownCommands /\ c.name = Query
  BY <1>1, <1>2, MessageFacts, QueryKnown DEF Query
<1>4. Perform(c) /\ timeout' = FALSE
  BY DEF OnRunOrPause, QuerySimulationStatus
<1>5. held' \in BOOLEAN
  BY DEF OnRunOrPause, Answers, IInv, TypeInv, TypeOK
<1> QED
  BY <1>1, <1>3, <1>4, <1>5, QueryKeeps DEF OnRunOrPause

(* An event clears a timer, and polls in its place.                        *)
LEMMA OnEventKeeps == IInv /\ OnEvent => IInv'
<1> SUFFICES ASSUME IInv, OnEvent PROVE IInv'
  OBVIOUS
<1>1. QueryStatus("poll", None) \in KnownCommands /\ QueryStatus("poll", None).name = Query
  BY QueryKnown DEF Query, None
<1>2. Perform(QueryStatus("poll", None)) /\ timeout' = FALSE /\ Receives("event")
  BY DEF OnEvent, QuerySimulationStatus
<1> QED
  BY <1>1, <1>2, QueryKeeps DEF OnEvent

(* The lookups: another message than a status reply is received, and       *)
(* requests are only added.                                                *)
LEMMA LookupKeeps ==
    ASSUME IInv, NEW type, Receives(type), SessionOK',
           Head(inbox).command.name # Query \/ errors # 0,
           requests' = requests \/ \E c \in KnownCommands : Perform(c),
           UNCHANGED <<simulationStatus, timeout, lostTimers, held, server, ui, errors>>,
           timeCursor' = timeCursor \/ timeCursor' <= simulationStatus.latestTime
    PROVE  IInv'
<1>1. TypeInv /\ PollerAlive
  BY DEF IInv
<1>2. /\ Head(inbox) = inbox[1] /\ Len(inbox) \in Nat /\ 1 \in 1..Len(inbox)
      /\ inbox' \in Seq(KnownMessages) /\ Len(inbox') = Len(inbox) - 1
      /\ \A i \in 1..Len(inbox') : i + 1 \in 1..Len(inbox) /\ inbox'[i] = inbox[i + 1]
  BY <1>1, ReceivesHead
<1>3. requests' \in Seq(KnownCommands)
  BY <1>1, RequestsGrow DEF TypeInv
<1>4. PollerAlive' /\ FirstPolled'
  <2>1. errors = 0 /\ Polled(requests, inbox) => Polled(requests', inbox')
    BY <1>1, LookupPolled
  <2>2. PollerAlive'
    BY <1>1, <1>2, <1>3, <2>1, StillPolled, WhoPolls
  <2>3. FirstPolled'
    BY <2>1 DEF IInv, FirstPolled
  <2> QED
    BY <2>2, <2>3
<1>5. StatusInv' /\ held' \in BOOLEAN
  BY DEF IInv, TypeInv, TypeOK, StatusInv, NextKnown, Later
<1> QED
  BY <1>3, <1>4, <1>5, ContinueKeeps

(* What stepForward() and stepBackward() have found.                       *)
LEMMA Found ==
    ASSUME TypeInv, NEW thens, Answers("query_interval", thens)
    PROVE  /\ Receives("response")
           /\ Head(inbox).command.name = "query_interval"
           /\ Head(inbox).command.name # Query
           /\ Head(inbox).command.then \in thens
           /\ Head(inbox).command.begin \in Nat
           /\ Head(inbox).command.end \in Int
           /\ Head(inbox).status.latestTime \in Nat
           /\ Head(inbox).samples =
                Recorded(Head(inbox).command.begin, Head(inbox).command.end, Head(inbox).status.latestTime)
<1>1. /\ Receives("response") /\ Head(inbox).command.name = "query_interval"
      /\ Head(inbox).command.then \in thens
  BY DEF Answers
<1>2. Head(inbox) \in KnownMessages /\ Head(inbox).type = "response"
  BY <1>1, ReceivesHead
<1> QED
  BY <1>1, <1>2, MessageFacts, TimeFacts DEF Query

(* The lookup of stepForward(): the setter refuses what is out of range.   *)
LEMMA OnForwardKeeps == IInv /\ OnForward => IInv'
<1> SUFFICES ASSUME IInv, OnForward PROVE IInv'
  OBVIOUS
<1> DEFINE samples == Head(inbox).samples
<1>1. /\ Receives("response") /\ Head(inbox).command.name # Query
      /\ Head(inbox).command.begin \in Nat /\ Head(inbox).command.end \in Int
      /\ Head(inbox).status.latestTime \in Nat
      /\ samples = Recorded(Head(inbox).command.begin, Head(inbox).command.end, Head(inbox).status.latestTime)
  BY Found DEF OnForward, IInv
<1>2. /\ timeCursor \in Times /\ thrown \subseteq {"RangeError", "TypeError"}
      /\ forwardTimeStep \in Nat \ {0} /\ simulationStatus.latestTime \in Nat
  BY TimeFacts DEF IInv, TypeInv, TypeOK, SimulationStatuses
<1>3. /\ UNCHANGED <<simulationStatus, timeout, lostTimers, held, server, ui, errors>>
      /\ \/ Cardinality(samples) = 1 /\ forwardTimeStep' = Doubled /\ LookAhead(Doubled)
             /\ UNCHANGED <<timeCursor, thrown>>
         \/ Cardinality(samples) > 1 /\ SetTimeCursor(Second(samples), simulationStatus.latestTime)
             /\ UNCHANGED <<forwardTimeStep, requests>>
  BY DEF OnForward, Answers
<1>4. CASE LookAhead(Doubled) /\ forwardTimeStep' = Doubled /\ UNCHANGED <<timeCursor, thrown>>
  <2>1. Doubled \in Nat \ {0}
    BY <1>2, TimeFacts DEF Doubled
  <2>2. \E c \in KnownCommands : Perform(c)
    BY <1>4, <2>1, UserKnown DEF LookAhead, IInv
  <2>3. SessionOK'
    BY <1>3, <1>4, <2>1 DEF IInv, TypeInv, TypeOK, SessionOK
  <2> QED
    BY <1>1, <1>3, <1>4, <2>2, <2>3, LookupKeeps
<1>5. CASE /\ Cardinality(samples) > 1 /\ SetTimeCursor(Second(samples), simulationStatus.latestTime)
           /\ UNCHANGED <<forwardTimeStep, requests>>
  <2>1. Second(samples) \in Times
    BY <1>1, <1>5, RecordedSamples, TimeFacts
  <2>2. /\ timeCursor' \in Times /\ thrown' \subseteq {"RangeError", "TypeError"}
        /\ timeCursor' = timeCursor \/ timeCursor' <= simulationStatus.latestTime
    BY <1>2, <1>5, <2>1, CursorSet
  <2>3. SessionOK'
    BY <1>3, <1>5, <2>2 DEF IInv, TypeInv, TypeOK, SessionOK
  <2> QED
    BY <1>1, <1>3, <1>5, <2>2, <2>3, LookupKeeps
<1> QED
  BY <1>3, <1>4, <1>5

(* The lookup of stepBackward(), likewise.                                 *)
LEMMA OnBackwardKeeps == IInv /\ OnBackward => IInv'
<1> SUFFICES ASSUME IInv, OnBackward PROVE IInv'
  OBVIOUS
<1> DEFINE samples == Head(inbox).samples
<1>1. /\ Receives("response") /\ Head(inbox).command.name # Query
      /\ Head(inbox).command.begin \in Nat /\ Head(inbox).command.end \in Int
      /\ Head(inbox).status.latestTime \in Nat
      /\ samples = Recorded(Head(inbox).command.begin, Head(inbox).command.end, Head(inbox).status.latestTime)
  BY Found DEF OnBackward, IInv
<1>2. /\ timeCursor \in Times /\ thrown \subseteq {"RangeError", "TypeError"}
      /\ simulationStatus.latestTime \in Nat
  BY TimeFacts DEF IInv, TypeInv, TypeOK, SimulationStatuses
<1>3. Min(samples) \in Times
  <2>1. Min(samples) = InEffect(Head(inbox).command.begin, Head(inbox).status.latestTime)
    BY <1>1, RecordedSamples
  <2>2. Min(samples) \in SampleTimes
    BY <1>1, <2>1, InEffectIsLast
  <2> QED
    BY <2>2, TimeFacts
<1>4. /\ timeCursor' \in Times /\ thrown' \subseteq {"RangeError", "TypeError"}
      /\ timeCursor' = timeCursor \/ timeCursor' <= simulationStatus.latestTime
  BY <1>2, <1>3, CursorSet DEF OnBackward
<1>5. SessionOK'
  BY <1>4 DEF IInv, TypeInv, TypeOK, SessionOK, OnBackward
<1> QED
  BY <1>1, <1>4, <1>5, LookupKeeps DEF OnBackward, Answers

(* An error may end the polling: PollerAlive promises nothing after it.    *)
LEMMA OnErrorKeeps == IInv /\ OnError => IInv'
<1> SUFFICES ASSUME IInv, OnError PROVE IInv'
  OBVIOUS
<1>1. Receives("error") /\ UNCHANGED <<sessionVars, requests, held, server, ui, errors, thrown>>
  BY DEF OnError
<1>2. errors # 0
  <2>1. inbox[1].type = "error" /\ 1 \in 1..Len(inbox)
    BY <1>1, ReceivesHead DEF IInv
  <2>2. errors > 0 /\ errors \in Nat
    BY <2>1, SessionAssumption DEF IInv, ErrorInv, TypeInv, TypeOK
  <2> QED
    BY <2>2
<1>3. SessionOK'
  BY <1>1 DEF IInv, TypeInv, TypeOK, SessionOK, sessionVars
<1> QED
  BY <1>1, <1>2, <1>3, LookupKeeps DEF sessionVars

-----------------------------------------------------------------------------
(* Timers, the user and the simulation.                                    *)

(* A step that sends commands, or none, and leaves the messages alone.     *)
LEMMA SendKeeps ==
    ASSUME IInv, SessionOK', ui' \in 0..MaxUi,
           requests' = requests \/ \E c \in KnownCommands : Perform(c),
           UNCHANGED <<simulationStatus, inbox, held, server, errors>>,
           \/ UNCHANGED <<timeout, lostTimers>>
           \/ \E c \in KnownCommands : c.name = Query /\ Perform(c),
           timeCursor' = timeCursor \/ timeCursor' <= simulationStatus.latestTime
    PROVE  IInv'
<1>1. TypeInv /\ OrderInv /\ ErrorInv /\ PollerAlive
  BY DEF IInv
<1>2. inbox \in Seq(KnownMessages) /\ inbox' \in Seq(KnownMessages)
  BY <1>1 DEF TypeInv
<1>3. /\ requests' \in Seq(KnownCommands)
      /\ Polled(requests, inbox) => Polled(requests', inbox')
  BY <1>1, RequestsGrow DEF TypeInv, Polled
<1>4. TypeInv'
  <2>1. held' \in BOOLEAN
    BY <1>1 DEF TypeInv, TypeOK
  <2> QED
    BY <1>1, <1>2, <1>3, <2>1, ContinueType
<1>5. PollerAlive' /\ FirstPolled'
  <2>1. CASE UNCHANGED <<timeout, lostTimers>>
    BY <1>1, <1>2, <1>3, <2>1, StillPolled, WhoPolls DEF IInv, FirstPolled
  <2>2. CASE \E c \in KnownCommands : c.name = Query /\ Perform(c)
    <3>1. Polled(requests', inbox')
      BY <1>1, <2>2, QueryPolled DEF TypeInv
    <3> QED
      BY <1>2, <1>3, <3>1, StillPolled DEF FirstPolled
  <2> QED
    BY <2>1, <2>2
<1>6. OrderInv' /\ ErrorInv'
  BY <1>1 DEF OrderInv, ErrorInv, CursorInRange
<1>7. StatusInv'
  BY DEF IInv, StatusInv, NextKnown, Later
<1> QED
  BY <1>4, <1>5, <1>6, <1>7 DEF IInv

(* A timer that fires is replaced by the query it makes.                   *)
LEMMA TimerFiresKeeps == IInv /\ TimerFires => IInv'
<1> SUFFICES ASSUME IInv, TimerFires PROVE IInv'
  OBVIOUS
<1>1. QueryStatus("poll", None) \in KnownCommands /\ QueryStatus("poll", None).name = Query
  BY QueryKnown DEF Query, None
<1>2. Perform(QueryStatus("poll", None))
  BY DEF TimerFires, QuerySimulationStatus
<1>3. SessionOK' /\ ui' \in 0..MaxUi
  <2>1. lostTimers' \in Nat
    BY DEF IInv, TypeInv, TypeOK, TimerFires
  <2>2. timeout' \in BOOLEAN
    BY DEF TimerFires, QuerySimulationStatus
  <2> QED
    BY <2>1, <2>2 DEF IInv, TypeInv, TypeOK, SessionOK, TimerFires
<1> QED
  BY <1>1, <1>2, <1>3, SendKeeps DEF TimerFires

(* Whatever the user asks for.                                             *)
LEMMA UserKeeps == IInv /\ User => IInv'
<1> SUFFICES ASSUME IInv, User PROVE IInv'
  OBVIOUS
<1>1. TypeInv /\ TypeOK
  BY DEF IInv, TypeInv
<1>2. ASSUME UserCommand
      PROVE  ui' \in 0..MaxUi /\ UNCHANGED <<inbox, held, server, errors>>
  BY <1>1, <1>2, SessionAssumption DEF UserCommand, TypeOK
<1>3. ASSUME UserCommand, UNCHANGED <<sessionVars, thrown>>, \E c \in KnownCommands : Perform(c)
      PROVE  IInv'
  <2>1. SessionOK'
    BY <1>1, <1>3 DEF TypeOK, SessionOK, sessionVars
  <2> QED
    BY <1>2, <1>3, <2>1, SendKeeps DEF sessionVars
<1>4. CASE RunSimulation
  BY <1>1, <1>3, <1>4, UserKnown DEF RunSimulation
<1>5. CASE \E t \in SampleTimes : RunSimulationUntil(t)
  BY <1>1, <1>3, <1>5, UserKnown DEF RunSimulationUntil
<1>6. CASE PauseSimulation
  BY <1>1, <1>3, <1>6, UserKnown DEF PauseSimulation
<1>7. CASE StepForward
  <2>1. forwardTimeStep \in Nat
    BY <1>1 DEF TypeOK
  <2>2. \E c \in KnownCommands : Perform(c)
    BY <1>1, <1>7, <2>1, UserKnown DEF StepForward, LookAhead
  <2> QED
    BY <1>3, <1>7, <2>2 DEF StepForward
<1>8. CASE StepBackward
  BY <1>1, <1>3, <1>8, UserKnown DEF StepBackward
<1>9. CASE \E t \in Times : GoToTime(t)
  <2>1. PICK t \in Times : GoToTime(t)
    BY <1>9
  <2>2. simulationStatus.latestTime \in Nat
    BY <1>1, TimeFacts DEF TypeOK, SimulationStatuses
  <2>3. /\ timeCursor' \in Times /\ thrown' \subseteq {"RangeError", "TypeError"}
        /\ timeCursor' = timeCursor \/ timeCursor' <= simulationStatus.latestTime
    BY <1>1, <2>1, <2>2, CursorSet DEF GoToTime, TypeOK
  <2>4. SessionOK'
    BY <1>1, <2>1, <2>3 DEF GoToTime, TypeOK, SessionOK
  <2> QED
    BY <1>2, <2>1, <2>3, <2>4, SendKeeps DEF GoToTime
<1> QED
  BY <1>4, <1>5, <1>6, <1>7, <1>8, <1>9 DEF User

(* The simulation says something: its status is the latest.                *)
LEMMA MessageKeeps ==
    ASSUME IInv, NEW m \in KnownMessages, m.status.latestTime = server.latestTime,
           inbox' = Append(inbox, m),
           \/ requests' = requests
           \/ requests # <<>> /\ requests' = Tail(requests) /\ m.command = Head(requests),
           server' \in [status : Statuses, latestTime : SampleTimes, until : Times \cup {None}],
           server'.latestTime = server.latestTime,
           server'.status = "paused" => HasNext,
           errors' \in 0..MaxErrors, errors' >= errors, m.type = "error" => errors' > 0,
           UNCHANGED <<sessionVars, held, ui, thrown>>
    PROVE  IInv'
<1>1. TypeInv /\ OrderInv /\ ErrorInv /\ PollerAlive
  BY DEF IInv
<1>2. /\ inbox \in Seq(KnownMessages) /\ inbox' \in Seq(KnownMessages)
      /\ Len(inbox) \in Nat /\ Len(inbox') = Len(inbox) + 1 /\ inbox'[Len(inbox) + 1] = m
      /\ \A i \in 1..Len(inbox) : inbox'[i] = inbox[i]
  BY <1>1 DEF TypeInv
<1>3. requests \in Seq(KnownCommands) /\ requests' \in Seq(KnownCommands)
  <2>1. requests \in Seq(KnownCommands)
    BY <1>1 DEF TypeInv
  <2>2. requests # <<>> => Tail(requests) \in Seq(KnownCommands)
    BY <2>1
  <2> QED
    BY <2>1, <2>2
<1>4. TypeInv'
  <2>1. requests' \in Seq(Commands) /\ inbox' \in Seq(Messages)
    <3>1. KnownCommands \subseteq Commands /\ KnownMessages \subseteq Messages
      BY DEF KnownCommands, KnownMessages
    <3> QED
      BY <1>2, <1>3, <3>1
  <2>2. server'.status = "paused" => HasNext'
    BY DEF HasNext, Later
  <2> QED
    BY <1>1, <1>2, <1>3, <2>1, <2>2 DEF TypeInv, TypeOK, sessionVars
<1>5. PollerAlive' /\ FirstPolled'
  <2>1. ASSUME Polled(requests, inbox) PROVE Polled(requests', inbox')
    <3>1. CASE \E i \in 1..Len(inbox) : inbox[i].command.name = Query
      BY <1>2, <3>1 DEF Polled
    <3>2. CASE \E i \in 1..Len(requests) : requests[i].name = Query
      <4>1. PICK i \in 1..Len(requests) : requests[i].name = Query
        BY <3>2
      <4>2. CASE requests' = requests
        BY <4>1, <4>2 DEF Polled
      <4>3. CASE requests # <<>> /\ requests' = Tail(requests) /\ m.command = Head(requests)
        <5>1. CASE i = 1
          <6>1. m.command.name = Query
            BY <1>3, <4>1, <4>3, <5>1
          <6> QED
            BY <1>2, <6>1 DEF Polled
        <5>2. CASE i # 1
          <6>1. i - 1 \in 1..Len(requests') /\ requests'[i - 1] = requests[i]
            BY <1>3, <4>3, <5>2
          <6> QED
            BY <4>1, <6>1 DEF Polled
        <5> QED
          BY <5>1, <5>2
      <4> QED
        BY <4>2, <4>3
    <3> QED
      BY <2>1, <3>1, <3>2 DEF Polled
  <2>2. errors' # 0 \/ errors = 0
    BY <1>1, SessionAssumption DEF TypeInv, TypeOK
  <2>3. PollerAlive'
    BY <1>1, <1>2, <1>3, <2>1, <2>2, StillPolled, WhoPolls DEF sessionVars
  <2>4. FirstPolled'
    BY <2>1, <2>2 DEF IInv, FirstPolled, sessionVars
  <2> QED
    BY <2>3, <2>4
<1>6. OrderInv'
  <2>1. CursorInRange' /\ simulationStatus'.latestTime <= server'.latestTime
    BY <1>1 DEF OrderInv, CursorInRange, sessionVars
  <2>2. ASSUME NEW i \in 1..Len(inbox')
        PROVE  /\ simulationStatus'.latestTime <= inbox'[i].status.latestTime
               /\ inbox'[i].status.latestTime <= server'.latestTime
    <3>1. CASE i \in 1..Len(inbox)
      BY <1>1, <1>2, <3>1 DEF OrderInv, sessionVars
    <3>2. CASE i = Len(inbox) + 1
      <4>1. inbox'[i].status.latestTime = server.latestTime /\ server.latestTime \in Nat
        BY <1>1, <1>2, <3>2, TimeFacts DEF TypeInv, TypeOK
      <4> QED
        BY <2>1, <4>1
    <3> QED
      BY <1>2, <3>1, <3>2
  <2>3. ASSUME NEW i \in 1..Len(inbox'), NEW j \in 1..Len(inbox'), i <= j
        PROVE  inbox'[i].status.latestTime <= inbox'[j].status.latestTime
    <3>1. CASE j \in 1..Len(inbox)
      <4>1. i \in 1..Len(inbox)
        BY <1>2, <2>3, <3>1
      <4>2. inbox[i].status.latestTime <= inbox[j].status.latestTime
        BY <1>1, <2>3, <3>1, <4>1 DEF OrderInv
      <4> QED
        BY <1>2, <3>1, <4>1, <4>2
    <3>2. CASE j = Len(inbox) + 1
      BY <1>2, <2>2, <3>2
    <3> QED
      BY <1>2, <3>1, <3>2
  <2> QED
    BY <2>1, <2>2, <2>3 DEF OrderInv
<1>7. ErrorInv'
  <2> SUFFICES ASSUME NEW i \in 1..Len(inbox'), inbox'[i].type = "error"
               PROVE  errors' > 0
    BY DEF ErrorInv
  <2>1. CASE i \in 1..Len(inbox)
    <3>1. errors > 0
      BY <1>1, <1>2, <2>1 DEF ErrorInv
    <3>2. errors \in Nat /\ errors' \in Nat
      BY <1>1, SessionAssumption DEF TypeInv, TypeOK
    <3> QED
      BY <3>1, <3>2
  <2>2. CASE i = Len(inbox) + 1
    BY <1>2, <2>2
  <2> QED
    BY <1>2, <2>1, <2>2
<1>8. StatusInv'
  BY DEF IInv, StatusInv, NextKnown, Later, sessionVars
<1> QED
  BY <1>4, <1>5, <1>6, <1>7, <1>8 DEF IInv

(* The samples of a query are those recorded when it is answered.          *)
LEMMA SamplesRecorded ==
    ASSUME NEW begin, NEW end
    PROVE  SamplesIn(begin, end) = Recorded(begin, end, server.latestTime)
<1>1. {t \in {u \in SampleTimes : u <= server.latestTime} : t <= begin}
        = {t \in SampleTimes : t <= server.latestTime /\ t <= begin}
  OBVIOUS
<1>2. {t \in {u \in SampleTimes : u <= server.latestTime} : begin < t /\ t <= end}
        = {t \in SampleTimes : t <= server.latestTime /\ begin < t /\ t <= end}
  OBVIOUS
<1> QED
  BY <1>1, <1>2 DEF SamplesIn, Recorded, InEffect

(* The messages the simulation sends are known messages.                   *)
LEMMA MessageKnown ==
    ASSUME TypeInv, NEW type \in {"response", "error", "event"}, NEW c \in KnownCommands,
           NEW samples \in SUBSET SampleTimes,
           type = "response" /\ c.name = "query_interval" =>
               samples = Recorded(c.begin, c.end, server.latestTime)
    PROVE  /\ Message(type, c, ServerStatus, samples) \in KnownMessages
           /\ Message(type, c, ServerStatus, samples).status.latestTime = server.latestTime
           /\ Message(type, c, ServerStatus, samples).type = type
           /\ Message(type, c, ServerStatus, samples).command = c
<1> DEFINE m == Message(type, c, ServerStatus, samples)
<1>1. /\ m.type = type /\ m.command = c /\ m.status = ServerStatus /\ m.samples = samples
      /\ m = [type |-> type, command |-> c, status |-> ServerStatus, samples |-> samples]
  BY DEF Message
<1>2. /\ ServerStatus \in SimulationStatuses /\ TellsNext(ServerStatus)
      /\ ServerStatus.latestTime = server.latestTime
  BY ServerTells
<1>3. c \in Commands
  BY DEF KnownCommands
<1>4. m \in Messages
  BY <1>1, <1>2, <1>3 DEF Messages
<1> QED
  BY <1>1, <1>2, <1>4 DEF KnownMessages

(* A simulation that stops is paused only if there is more to simulate.    *)
LEMMA StoppedType ==
    Stopped \in Statuses /\ (Stopped = "paused" => HasNext)
  BY DEF Stopped, Statuses

ServerStates == [status : Statuses, latestTime : SampleTimes, until : Times \cup {None}]

(* What commands do to the simulation.                                     *)
LEMMA ExecuteType ==
    ASSUME TypeInv, NEW c \in KnownCommands
    PROVE  /\ Execute(c) \in ServerStates
           /\ Execute(c).latestTime = server.latestTime
           /\ Execute(c).status = "paused" => HasNext
<1>1. server \in ServerStates /\ (server.status = "paused" => HasNext)
  BY DEF TypeInv, TypeOK, ServerStates
<1>2. CASE c.name = "run_simulation" /\ server.status # "finished"
  <2>1. c.end \in Times \cup {None}
    BY <1>2 DEF KnownCommands
  <2>2. Execute(c) = [server EXCEPT !.status = "running", !.until = c.end]
    BY <1>2 DEF Execute
  <2>3. Execute(c) = [status |-> "running", latestTime |-> server.latestTime, until |-> c.end]
    BY <1>1, <2>2 DEF ServerStates
  <2> QED
    BY <1>1, <2>1, <2>3 DEF ServerStates, Statuses
<1>3. CASE c.name = "pause_simulation" /\ server.status = "running"
  <2>1. Execute(c) = [server EXCEPT !.status = Stopped]
    BY <1>3 DEF Execute
  <2>2. Execute(c) = [status |-> Stopped, latestTime |-> server.latestTime, until |-> server.until]
    BY <1>1, <2>1 DEF ServerStates
  <2> QED
    BY <1>1, <2>2, StoppedType DEF ServerStates
<1>4. CASE /\ ~(c.name = "run_simulation" /\ server.status # "finished")
           /\ ~(c.name = "pause_simulation" /\ server.status = "running")
  <2>1. Execute(c) = server
    BY <1>4 DEF Execute
  <2> QED
    BY <1>1, <2>1
<1> QED
  BY <1>2, <1>3, <1>4

(* An answer carries the status and the samples of the moment.             *)
LEMMA ServerAnswerKeeps == IInv /\ ServerAnswer => IInv'
<1> SUFFICES ASSUME IInv, ServerAnswer PROVE IInv'
  OBVIOUS
<1> DEFINE c == Head(requests)
           samples == IF c.name = "query_interval" THEN SamplesIn(c.begin, c.end) ELSE {}
           m == Message("response", c, ServerStatus, samples)
<1>1. TypeInv
  BY DEF IInv
<1>2. /\ requests # <<>> /\ server' = Execute(c) /\ inbox' = Append(inbox, m)
      /\ requests' = Tail(requests) /\ UNCHANGED <<sessionVars, ui, errors, thrown, held>>
  BY DEF ServerAnswer
<1>3. c \in KnownCommands
  BY <1>1, <1>2 DEF TypeInv
<1>4. /\ samples \in SUBSET SampleTimes
      /\ c.name = "query_interval" => samples = Recorded(c.begin, c.end, server.latestTime)
  <2>1. CASE c.name = "query_interval"
    <3>1. samples = Recorded(c.begin, c.end, server.latestTime)
      BY <2>1, SamplesRecorded
    <3>2. c.begin \in Nat /\ c.end \in Int /\ server.latestTime \in Nat
      BY <1>1, <1>3, <2>1, TimeFacts DEF KnownCommands, Commands, TypeInv, TypeOK
    <3>3. samples \in SUBSET SampleTimes
      BY <3>1, <3>2, RecordedSamples
    <3> QED
      BY <3>1, <3>3
  <2>2. CASE c.name # "query_interval"
    BY <2>2
  <2> QED
    BY <2>1, <2>2
<1>5. /\ m \in KnownMessages /\ m.status.latestTime = server.latestTime
      /\ m.type = "response" /\ m.command = c
  BY <1>1, <1>3, <1>4, MessageKnown
<1>6. /\ server' \in ServerStates /\ server'.latestTime = server.latestTime
      /\ server'.status = "paused" => HasNext
  BY <1>1, <1>2, <1>3, ExecuteType
<1>7. errors' \in 0..MaxErrors /\ errors' >= errors
  BY <1>1, <1>2, SessionAssumption DEF TypeInv, TypeOK
<1> HIDE DEF c, m
<1> QED
  BY <1>2, <1>5, <1>6, <1>7, MessageKeeps DEF c, ServerStates

(* An error is counted before it reaches the session.                      *)
LEMMA ServerErrorKeeps == IInv /\ ServerError => IInv'
<1> SUFFICES ASSUME IInv, ServerError PROVE IInv'
  OBVIOUS
<1> DEFINE c == Head(requests)
           m == Message("error", c, ServerStatus, {})
<1>1. TypeInv
  BY DEF IInv
<1>2. /\ requests # <<>> /\ inbox' = Append(inbox, m) /\ errors < MaxErrors /\ errors' = errors + 1
      /\ requests' = Tail(requests) /\ UNCHANGED <<sessionVars, server, ui, thrown, held>>
  BY DEF ServerError
<1>3. c \in KnownCommands
  BY <1>1, <1>2 DEF TypeInv
<1>4. /\ m \in KnownMessages /\ m.status.latestTime = server.latestTime /\ m.command = c
  BY <1>1, <1>3, MessageKnown
<1>5. server \in ServerStates /\ (server.status = "paused" => HasNext)
  BY <1>1 DEF TypeInv, TypeOK, ServerStates
<1>6. errors' \in 0..MaxErrors /\ errors' >= errors /\ errors' > 0
  BY <1>1, <1>2, SessionAssumption DEF TypeInv, TypeOK
<1> HIDE DEF c, m
<1> QED
  BY <1>2, <1>4, <1>5, <1>6, MessageKeeps DEF c, ServerStates

(* The simulation stops by itself: paused only if a sample follows.        *)
LEMMA ServerStopKeeps == IInv /\ ServerStop => IInv'
<1> SUFFICES ASSUME IInv, ServerStop PROVE IInv'
  OBVIOUS
<1> DEFINE c == QueryStatus("poll", None)
           m == Message("event", c, ServerStatus, {})
<1>1. TypeInv
  BY DEF IInv
<1>2. /\ inbox' = Append(inbox, m) /\ server' = [server EXCEPT !.status = Stopped]
      /\ UNCHANGED <<sessionVars, requests, ui, errors, thrown, held>>
  BY DEF ServerStop
<1>3. c \in KnownCommands
  BY QueryKnown DEF None
<1>4. /\ m \in KnownMessages /\ m.status.latestTime = server.latestTime /\ m.type = "event"
  BY <1>1, <1>3, MessageKnown
<1>5. server' = [status |-> Stopped, latestTime |-> server.latestTime, until |-> server.until]
  BY <1>1, <1>2 DEF TypeInv, TypeOK
<1>6. /\ server' \in ServerStates /\ server'.latestTime = server.latestTime
      /\ server'.status = "paused" => HasNext
  BY <1>1, <1>5, StoppedType DEF TypeInv, TypeOK, ServerStates
<1>7. errors' \in 0..MaxErrors /\ errors' >= errors
  BY <1>1, <1>2, SessionAssumption DEF TypeInv, TypeOK
<1> HIDE DEF c, m
<1> QED
  BY <1>2, <1>4, <1>6, <1>7, MessageKeeps DEF ServerStates

(* The simulation advances: its time only grows.                           *)
LEMMA ServerAdvanceKeeps == IInv /\ ServerAdvance => IInv'
<1> SUFFICES ASSUME IInv, ServerAdvance PROVE IInv'
  OBVIOUS
<1>1. TypeInv /\ OrderInv
  BY DEF IInv
<1>2. server \in ServerStates /\ server.status = "running" /\ server.latestTime \in Nat
  BY <1>1, TimeFacts DEF TypeInv, TypeOK, ServerStates, ServerAdvance
<1>3. NextSampleTime \in SampleTimes /\ NextSampleTime > server.latestTime
  BY <1>2, NextSample DEF ServerAdvance, HasNext, NextSampleTime
<1>4. server' = [status |-> "running", latestTime |-> NextSampleTime, until |-> server.until]
  BY <1>2 DEF ServerAdvance, ServerStates
<1>5. server' \in ServerStates /\ server'.status = "running" /\ server'.latestTime > server.latestTime
  BY <1>2, <1>3, <1>4 DEF ServerStates
<1>6. TypeInv'
  BY <1>1, <1>5 DEF TypeInv, TypeOK, ServerStates, ServerAdvance, sessionVars
<1>7. OrderInv'
  <2>1. server'.latestTime \in Nat
    BY <1>5, TimeFacts DEF ServerStates
  <2>2. simulationStatus.latestTime \in Nat
    BY <1>1, TimeFacts DEF TypeInv, TypeOK, SimulationStatuses
  <2>3. \A i \in 1..Len(inbox) : inbox[i].status.latestTime \in Nat
    BY <1>1, MessageFacts DEF TypeInv
  <2> QED
    BY <1>1, <1>2, <1>5, <2>1, <2>2, <2>3 DEF OrderInv, CursorInRange, ServerAdvance, sessionVars
<1>8. ErrorInv' /\ PollerAlive' /\ FirstPolled' /\ StatusInv'
  BY DEF IInv, ErrorInv, PollerAlive, FirstPolled, Polled, InFlight, StatusInv, NextKnown, Later, ServerAdvance, sessionVars
<1> QED
  BY <1>6, <1>7, <1>8 DEF IInv

-----------------------------------------------------------------------------
(* The invariant holds at first.                                           *)
LEMMA InitIInv == Init => IInv
<1> SUFFICES ASSUME Init PROVE IInv
  OBVIOUS
<1>1. TypeInv
  BY TypeInit
<1>2. Len(inbox) = 0
  BY DEF Init
<1>3. OrderInv /\ ErrorInv
  BY <1>2 DEF Init, OrderInv, ErrorInv, CursorInRange, InitialStatus
<1>4. PollerAlive /\ StatusInv
  BY TimeFacts DEF Init, PollerAlive, StatusInv, NextKnown, InitialStatus
<1>5. FirstPolled
  <2>1. Len(requests) = 1 /\ requests[1] = QueryStatus("poll", None)
    BY DEF Init
  <2>2. QueryStatus("poll", None).name = Query
    BY QueryKnown DEF Query, None
  <2> QED
    BY <2>1, <2>2 DEF FirstPolled, Polled
<1> QED
  BY <1>1, <1>3, <1>4, <1>5 DEF IInv

(* Every step keeps the invariant.                                         *)
LEMMA NextIInv == IInv /\ [Next]_vars => IInv'
<1> SUFFICES ASSUME IInv, [Next]_vars PROVE IInv'
  OBVIOUS
<1>1. CASE Continue
  BY <1>1, OnStatusKeeps, OnStepStatusKeeps, OnSteppedKeeps, OnRunOrPauseKeeps, OnForwardKeeps,
     OnBackwardKeeps, OnErrorKeeps, OnEventKeeps DEF Continue
<1>2. CASE TimerFires \/ User
  BY <1>2, TimerFiresKeeps, UserKeeps
<1>3. CASE Simulation
  BY <1>3, ServerAnswerKeeps, ServerErrorKeeps, ServerAdvanceKeeps, ServerStopKeeps DEF Simulation
<1>4. CASE UNCHANGED vars
  <2>1. UNCHANGED <<simulationStatus, timeout, lostTimers, timeCursor, forwardTimeStep,
                    requests, inbox, held, server, ui, errors, thrown>>
    BY <1>4 DEF vars, sessionVars
  <2>2. TypeInv' /\ OrderInv' /\ ErrorInv'
    BY <2>1 DEF IInv, TypeInv, TypeOK, HasNext, Later, OrderInv, CursorInRange, ErrorInv
  <2>3. PollerAlive' /\ FirstPolled' /\ StatusInv'
    BY <2>1 DEF IInv, PollerAlive, FirstPolled, Polled, InFlight, StatusInv, NextKnown, Later
  <2> QED
    BY <2>2, <2>3 DEF IInv
<1> QED
  BY <1>1, <1>2, <1>3, <1>4 DEF Next

(* The inductive invariant holds of every behaviour of the session.        *)
THEOREM Inductive == Spec => []IInv
  BY InitIInv, NextIInv, PTL DEF Spec

(* Every reachable state is well-typed: times are times of samples, and a  *)
(* paused simulation always has a next sample to tell.                     *)
THEOREM TypeCorrect == Spec => []TypeOK
  BY Inductive, PTL DEF IInv, TypeInv

(* The cursor never points beyond what the session knows to be simulated,  *)
(* with any number of overlapping commands (session.ts:285-292).           *)
THEOREM CursorStaysInRange == Spec => []CursorInRange
  BY Inductive, PTL DEF IInv, OrderInv

(* Until a query fails, the polling of a running simulation never stops    *)
(* (session.ts:216-219, 240).                                              *)
THEOREM PollerNeverDies == Spec => []PollerAlive
  BY Inductive, PTL DEF IInv

(* A paused session's nextSampleTime follows its latestTime, and is        *)
(* undefined only before the reply to the constructor's query              *)
(* (session.ts:231-238).                                                   *)
THEOREM NextAlwaysNext == Spec => []NextIsNext
<1>1. IInv => NextIsNext
  <2> SUFFICES ASSUME IInv, simulationStatus = InitialStatus, ~(errors > 0)
               PROVE  \E c \in InFlight : c.name = Query
    BY DEF NextIsNext, IInv, StatusInv, NextKnown, Query
  <2>1. errors = 0
    BY SessionAssumption DEF IInv, TypeInv, TypeOK
  <2>2. Polled(requests, inbox)
    BY <2>1 DEF IInv, FirstPolled
  <2> QED
    BY <2>2, PolledInFlight DEF IInv, TypeInv, InFlight
<1> QED
  BY <1>1, Inductive, PTL

-----------------------------------------------------------------------------
(* A user who waits for each command to complete.                          *)

(* A command of the user is under way as long as this is.                  *)
Waited(c) == c.then # "poll"

(* Nothing has moved the cursor since a step looked at it, and a step that *)
(* looks ahead does so below the latest time.                              *)
StepOK(c, cursor, latestTime) ==
    /\ c.then = "forward" => c.begin = cursor /\ cursor < latestTime
    /\ c.then = "backward" => c.begin = cursor - 1
    /\ c.then \in {"stepRun", "stepQuery"} =>
         c.end = None \/ (c.end = Min(Later(cursor)) /\ c.end > cursor)

(* At most one command of the user is under way, among the requests r and  *)
(* the messages m.                                                         *)
OneWaited(r, m) ==
    /\ \A i, j \in 1..Len(r) : Waited(r[i]) /\ Waited(r[j]) => i = j
    /\ \A i, j \in 1..Len(m) : Waited(m[i].command) /\ Waited(m[j].command) => i = j
    /\ \A i \in 1..Len(r), j \in 1..Len(m) : ~(Waited(r[i]) /\ Waited(m[j].command))

StepsOK(r, m, cursor, latestTime) ==
    /\ \A i \in 1..Len(r) : StepOK(r[i], cursor, latestTime)
    /\ \A i \in 1..Len(m) : StepOK(m[i].command, cursor, latestTime)

StepInv ==
    /\ OneWaited(requests, inbox)
    /\ StepsOK(requests, inbox, timeCursor, simulationStatus.latestTime)
    /\ NoRangeError

(* A query nobody waits for is no step, and a step stays right while time  *)
(* goes forward.                                                           *)
LEMMA StepOKFacts ==
    ASSUME NEW c, NEW cursor \in Nat, NEW latest \in Nat
    PROVE  /\ ~Waited(c) => StepOK(c, cursor, latest)
           /\ \A later \in Nat : StepOK(c, cursor, latest) /\ latest <= later => StepOK(c, cursor, later)
  BY DEF StepOK, Waited

(* A message is received: who waited for it may go on waiting for another  *)
(* command, or move the cursor.                                            *)
LEMMA ConsumeStep ==
    ASSUME TypeInv, StepInv, NEW type, Receives(type),
           timeCursor' \in Nat, simulationStatus'.latestTime \in Nat,
           \/ requests' = requests
           \/ \E c \in KnownCommands :
                /\ Perform(c)
                /\ Waited(c) => Waited(Head(inbox).command)
                /\ StepOK(c, timeCursor', simulationStatus'.latestTime),
           \/ timeCursor' = timeCursor /\ simulationStatus.latestTime <= simulationStatus'.latestTime
           \/ Waited(Head(inbox).command),
           NoRangeError'
    PROVE  StepInv'
<1> DEFINE h == Head(inbox).command
           cursor == timeCursor'
           latest == simulationStatus'.latestTime
<1>1. /\ timeCursor \in Nat /\ simulationStatus.latestTime \in Nat
      /\ requests \in Seq(KnownCommands) /\ Len(requests) \in Nat
  <2>1. timeCursor \in Times /\ simulationStatus.latestTime \in SampleTimes
    BY DEF TypeInv, TypeOK, SimulationStatuses
  <2>2. timeCursor \in Nat /\ simulationStatus.latestTime \in Nat
    BY <2>1, TimeFacts
  <2>3. requests \in Seq(KnownCommands)
    BY DEF TypeInv
  <2>4. Len(requests) \in Nat
    BY <2>3
  <2> QED
    BY <2>2, <2>3, <2>4
<1>2. /\ h = inbox[1].command /\ Len(inbox) \in Nat /\ 1 \in 1..Len(inbox)
      /\ Len(inbox') = Len(inbox) - 1
      /\ \A i \in 1..Len(inbox') : i + 1 \in 1..Len(inbox) /\ inbox'[i] = inbox[i + 1]
  BY ReceivesHead
<1>3. \A i \in 1..Len(inbox') : i \in Nat /\ i + 1 # 1
  BY <1>2
<1>4. ASSUME Waited(h)
      PROVE  /\ \A i \in 1..Len(requests) : ~Waited(requests[i])
             /\ \A i \in 1..Len(inbox') : ~Waited(inbox'[i].command)
  BY <1>2, <1>3, <1>4 DEF StepInv, OneWaited
<1>5. /\ \A i \in 1..Len(requests) : StepOK(requests[i], cursor, latest)
      /\ \A i \in 1..Len(inbox') : StepOK(inbox'[i].command, cursor, latest)
  <2>1. CASE Waited(h)
    BY <1>4, <2>1, StepOKFacts
  <2>2. CASE cursor = timeCursor /\ simulationStatus.latestTime <= latest
    BY <1>1, <1>2, <2>2, StepOKFacts DEF StepInv, StepsOK
  <2> QED
    BY <2>1, <2>2
<1>6. OneWaited(requests, inbox')
  <2>1. /\ \A i, j \in 1..Len(requests) : Waited(requests[i]) /\ Waited(requests[j]) => i = j
        /\ \A i, j \in 1..Len(inbox) : Waited(inbox[i].command) /\ Waited(inbox[j].command) => i = j
        /\ \A i \in 1..Len(requests), j \in 1..Len(inbox) : ~(Waited(requests[i]) /\ Waited(inbox[j].command))
    BY DEF StepInv, OneWaited
  <2>2. ASSUME NEW i \in 1..Len(inbox'), NEW j \in 1..Len(inbox'),
               Waited(inbox'[i].command), Waited(inbox'[j].command)
        PROVE  i = j
    <3>1. i + 1 = j + 1
      BY <1>2, <2>1, <2>2
    <3> QED
      BY <1>3, <3>1
  <2>3. \A i \in 1..Len(requests), j \in 1..Len(inbox') : ~(Waited(requests[i]) /\ Waited(inbox'[j].command))
    BY <1>2, <2>1
  <2> QED
    BY <2>1, <2>2, <2>3 DEF OneWaited
<1>7. CASE requests' = requests
  BY <1>5, <1>6, <1>7 DEF StepInv, StepsOK
<1>8. ASSUME NEW c \in KnownCommands, Perform(c), Waited(c) => Waited(h), StepOK(c, cursor, latest)
      PROVE  StepInv'
  <2>1. /\ Len(requests') = Len(requests) + 1 /\ requests'[Len(requests) + 1] = c
        /\ \A i \in 1..Len(requests) : requests'[i] = requests[i]
    BY <1>1, <1>8, Performs
  <2>2. \A i \in 1..Len(requests') : i \in 1..Len(requests) \/ i = Len(requests) + 1
    BY <1>1, <2>1
  <2>3. StepsOK(requests', inbox', cursor, latest)
    BY <1>5, <1>8, <2>1, <2>2 DEF StepsOK
  <2>4. OneWaited(requests', inbox')
    BY <1>4, <1>6, <1>8, <2>1, <2>2 DEF OneWaited
  <2> QED
    BY <2>3, <2>4 DEF StepInv
<1> QED
  BY <1>7, <1>8

(* A query nobody waits for is sent, or, if nobody waits, a command of the *)
(* user.                                                                   *)
LEMMA AskStep ==
    ASSUME TypeInv, StepInv, NEW c \in KnownCommands, Perform(c),
           StepOK(c, timeCursor, simulationStatus.latestTime),
           Waited(c) => \A d \in InFlight : ~Waited(d),
           UNCHANGED <<simulationStatus, timeCursor, inbox, thrown>>
    PROVE  StepInv'
<1>1. requests \in Seq(KnownCommands) /\ Len(requests) \in Nat /\ inbox \in Seq(KnownMessages)
  BY DEF TypeInv
<1>2. /\ Len(requests') = Len(requests) + 1 /\ requests'[Len(requests) + 1] = c
      /\ \A i \in 1..Len(requests) : requests'[i] = requests[i]
  BY <1>1, Performs
<1>3. \A i \in 1..Len(requests') : i \in 1..Len(requests) \/ i = Len(requests) + 1
  BY <1>1, <1>2
<1>4. ASSUME Waited(c)
      PROVE  /\ \A i \in 1..Len(requests) : ~Waited(requests[i])
             /\ \A i \in 1..Len(inbox) : ~Waited(inbox[i].command)
  BY <1>1, <1>4 DEF InFlight
<1>5. StepsOK(requests', inbox', timeCursor', simulationStatus'.latestTime)
  BY <1>2, <1>3 DEF StepInv, StepsOK
<1>6. OneWaited(requests', inbox')
  BY <1>2, <1>3, <1>4 DEF StepInv, OneWaited
<1> QED
  BY <1>5, <1>6 DEF StepInv, NoRangeError

(* What a step of the session does to the cursor, unless the user asked    *)
(* for it (session.ts:294-342).                                            *)
AdjacentStep ==
    timeCursor' # timeCursor /\ ui' = ui =>
        IF timeCursor' > timeCursor
          THEN timeCursor' = Min(Later(timeCursor))
          ELSE timeCursor' = Max({t \in SampleTimes : t < timeCursor})

(* Numbers the steps compare.                                              *)
LEMMA StepTypes ==
    ASSUME IInv
    PROVE  /\ TypeInv
           /\ timeCursor \in Times /\ timeCursor \in Nat
           /\ simulationStatus.latestTime \in SampleTimes /\ simulationStatus.latestTime \in Nat
           /\ timeCursor <= simulationStatus.latestTime
           /\ thrown \subseteq {"RangeError", "TypeError"}
<1>1. TypeInv /\ TypeOK /\ CursorInRange
  BY DEF IInv, TypeInv, OrderInv
<1>2. timeCursor \in Times /\ simulationStatus.latestTime \in SampleTimes
      /\ thrown \subseteq {"RangeError", "TypeError"}
  BY <1>1 DEF TypeOK, SimulationStatuses
<1>3. timeCursor \in Nat /\ simulationStatus.latestTime \in Nat
  BY <1>2, TimeFacts
<1> QED
  BY <1>1, <1>2, <1>3 DEF CursorInRange

(* A status reply is not older than the status the session has.            *)
LEMMA ReplyIsLater ==
    ASSUME IInv, NEW thens, Answers(Query, thens), UpdateStatus(Head(inbox).status),
           ForgetTimer(Head(inbox).status)
    PROVE  /\ simulationStatus.latestTime <= simulationStatus'.latestTime
           /\ simulationStatus'.latestTime \in Nat
           /\ Receives("response")
           /\ Head(inbox) \in KnownMessages
           /\ Head(inbox).command.then \in thens
           /\ StepInv => StepOK(Head(inbox).command, timeCursor, simulationStatus.latestTime)
<1>1. /\ Receives("response") /\ simulationStatus'.latestTime = Head(inbox).status.latestTime
      /\ simulationStatus'.latestTime \in Nat
      /\ Head(inbox) \in KnownMessages /\ Head(inbox).command.then \in thens
  BY StatusReply
<1>2. Head(inbox) = inbox[1] /\ 1 \in 1..Len(inbox)
  BY <1>1, ReceivesHead DEF IInv
<1>3. simulationStatus.latestTime <= inbox[1].status.latestTime
  BY <1>2 DEF IInv, OrderInv
<1>4. StepInv => StepOK(inbox[1].command, timeCursor, simulationStatus.latestTime)
  BY <1>2 DEF StepInv, StepsOK
<1> QED
  BY <1>1, <1>2, <1>3, <1>4

(* A status reply nobody goes on after leaves the cursor alone.            *)
LEMMA OnStatusSteps == IInv /\ StepInv /\ OnStatus => StepInv' /\ AdjacentStep
<1> SUFFICES ASSUME IInv, StepInv, OnStatus PROVE StepInv' /\ AdjacentStep
  OBVIOUS
<1>1. /\ Receives("response") /\ simulationStatus.latestTime <= simulationStatus'.latestTime
      /\ simulationStatus'.latestTime \in Nat
  BY ReplyIsLater DEF OnStatus, Query
<1>2. timeCursor' = timeCursor /\ requests' = requests /\ NoRangeError'
  BY DEF OnStatus, StepInv, NoRangeError
<1>3. TypeInv /\ timeCursor' \in Nat
  BY <1>2, StepTypes
<1> QED
  BY <1>1, <1>2, <1>3, ConsumeStep DEF AdjacentStep

(* stepForward() queries the status again, and holds on to the time it     *)
(* compares.                                                               *)
LEMMA OnStepStatusSteps == IInv /\ StepInv /\ OnStepStatus => StepInv' /\ AdjacentStep
<1> SUFFICES ASSUME IInv, StepInv, OnStepStatus PROVE StepInv' /\ AdjacentStep
  OBVIOUS
<1> DEFINE h == Head(inbox).command
           c == QueryStatus("stepQuery", h.end)
<1>1. /\ Receives("response") /\ simulationStatus.latestTime <= simulationStatus'.latestTime
      /\ simulationStatus'.latestTime \in Nat
      /\ h.then = "stepRun"
      /\ StepOK(h, timeCursor, simulationStatus.latestTime)
      /\ Head(inbox) \in KnownMessages
  BY ReplyIsLater DEF OnStepStatus, Query
<1>2. timeCursor' = timeCursor /\ Perform(c) /\ NoRangeError'
  BY DEF OnStepStatus, QuerySimulationStatus, StepInv, NoRangeError
<1>3. TypeInv /\ timeCursor' \in Nat
  BY <1>2, StepTypes
<1>4. c \in KnownCommands /\ c.then = "stepQuery" /\ c.end = h.end
  <2>1. h.end \in Int /\ h.end \in SampleTimes \cup {None}
    BY <1>1, MessageFacts
  <2> QED
    BY <2>1, QueryKnown
<1>5. Waited(h)
  BY <1>1 DEF Waited
<1>6. StepOK(c, timeCursor', simulationStatus'.latestTime)
  BY <1>1, <1>2, <1>4 DEF StepOK
<1>7. StepInv'
  BY <1>1, <1>2, <1>3, <1>4, <1>5, <1>6, ConsumeStep
<1> QED
  BY <1>2, <1>7 DEF AdjacentStep

(* stepForward() ends at the sample that followed the cursor, or where it  *)
(* was.                                                                    *)
LEMMA OnSteppedSteps == IInv /\ StepInv /\ OnStepped => StepInv' /\ AdjacentStep
<1> SUFFICES ASSUME IInv, StepInv, OnStepped PROVE StepInv' /\ AdjacentStep
  OBVIOUS
<1> DEFINE h == Head(inbox).command
<1>1. /\ Receives("response") /\ simulationStatus'.latestTime \in Nat
      /\ h.then = "stepQuery"
      /\ StepOK(h, timeCursor, simulationStatus.latestTime)
      /\ Head(inbox) \in KnownMessages
  BY ReplyIsLater DEF OnStepped, Query
<1>2. /\ TypeInv /\ timeCursor \in Times /\ timeCursor \in Nat
      /\ thrown \subseteq {"RangeError", "TypeError"}
  BY StepTypes
<1>3. h.end \in SampleTimes \cup {None} /\ (h.end = None \/ (h.end = Min(Later(timeCursor)) /\ h.end > timeCursor))
  BY <1>1, MessageFacts DEF StepOK
<1>4. \/ timeCursor' = timeCursor /\ thrown' \in {thrown, thrown \cup {"TypeError"}}
      \/ timeCursor' = h.end /\ h.end # None /\ thrown' = thrown
  <2>1. ASSUME h.end # None, h.end <= simulationStatus'.latestTime,
               SetTimeCursor(h.end, simulationStatus'.latestTime)
        PROVE  timeCursor' = h.end /\ thrown' = thrown
    <3>1. h.end \in Times
      BY <1>3, <2>1, TimeFacts
    <3> QED
      BY <1>1, <1>2, <2>1, <3>1, CursorSet
  <2> QED
    BY <2>1 DEF OnStepped
<1>5. requests' = requests /\ NoRangeError'
  BY <1>4 DEF OnStepped, StepInv, NoRangeError
<1>6. timeCursor' \in Nat
  BY <1>2, <1>3, <1>4, TimeFacts
<1>7. Waited(h)
  BY <1>1 DEF Waited
<1>8. StepInv'
  BY <1>1, <1>2, <1>5, <1>6, <1>7, ConsumeStep
<1>9. AdjacentStep
  BY <1>3, <1>4 DEF AdjacentStep
<1> QED
  BY <1>8, <1>9

(* run_simulation or pause_simulation is answered: who waited for it waits *)
(* for the status.                                                         *)
LEMMA OnRunOrPauseSteps == IInv /\ StepInv /\ OnRunOrPause => StepInv' /\ AdjacentStep
<1> SUFFICES ASSUME IInv, StepInv, OnRunOrPause PROVE StepInv' /\ AdjacentStep
  OBVIOUS
<1> DEFINE h == Head(inbox).command
           c == QueryStatus(h.then, h.end)
<1>1. Receives("response") /\ h.then \in {"run", "stepRun"}
  BY DEF OnRunOrPause, Answers
<1>2. /\ UNCHANGED <<timeCursor, simulationStatus, thrown>> /\ Perform(c)
  BY DEF OnRunOrPause, QuerySimulationStatus
<1>3. /\ TypeInv /\ timeCursor \in Nat /\ simulationStatus.latestTime \in Nat
  BY StepTypes
<1>4. Head(inbox) \in KnownMessages /\ h = inbox[1].command /\ 1 \in 1..Len(inbox)
  BY <1>1, <1>3, ReceivesHead
<1>5. c \in KnownCommands /\ c.then = h.then /\ c.end = h.end
  BY <1>1, <1>4, MessageFacts, QueryKnown
<1>6. StepOK(h, timeCursor, simulationStatus.latestTime)
  BY <1>4 DEF StepInv, StepsOK
<1>7. Waited(h) /\ StepOK(c, timeCursor, simulationStatus.latestTime)
  BY <1>1, <1>5, <1>6 DEF Waited, StepOK
<1>8. NoRangeError'
  BY <1>2 DEF StepInv, NoRangeError
<1>9. StepInv'
  BY <1>1, <1>2, <1>3, <1>5, <1>7, <1>8, ConsumeStep
<1> QED
  BY <1>2, <1>9 DEF AdjacentStep

(* The samples answer the lookup of a step that has nothing overtaken it.  *)
LEMMA LookupAnswered ==
    ASSUME IInv, StepInv, NEW thens, Answers("query_interval", thens)
    PROVE  LET h == Head(inbox).command
               latest == Head(inbox).status.latestTime
           IN  /\ Receives("response")
               /\ h.then \in thens
               /\ h.begin \in Nat /\ h.end \in Int /\ latest \in Nat
               /\ Head(inbox).samples = Recorded(h.begin, h.end, latest)
               /\ StepOK(h, timeCursor, simulationStatus.latestTime)
               /\ simulationStatus.latestTime <= latest
<1>1. TypeInv
  BY DEF IInv
<1>2. Receives("response")
  BY DEF Answers
<1>3. Head(inbox) = inbox[1] /\ 1 \in 1..Len(inbox)
  BY <1>1, <1>2, ReceivesHead
<1>4. simulationStatus.latestTime <= inbox[1].status.latestTime
  BY <1>3 DEF IInv, OrderInv
<1>5. StepOK(inbox[1].command, timeCursor, simulationStatus.latestTime)
  BY <1>3 DEF StepInv, StepsOK
<1> QED
  BY <1>1, <1>3, <1>4, <1>5, Found

(* The search of stepForward() ends at the sample after the cursor, or     *)
(* goes on from the cursor.                                                *)
LEMMA OnForwardSteps == IInv /\ StepInv /\ OnForward => StepInv' /\ AdjacentStep
<1> SUFFICES ASSUME IInv, StepInv, OnForward PROVE StepInv' /\ AdjacentStep
  OBVIOUS
<1> DEFINE h == Head(inbox).command
           samples == Head(inbox).samples
<1>1. /\ Receives("response") /\ h.then = "forward" /\ h.begin \in Nat /\ h.end \in Int
      /\ Head(inbox).status.latestTime \in Nat
      /\ samples = Recorded(h.begin, h.end, Head(inbox).status.latestTime)
      /\ StepOK(h, timeCursor, simulationStatus.latestTime)
  BY LookupAnswered DEF OnForward
<1>2. h.begin = timeCursor /\ timeCursor < simulationStatus.latestTime
  BY <1>1 DEF StepOK
<1>3. /\ TypeInv /\ timeCursor \in Times /\ timeCursor \in Nat
      /\ simulationStatus.latestTime \in SampleTimes /\ simulationStatus.latestTime \in Nat
      /\ thrown \subseteq {"RangeError", "TypeError"}
  BY StepTypes
<1>4. Waited(h)
  BY <1>1 DEF Waited
<1>5. /\ simulationStatus' = simulationStatus
      /\ \/ Cardinality(samples) = 1 /\ LookAhead(Doubled) /\ UNCHANGED <<timeCursor, thrown>>
         \/ Cardinality(samples) > 1 /\ requests' = requests
              /\ SetTimeCursor(Second(samples), simulationStatus.latestTime)
  BY DEF OnForward
<1>6. ASSUME LookAhead(Doubled), UNCHANGED <<timeCursor, thrown>>
      PROVE  StepInv' /\ AdjacentStep
  <2> DEFINE c == Command("query_interval", "forward", timeCursor, timeCursor + Doubled)
  <2>1. Perform(c) /\ Doubled \in Nat
    BY <1>3, <1>6, TimeFacts DEF LookAhead, Doubled, TypeInv, TypeOK
  <2>2. c \in KnownCommands
    BY <1>3, <2>1, UserKnown
  <2>3. StepOK(c, timeCursor, simulationStatus.latestTime)
    BY <1>2 DEF StepOK, Command
  <2>4. NoRangeError'
    BY <1>6 DEF StepInv, NoRangeError
  <2>5. StepInv'
    BY <1>1, <1>3, <1>4, <1>5, <1>6, <2>1, <2>2, <2>3, <2>4, ConsumeStep
  <2> QED
    BY <1>6, <2>5 DEF AdjacentStep
<1>7. ASSUME Cardinality(samples) > 1, requests' = requests,
             SetTimeCursor(Second(samples), simulationStatus.latestTime)
      PROVE  StepInv' /\ AdjacentStep
  <2>1. /\ Second(samples) \in SampleTimes /\ Second(samples) > timeCursor
        /\ \A t \in SampleTimes : t > timeCursor => Second(samples) <= t
    BY <1>1, <1>2, <1>7, RecordedSamples
  <2>2. Second(samples) \in Times /\ Second(samples) \in Nat /\ Second(samples) <= simulationStatus.latestTime
    BY <1>2, <1>3, <2>1, TimeFacts
  <2>3. timeCursor' = Second(samples) /\ thrown' = thrown
    BY <1>3, <1>7, <2>2, CursorSet
  <2>4. Second(samples) = Min(Later(timeCursor))
    <3>1. Later(timeCursor) # {}
      BY <2>1 DEF Later
    <3>2. /\ Min(Later(timeCursor)) \in SampleTimes /\ Min(Later(timeCursor)) > timeCursor
          /\ \A t \in SampleTimes : t > timeCursor => Min(Later(timeCursor)) <= t
      BY <1>3, <3>1, NextSample
    <3>3. Min(Later(timeCursor)) <= Second(samples) /\ Second(samples) <= Min(Later(timeCursor))
      BY <2>1, <3>2
    <3>4. Min(Later(timeCursor)) \in Nat
      BY <3>2, TimeFacts
    <3> QED
      BY <2>2, <3>3, <3>4
  <2>5. NoRangeError'
    BY <2>3 DEF StepInv, NoRangeError
  <2>6. StepInv'
    BY <1>1, <1>3, <1>4, <1>5, <1>7, <2>2, <2>3, <2>5, ConsumeStep
  <2> QED
    BY <2>1, <2>3, <2>4, <2>6 DEF AdjacentStep
<1> QED
  BY <1>5, <1>6, <1>7

(* stepBackward() ends at the sample before the cursor.                    *)
LEMMA OnBackwardSteps == IInv /\ StepInv /\ OnBackward => StepInv' /\ AdjacentStep
<1> SUFFICES ASSUME IInv, StepInv, OnBackward PROVE StepInv' /\ AdjacentStep
  OBVIOUS
<1> DEFINE h == Head(inbox).command
           samples == Head(inbox).samples
           latest == Head(inbox).status.latestTime
<1>1. /\ Receives("response") /\ h.then = "backward" /\ h.begin \in Nat /\ h.end \in Int
      /\ latest \in Nat /\ samples = Recorded(h.begin, h.end, latest)
      /\ StepOK(h, timeCursor, simulationStatus.latestTime)
      /\ simulationStatus.latestTime <= latest
  BY LookupAnswered DEF OnBackward
<1>2. h.begin = timeCursor - 1
  BY <1>1 DEF StepOK
<1>3. /\ TypeInv /\ timeCursor \in Times /\ timeCursor \in Nat
      /\ simulationStatus.latestTime \in Nat /\ timeCursor <= simulationStatus.latestTime
      /\ thrown \subseteq {"RangeError", "TypeError"}
  BY StepTypes
<1>4. Waited(h)
  BY <1>1 DEF Waited
<1>5. /\ simulationStatus' = simulationStatus /\ requests' = requests
      /\ SetTimeCursor(Min(samples), simulationStatus.latestTime)
  BY DEF OnBackward
<1>6. Min(samples) = InEffect(h.begin, latest)
  <2>1. Min(Recorded(h.begin, h.end, latest)) = InEffect(h.begin, latest)
    BY <1>1, RecordedSamples
  <2> QED
    BY <1>1, <2>1
<1>7. {t \in SampleTimes : t <= latest /\ t <= h.begin} = {t \in SampleTimes : t < timeCursor}
  <2>1. \A t \in SampleTimes : t \in Nat
    BY TimeFacts
  <2>2. \A t \in Nat : (t <= latest /\ t <= h.begin) <=> t < timeCursor
    BY <1>1, <1>2, <1>3
  <2> QED
    BY <2>1, <2>2
<1>8. Min(samples) = Max({t \in SampleTimes : t < timeCursor})
  BY <1>6, <1>7 DEF InEffect
<1>9. Min(samples) \in SampleTimes /\ Min(samples) <= h.begin
  BY <1>1, <1>6, InEffectIsLast
<1>10. Min(samples) \in Times /\ Min(samples) \in Nat /\ Min(samples) <= simulationStatus.latestTime
       /\ Min(samples) < timeCursor
  <2> DEFINE before == Min(samples)
  <2>1. before \in SampleTimes /\ before <= timeCursor - 1
    BY <1>2, <1>9
  <2> HIDE DEF before
  <2>2. before \in Times /\ before \in Nat
    BY <2>1, TimeFacts
  <2>3. before < timeCursor /\ before <= simulationStatus.latestTime
    BY <1>3, <2>1, <2>2
  <2> QED
    BY <2>2, <2>3 DEF before
<1>11. timeCursor' = Min(samples) /\ thrown' = thrown
  BY <1>3, <1>5, <1>10, CursorSet
<1>12. NoRangeError'
  BY <1>11 DEF StepInv, NoRangeError
<1>13. StepInv'
  BY <1>1, <1>3, <1>4, <1>5, <1>10, <1>11, <1>12, ConsumeStep
<1>14. ~(timeCursor' > timeCursor)
  BY <1>3, <1>10, <1>11
<1> QED
  BY <1>8, <1>11, <1>13, <1>14 DEF AdjacentStep

(* Errors end a step, and events and timers only poll.                     *)
LEMMA OtherSteps ==
    IInv /\ StepInv /\ (OnError \/ OnEvent \/ TimerFires) => StepInv' /\ AdjacentStep
<1> SUFFICES ASSUME IInv, StepInv, OnError \/ OnEvent \/ TimerFires PROVE StepInv' /\ AdjacentStep
  OBVIOUS
<1> DEFINE c == QueryStatus("poll", None)
<1>1. /\ TypeInv /\ timeCursor \in Nat /\ simulationStatus.latestTime \in Nat
  BY StepTypes
<1>2. c \in KnownCommands /\ ~Waited(c)
  BY QueryKnown DEF None, Waited
<1>3. StepOK(c, timeCursor, simulationStatus.latestTime)
  BY <1>1, <1>2, StepOKFacts
<1>4. UNCHANGED <<simulationStatus, timeCursor, thrown>>
  BY DEF OnError, OnEvent, TimerFires, sessionVars
<1>5. NoRangeError'
  BY <1>4 DEF StepInv, NoRangeError
<1>6. CASE OnError
  <2>1. Receives("error") /\ requests' = requests
    BY <1>6 DEF OnError
  <2> QED
    BY <1>1, <1>4, <1>5, <2>1, ConsumeStep DEF AdjacentStep
<1>7. CASE OnEvent
  <2>1. Receives("event") /\ Perform(c)
    BY <1>7 DEF OnEvent, QuerySimulationStatus
  <2> QED
    BY <1>1, <1>2, <1>3, <1>4, <1>5, <2>1, ConsumeStep DEF AdjacentStep
<1>8. CASE TimerFires
  <2>1. Perform(c) /\ inbox' = inbox
    BY <1>8 DEF TimerFires, QuerySimulationStatus
  <2> QED
    BY <1>1, <1>2, <1>3, <1>4, <2>1, AskStep DEF AdjacentStep
<1> QED
  BY <1>6, <1>7, <1>8

(* A user who waits asks when nobody waits: a step starts from the cursor, *)
(* and the cursor moves under nobody's eyes.                               *)
LEMMA UserSteps ==
    ASSUME ~Overlap, IInv, StepInv, User
    PROVE  StepInv' /\ AdjacentStep
<1> DEFINE latest == simulationStatus.latestTime
<1>1. /\ TypeInv /\ timeCursor \in Times /\ timeCursor \in Nat /\ latest \in Nat
      /\ timeCursor <= latest /\ thrown \subseteq {"RangeError", "TypeError"}
  BY StepTypes
<1>2. ASSUME UserCommand
      PROVE  (\A d \in InFlight : ~Waited(d)) /\ inbox' = inbox /\ AdjacentStep
  <2>1. ui \in Nat /\ ui' = ui + 1
    BY <1>1, <1>2, SessionAssumption DEF UserCommand, TypeInv, TypeOK
  <2>2. ui' # ui
    BY <2>1
  <2> QED
    BY <1>2, <2>2 DEF UserCommand, Waited, AdjacentStep
<1>3. ASSUME UserCommand, UNCHANGED <<sessionVars, thrown>>, NEW c \in KnownCommands, Perform(c),
             StepOK(c, timeCursor, latest)
      PROVE  StepInv'
  BY <1>1, <1>2, <1>3, AskStep DEF sessionVars
<1>4. CASE RunSimulation
  <2> DEFINE c == Command("run_simulation", "run", None, None)
  <2>1. c \in KnownCommands /\ StepOK(c, timeCursor, latest)
    BY <1>1, UserKnown DEF StepOK, Command
  <2> QED
    BY <1>2, <1>3, <1>4, <2>1 DEF RunSimulation
<1>5. ASSUME NEW t \in SampleTimes, RunSimulationUntil(t) PROVE StepInv' /\ AdjacentStep
  <2> DEFINE c == Command("run_simulation", "run", None, t)
  <2>1. c \in KnownCommands /\ StepOK(c, timeCursor, latest)
    BY <1>1, UserKnown DEF StepOK, Command
  <2> QED
    BY <1>2, <1>3, <1>5, <2>1 DEF RunSimulationUntil
<1>6. CASE PauseSimulation
  <2> DEFINE c == Command("pause_simulation", "run", None, None)
  <2>1. c \in KnownCommands /\ StepOK(c, timeCursor, latest)
    BY <1>1, UserKnown DEF StepOK, Command
  <2> QED
    BY <1>2, <1>3, <1>6, <2>1 DEF PauseSimulation
<1>7. CASE StepForward
  <2>1. ASSUME timeCursor = latest, simulationStatus.status = "paused",
               Perform(Command("run_simulation", "stepRun", None, simulationStatus.nextSampleTime))
        PROVE  StepInv'
    <3> DEFINE c == Command("run_simulation", "stepRun", None, simulationStatus.nextSampleTime)
    <3>1. c \in KnownCommands /\ c.then = "stepRun" /\ c.end = simulationStatus.nextSampleTime
      BY <1>1, UserKnown DEF Command
    <3>2. /\ Later(latest) # {}
          /\ simulationStatus # InitialStatus => simulationStatus.nextSampleTime = Min(Later(latest))
      BY <2>1 DEF IInv, StatusInv, NextKnown
    <3>3. simulationStatus = InitialStatus => simulationStatus.nextSampleTime = None
      BY DEF InitialStatus
    <3>4. Min(Later(latest)) > latest
      BY <1>1, <3>2, NextSample
    <3>5. StepOK(c, timeCursor, latest)
      BY <2>1, <3>1, <3>2, <3>3, <3>4 DEF StepOK
    <3> QED
      BY <1>3, <1>7, <2>1, <3>1, <3>5 DEF StepForward
  <2>2. ASSUME timeCursor # latest, LookAhead(forwardTimeStep)
        PROVE  StepInv'
    <3> DEFINE c == Command("query_interval", "forward", timeCursor, timeCursor + forwardTimeStep)
    <3>1. forwardTimeStep \in Nat
      BY <1>1 DEF TypeInv, TypeOK
    <3>2. c \in KnownCommands /\ c.then = "forward" /\ c.begin = timeCursor
      BY <1>1, <3>1, UserKnown DEF Command
    <3>3. timeCursor < latest
      BY <1>1, <2>2
    <3>4. StepOK(c, timeCursor, latest)
      BY <3>2, <3>3 DEF StepOK
    <3> QED
      BY <1>3, <1>7, <2>2, <3>2, <3>4 DEF StepForward, LookAhead
  <2> QED
    BY <1>2, <1>7, <2>1, <2>2 DEF StepForward
<1>8. CASE StepBackward
  <2> DEFINE c == Command("query_interval", "backward", timeCursor - 1, timeCursor - 1)
  <2>1. c \in KnownCommands
    BY <1>1, <1>8, UserKnown DEF StepBackward
  <2>2. StepOK(c, timeCursor, latest)
    BY DEF StepOK, Command
  <2> QED
    BY <1>2, <1>3, <1>8, <2>1, <2>2 DEF StepBackward
<1>9. ASSUME NEW t \in Times, GoToTime(t) PROVE StepInv' /\ AdjacentStep
  <2>1. UserCommand /\ t <= latest /\ SetTimeCursor(t, latest)
        /\ simulationStatus' = simulationStatus /\ requests' = requests
    BY <1>9 DEF GoToTime
  <2>2. timeCursor' = t /\ thrown' = thrown
    BY <1>1, <2>1, CursorSet
  <2>3. timeCursor' \in Nat
    BY <2>2, TimeFacts
  <2>4. /\ \A i \in 1..Len(requests) : ~Waited(requests[i])
        /\ \A i \in 1..Len(inbox) : ~Waited(inbox[i].command)
    BY <1>1, <1>2, <2>1 DEF InFlight, TypeInv
  <2>5. StepsOK(requests, inbox, timeCursor', latest)
    BY <1>1, <2>3, <2>4, StepOKFacts DEF StepsOK
  <2>6. inbox' = inbox /\ AdjacentStep
    BY <1>2, <2>1
  <2> QED
    BY <2>1, <2>2, <2>5, <2>6 DEF StepInv, NoRangeError
<1> QED
  BY <1>4, <1>5, <1>6, <1>7, <1>8, <1>9 DEF User

(* The simulation answers in order, and what it sends by itself nobody     *)
(* waits for.                                                              *)
LEMMA SimulationSteps ==
    ASSUME IInv, StepInv, Simulation
    PROVE  StepInv' /\ AdjacentStep
<1>1. TypeInv /\ timeCursor \in Nat /\ simulationStatus.latestTime \in Nat
  BY StepTypes
<1>2. UNCHANGED <<simulationStatus, timeCursor, thrown>>
  BY DEF Simulation, ServerAnswer, ServerError, ServerAdvance, ServerStop, sessionVars
<1>3. AdjacentStep
  BY <1>2 DEF AdjacentStep
<1>4. requests \in Seq(KnownCommands) /\ inbox \in Seq(KnownMessages)
      /\ Len(requests) \in Nat /\ Len(inbox) \in Nat
  BY <1>1 DEF TypeInv
<1>5. /\ \A i, j \in 1..Len(requests) : Waited(requests[i]) /\ Waited(requests[j]) => i = j
      /\ \A i, j \in 1..Len(inbox) : Waited(inbox[i].command) /\ Waited(inbox[j].command) => i = j
      /\ \A i \in 1..Len(requests), j \in 1..Len(inbox) : ~(Waited(requests[i]) /\ Waited(inbox[j].command))
      /\ \A i \in 1..Len(requests) : StepOK(requests[i], timeCursor, simulationStatus.latestTime)
      /\ \A i \in 1..Len(inbox) : StepOK(inbox[i].command, timeCursor, simulationStatus.latestTime)
  BY DEF StepInv, OneWaited, StepsOK
<1>6. ASSUME NEW m, inbox' = Append(inbox, m), requests # <<>>, m.command = Head(requests),
             requests' = Tail(requests)
      PROVE  StepInv'
  <2>1. /\ m.command = requests[1] /\ 1 \in 1..Len(requests)
        /\ Len(requests') = Len(requests) - 1
        /\ \A i \in 1..Len(requests') : i + 1 \in 1..Len(requests) /\ requests'[i] = requests[i + 1]
    BY <1>4, <1>6
  <2>2. /\ Len(inbox') = Len(inbox) + 1 /\ inbox'[Len(inbox) + 1] = m
        /\ \A i \in 1..Len(inbox) : inbox'[i] = inbox[i]
        /\ \A i \in 1..Len(inbox') : i \in 1..Len(inbox) \/ i = Len(inbox) + 1
    BY <1>4, <1>6
  <2>3. \A i \in 1..Len(requests') : i \in Nat /\ i + 1 # 1
    BY <2>1
  <2>4. StepsOK(requests', inbox', timeCursor, simulationStatus.latestTime)
    BY <1>5, <2>1, <2>2 DEF StepsOK
  <2>5. ASSUME NEW i \in 1..Len(requests'), NEW j \in 1..Len(requests'),
               Waited(requests'[i]), Waited(requests'[j])
        PROVE  i = j
    <3>1. i + 1 = j + 1
      BY <1>5, <2>1, <2>5
    <3> QED
      BY <2>3, <3>1
  <2>6. \A i, j \in 1..Len(inbox') : Waited(inbox'[i].command) /\ Waited(inbox'[j].command) => i = j
    BY <1>5, <2>1, <2>2
  <2>7. \A i \in 1..Len(requests'), j \in 1..Len(inbox') : ~(Waited(requests'[i]) /\ Waited(inbox'[j].command))
    BY <1>5, <2>1, <2>2, <2>3
  <2> QED
    BY <1>2, <2>4, <2>5, <2>6, <2>7 DEF StepInv, OneWaited, NoRangeError
<1>7. ASSUME NEW m, inbox' = Append(inbox, m), ~Waited(m.command), requests' = requests
      PROVE  StepInv'
  <2>1. /\ Len(inbox') = Len(inbox) + 1 /\ inbox'[Len(inbox) + 1] = m
        /\ \A i \in 1..Len(inbox) : inbox'[i] = inbox[i]
        /\ \A i \in 1..Len(inbox') : i \in 1..Len(inbox) \/ i = Len(inbox) + 1
    BY <1>4, <1>7
  <2>2. StepOK(m.command, timeCursor, simulationStatus.latestTime)
    BY <1>1, <1>7, StepOKFacts
  <2>3. StepsOK(requests, inbox', timeCursor, simulationStatus.latestTime)
    BY <1>5, <2>1, <2>2 DEF StepsOK
  <2>4. OneWaited(requests, inbox')
    BY <1>5, <1>7, <2>1 DEF OneWaited
  <2> QED
    BY <1>2, <1>7, <2>3, <2>4 DEF StepInv, NoRangeError
<1>8. CASE ServerAnswer \/ ServerError
  <2>1. requests # <<>> /\ requests' = Tail(requests)
    BY <1>8 DEF ServerAnswer, ServerError
  <2>2. \E m : inbox' = Append(inbox, m) /\ m.command = Head(requests)
    BY <1>8 DEF ServerAnswer, ServerError, Message
  <2> QED
    BY <1>3, <1>6, <2>1, <2>2
<1>9. CASE ServerStop
  <2> DEFINE m == Message("event", QueryStatus("poll", None), ServerStatus, {})
  <2>1. inbox' = Append(inbox, m) /\ requests' = requests
    BY <1>9 DEF ServerStop
  <2>2. ~Waited(m.command)
    BY DEF Message, QueryStatus, Command, Waited
  <2> QED
    BY <1>3, <1>7, <2>1, <2>2
<1>10. CASE ServerAdvance
  BY <1>2, <1>3, <1>10 DEF ServerAdvance, StepInv, NoRangeError
<1> QED
  BY <1>8, <1>9, <1>10 DEF Simulation

(* At first nobody waits, and every step keeps it so that one command at   *)
(* most is waited for.                                                     *)
LEMMA InitStepInv == Init => StepInv
<1> SUFFICES ASSUME Init PROVE StepInv
  OBVIOUS
<1>1. Len(inbox) = 0 /\ Len(requests) = 1 /\ requests[1] = QueryStatus("poll", None)
      /\ timeCursor = 0 /\ simulationStatus.latestTime = 0 /\ thrown = {}
  BY DEF Init, InitialStatus
<1>2. ~Waited(requests[1])
  BY <1>1 DEF QueryStatus, Command, Waited
<1>3. StepOK(requests[1], timeCursor, simulationStatus.latestTime)
  BY <1>1, <1>2, StepOKFacts
<1> QED
  BY <1>1, <1>3 DEF StepInv, OneWaited, StepsOK, NoRangeError

(* Every step keeps the waiting user alone, and moves the cursor to a      *)
(* neighbour.                                                              *)
LEMMA NextStepInv ==
    ASSUME ~Overlap, IInv, StepInv, [Next]_vars
    PROVE  StepInv' /\ (AdjacentStep \/ UNCHANGED vars)
<1>1. CASE Continue
  BY <1>1, OnStatusSteps, OnStepStatusSteps, OnSteppedSteps, OnRunOrPauseSteps, OnForwardSteps,
     OnBackwardSteps, OtherSteps DEF Continue
<1>2. CASE TimerFires
  BY <1>2, OtherSteps
<1>3. CASE User
  BY <1>3, UserSteps
<1>4. CASE Simulation
  BY <1>4, SimulationSteps
<1>5. CASE UNCHANGED vars
  <2>1. UNCHANGED <<simulationStatus, timeCursor, requests, inbox, thrown>>
    BY <1>5 DEF vars, sessionVars
  <2> QED
    BY <1>5, <2>1 DEF StepInv, NoRangeError
<1> QED
  BY <1>1, <1>2, <1>3, <1>4, <1>5 DEF Next

(* With a user who waits for each command, StepInv holds throughout.       *)
LEMMA StepInductive ==
    ASSUME ~Overlap
    PROVE  Spec => []StepInv
<1>1. StepInv /\ IInv /\ [Next]_vars => StepInv'
  BY NextStepInv
<1> QED
  BY <1>1, InitStepInv, Inductive, PTL DEF Spec

(* The setter's RangeError never reaches a user who waits for each command *)
(* to complete (session.ts:301, 320, 339).                                 *)
THEOREM NoRangeErrorWhenWaiting ==
    ASSUME ~Overlap
    PROVE  Spec => []NoRangeError
  BY StepInductive, PTL DEF StepInv

(* A user who waits for each command to complete moves by single samples,  *)
(* however far the simulation runs ahead meanwhile (session.ts:294-342).   *)
THEOREM StepsAreAdjacent ==
    ASSUME ~Overlap
    PROVE  Spec => StepIsAdjacent
<1>1. StepInv /\ IInv /\ [Next]_vars => [AdjacentStep]_vars
  BY NextStepInv
<1> QED
  BY <1>1, StepInductive, Inductive, PTL DEF Spec, StepIsAdjacent, AdjacentStep
=============================================================================
