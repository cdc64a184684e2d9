--------------------------- MODULE SidebarProofs ---------------------------
(***************************************************************************)
(* Proofs about Debugger, for any number of start attempts, and about the  *)
(* Sidebar on top of it, for every design, watch list and number of        *)
(* sessions: the tree follows the session and shows its design.            *)
(***************************************************************************)
EXTENDS Sidebar, SequenceTheorems, TLAPS

Underway == {"launching", "waiting", "connecting", "connected"}

(* Where the latest attempt stands, by the fields of the debugger: there   *)
(* is a terminal exactly while the attempt is under way, and a session     *)
(* exactly while it is connected.  A start is refused while the stop       *)
(* command is still offered, so that command never meets an attempt that   *)
(* has no session yet.                                                     *)
AttemptInv ==
    /\ \A n \in Attempts : phase[n] = "none" <=> n > attempts
    /\ \A n \in Attempts : phase[n] \in Underway <=> terminal = n
    /\ \A n \in Attempts : phase[n] = "connected" <=> session = n
    /\ offered = "running" => sessionStatus # "starting"

IInv == TypeOK /\ StatusAgrees /\ OneAttempt /\ ViewsFollow /\ AttemptInv

(* The constructor's state (debugger.ts:10-19).                            *)
LEMMA InitIInv == Init => IInv
  BY DebuggerAssumption DEF Init, IInv, TypeOK, StatusAgrees, OneAttempt, ViewsFollow,
     AttemptInv, Underway, Attempts, Phases, Live, EmptySidebar

(* stopSession() after an event that left the phases `sockets': nothing is *)
(* under way any more, and the latest attempt is the only one that can     *)
(* still be live.                                                          *)
LEMMA StopPreserves ==
    ASSUME IInv, NEW sockets \in [Attempts -> Phases], StopSession(sockets),
           \A n \in Attempts : sockets[n] = "none" <=> n > attempts,
           \A n \in Attempts : sockets[n] \notin {"none", "closed"} => n = attempts,
           \A n \in Attempts : sockets[n] \in Underway => n = session /\ sockets[n] = "connected"
    PROVE  IInv'
<1> USE DebuggerAssumption DEF Attempts, Phases, Underway
<1>1. \A n \in Attempts : phase'[n] \in Phases \ Underway
  BY DEF StopSession, DisposeSession
<1>2. phase' \in [Attempts -> Phases]
  BY DEF StopSession, DisposeSession
<1>3. /\ terminal' = 0 /\ session' = 0 /\ attempts' = attempts /\ offered' = offered
      /\ sessionStatus' = "absent" /\ simulationStatus' = "finished"
      /\ process' \subseteq Attempts
      /\ sidebar' = EmptySidebar
      /\ statusBar' = [session |-> 0, status |-> "finished"]
  BY DEF StopSession, FireNull, UpdateStatusBar, DisposeTerminal, DisposeSession, IInv, TypeOK
<1>4. TypeOK'
  BY <1>2, <1>3 DEF IInv, TypeOK, EmptySidebar
<1>5. StatusAgrees' /\ ViewsFollow'
  BY <1>3 DEF StatusAgrees, ViewsFollow, EmptySidebar
<1>6. \A n \in Attempts : phase'[n] = "none" <=> n > attempts
  BY DEF StopSession, DisposeSession
<1>7. OneAttempt'
  BY <1>3, <1>6 DEF StopSession, DisposeSession, OneAttempt, Live
<1>8. AttemptInv'
  BY <1>1, <1>3, <1>6 DEF AttemptInv
<1> QED
  BY <1>4, <1>5, <1>7, <1>8 DEF IInv

(* startSession(): nothing of an earlier attempt is under way.             *)
LEMMA StartPreserves == IInv /\ StartSession => IInv'
<1> SUFFICES ASSUME IInv, StartSession PROVE IInv'
  OBVIOUS
<1> USE DebuggerAssumption DEF Attempts, Phases, Underway
<1>1. /\ attempts \in 0..MaxAttempts /\ attempts + 1 \in Attempts
      /\ phase' = [phase EXCEPT ![attempts + 1] = "launching"]
      /\ phase \in [Attempts -> Phases]
  BY DEF IInv, TypeOK, StartSession
<1>2. \A n \in Attempts : phase[n] \in {"none", "closed"}
  BY DEF IInv, AttemptInv, StartSession, TurnOver, TypeOK
<1>3. session = 0
  BY DEF IInv, StatusAgrees, StartSession
<1>4. TypeOK'
  BY <1>1 DEF IInv, TypeOK, StartSession
<1>5. StatusAgrees' /\ ViewsFollow'
  BY <1>1, <1>3 DEF IInv, StatusAgrees, ViewsFollow, StartSession
<1>6. OneAttempt'
  BY <1>1, <1>2 DEF OneAttempt, Live, StartSession
<1>7. AttemptInv'
  BY <1>1, <1>2, <1>3 DEF IInv, AttemptInv, StartSession
<1> QED
  BY <1>4, <1>5, <1>6, <1>7 DEF IInv

(* The connection listener: the socket is the latest attempt's.            *)
LEMMA ConnectPreserves ==
    ASSUME IInv, NEW n \in Attempts, OnConnect(n)
    PROVE  IInv'
<1> USE DebuggerAssumption DEF Attempts, Phases, Underway
<1>1. /\ phase' = [phase EXCEPT ![n] = "connected"]
      /\ phase \in [Attempts -> Phases] /\ phase[n] = "connecting"
      /\ session' = n /\ UNCHANGED <<terminal, attempts>>
  BY DEF IInv, TypeOK, OnConnect
<1>2. n = attempts /\ terminal = n
  BY <1>1 DEF IInv, OneAttempt, Live, AttemptInv
<1>3. TypeOK'
  <2>1. /\ statusBar' = [session |-> n, status |-> "paused"]
        /\ sessionStatus' = "running" /\ simulationStatus' = "paused"
        /\ UNCHANGED <<process, offered>>
    BY DEF OnConnect, UpdateStatusBar
  <2>2. sidebar' \in [session : 0..MaxAttempts, observer : 0..MaxAttempts, scopes : 0..MaxAttempts]
    <3>1. sidebar \in [session : 0..MaxAttempts, observer : 0..MaxAttempts, scopes : 0..MaxAttempts]
      BY DEF IInv, TypeOK
    <3>2. sidebar' = [sidebar EXCEPT !.session = n, !.observer = n]
      BY DEF OnConnect
    <3>3. n \in 0..MaxAttempts
      OBVIOUS
    <3> QED
      BY <3>1, <3>2, <3>3
  <2>3. phase' \in [Attempts -> Phases]
    BY <1>1
  <2> QED
    BY <1>1, <2>1, <2>2, <2>3 DEF IInv, TypeOK
<1>4. StatusAgrees'
  BY <1>1, <1>2 DEF IInv, TypeOK, StatusAgrees, OnConnect
<1>5. ViewsFollow'
  <2>1. session = 0
    BY <1>1, <1>2 DEF IInv, AttemptInv, StatusAgrees
  <2> QED
    BY <1>1, <2>1 DEF IInv, TypeOK, ViewsFollow, OnConnect, UpdateStatusBar
<1>6. OneAttempt'
  BY <1>1, <1>2 DEF IInv, OneAttempt, Live
<1>7. AttemptInv'
  BY <1>1, <1>2 DEF IInv, AttemptInv, OneAttempt, Live, OnConnect
<1> QED
  BY <1>3, <1>4, <1>5, <1>6, <1>7 DEF IInv

(* The steps between the start and the connection.                         *)
LEMMA WaitPreserves ==
    ASSUME IInv, NEW n \in Attempts, Launched(n) \/ CreateConnection(n)
    PROVE  IInv'
<1> USE DebuggerAssumption DEF Attempts, Phases, Underway
<1>1. PICK to \in {"waiting", "connecting"} : phase' = [phase EXCEPT ![n] = to]
  BY DEF Launched, CreateConnection
<1>2. /\ phase \in [Attempts -> Phases] /\ phase[n] \in {"launching", "waiting"}
      /\ UNCHANGED <<terminal, session, sessionStatus, simulationStatus, attempts,
                     process, offered, sidebar, statusBar>>
  BY DEF IInv, TypeOK, Launched, CreateConnection
<1>3. TypeOK'
  BY <1>1, <1>2 DEF IInv, TypeOK
<1>4. StatusAgrees' /\ ViewsFollow'
  BY <1>1, <1>2 DEF IInv, TypeOK, StatusAgrees, ViewsFollow
<1>5. OneAttempt'
  BY <1>1, <1>2 DEF IInv, OneAttempt, Live
<1>6. AttemptInv'
  BY <1>1, <1>2 DEF IInv, AttemptInv
<1> QED
  BY <1>3, <1>4, <1>5, <1>6 DEF IInv

(* The steps that leave the phases alone.                                  *)
LEMMA OtherPreserves ==
    ASSUME IInv, NEW n \in Attempts,
           \/ SetContext
           \/ Exit(n)
           \/ OnRootScope(n)
           \/ \E status \in {"running", "paused", "finished"} : OnSimulationStatus(n, status)
           \/ UNCHANGED vars
    PROVE  IInv'
<1> USE DebuggerAssumption DEF Attempts, Phases, Underway
<1>1. UNCHANGED <<terminal, session, sessionStatus, attempts, phase>>
  BY DEF SetContext, Exit, OnRootScope, OnSimulationStatus, vars
<1>2. OneAttempt' /\ AttemptInv'
  BY <1>1 DEF IInv, OneAttempt, Live, AttemptInv, SetContext, Exit, OnRootScope, OnSimulationStatus, vars
<1>3. TypeOK' /\ StatusAgrees' /\ ViewsFollow'
  <2>1. CASE SetContext
    BY <2>1 DEF IInv, TypeOK, StatusAgrees, ViewsFollow, SetContext
  <2>2. CASE Exit(n)
    BY <2>2 DEF IInv, TypeOK, StatusAgrees, ViewsFollow, Exit
  <2>3. CASE OnRootScope(n)
    BY <2>3 DEF IInv, TypeOK, StatusAgrees, ViewsFollow, OnRootScope, AttemptInv
  <2>4. CASE \E status \in {"running", "paused", "finished"} : OnSimulationStatus(n, status)
    BY <2>4 DEF IInv, TypeOK, StatusAgrees, ViewsFollow, OnSimulationStatus, AttemptInv, UpdateStatusBar
  <2>5. CASE UNCHANGED vars
    BY <2>5 DEF IInv, TypeOK, StatusAgrees, ViewsFollow, vars
  <2> QED
    BY <2>1, <2>2, <2>3, <2>4, <2>5
<1> QED
  BY <1>2, <1>3 DEF IInv

(* A socket that fails or is closed, and the stop command.                 *)
LEMMA EndPreserves ==
    ASSUME IInv, StopCommand \/ \E n \in Attempts : OnError(n) \/ OnClose(n)
    PROVE  IInv'
<1> USE DebuggerAssumption DEF Attempts, Phases, Underway
<1>1. /\ phase \in [Attempts -> Phases]
      /\ \A n \in Attempts : phase[n] = "none" <=> n > attempts
      /\ \A n \in Attempts : phase[n] \notin {"none", "closed"} => n = attempts
      /\ \A n \in Attempts : phase[n] = "connected" => n = session
  BY DEF IInv, TypeOK, AttemptInv, OneAttempt, Live
<1>2. CASE StopCommand
  <2>1. sessionStatus # "starting"
    BY <1>2 DEF StopCommand, IInv, AttemptInv
  <2>2. \A n \in Attempts : phase[n] \in Underway => n = session /\ phase[n] = "connected"
    BY <2>1 DEF IInv, TypeOK, StatusAgrees, AttemptInv
  <2>3. StopSession(phase)
    BY <1>2 DEF StopCommand
  <2> QED
    BY <1>1, <2>2, <2>3, StopPreserves
<1>3. CASE \E n \in Attempts : OnError(n)
  <2> PICK n \in Attempts : OnError(n)
    BY <1>3
  <2> DEFINE sockets == [phase EXCEPT ![n] = "erred"]
  <2>1. /\ sockets \in [Attempts -> Phases]
        /\ \A k \in Attempts : sockets[k] = IF k = n THEN "erred" ELSE phase[k]
        /\ phase[n] \in {"connecting", "connected"} /\ StopSession(sockets)
    BY <1>1 DEF OnError
  <2> QED
    BY <1>1, <2>1, StopPreserves
<1>4. CASE \E n \in Attempts : OnClose(n)
  <2> PICK n \in Attempts : OnClose(n)
    BY <1>4
  <2> DEFINE sockets == [phase EXCEPT ![n] = "closed"]
  <2>1. /\ sockets \in [Attempts -> Phases]
        /\ \A k \in Attempts : sockets[k] = IF k = n THEN "closed" ELSE phase[k]
        /\ phase[n] \in {"erred", "destroyed", "connected"} /\ StopSession(sockets)
    BY <1>1 DEF OnClose
  <2> QED
    BY <1>1, <2>1, StopPreserves
<1> QED
  BY <1>2, <1>3, <1>4

(* Every step keeps the inductive invariant.                               *)
LEMMA NextIInv == IInv /\ [Next]_vars => IInv'
<1> SUFFICES ASSUME IInv, [Next]_vars PROVE IInv'
  OBVIOUS
<1>1. CASE StartSession
  BY <1>1, StartPreserves
<1>2. CASE StopCommand
  BY <1>2, EndPreserves
<1>3. CASE \E n \in Attempts : OnConnect(n)
  BY <1>3, ConnectPreserves
<1>4. CASE \E n \in Attempts : Launched(n) \/ CreateConnection(n)
  BY <1>4, WaitPreserves
<1>5. CASE \E n \in Attempts : OnError(n) \/ OnClose(n)
  BY <1>5, EndPreserves
<1>6. CASE \E n \in Attempts : Exit(n) \/ OnRootScope(n)
  BY <1>6, OtherPreserves
<1>7. CASE \E n \in Attempts, status \in {"running", "paused", "finished"} :
              OnSimulationStatus(n, status)
  BY <1>7, OtherPreserves
<1>8. CASE SetContext \/ UNCHANGED vars
  BY <1>8 DEF IInv, TypeOK, StatusAgrees, OneAttempt, ViewsFollow, AttemptInv, Live, SetContext, vars
<1> QED
  BY <1>1, <1>2, <1>3, <1>4, <1>5, <1>6, <1>7, <1>8 DEF Next, Socket

(* The inductive invariant holds of every behaviour of the debugger.       *)
THEOREM Inductive == Spec => []IInv
  BY InitIInv, NextIInv, PTL DEF Spec

(* The fields of the debugger, the status bar and the sidebar have the     *)
(* values the rest of the extension expects of them (debugger.ts:7-22).    *)
THEOREM TypeCorrect == Spec => []TypeOK
  BY Inductive, PTL DEF IInv

(* Status, session, socket and terminal always agree, whatever the order   *)
(* of commands, socket events, timers and exits (debugger.ts:71, 81-89,    *)
(* 119-130).                                                               *)
THEOREM StatusAlwaysAgrees == Spec => []StatusAgrees
  BY Inductive, PTL DEF IInv

(* The callbacks of an earlier socket never meet a later session           *)
(* (debugger.ts:81-108).                                                   *)
THEOREM NoLateCallbacks == Spec => []OneAttempt
  BY Inductive, PTL DEF IInv

(* Sidebar and status bar show the current session (sidebar.ts:279-292,    *)
(* status.ts:12-18).                                                       *)
THEOREM ViewsAlwaysFollow == Spec => []ViewsFollow
  BY Inductive, PTL DEF IInv

-----------------------------------------------------------------------------
(* What a listing of a session's design, or a task, has to result in.      *)
Nested(n, scope) == {name \in Design[n].scopes : name # Root /\ Front(name) = scope}

TrueListing(n, listing) ==
    IF listing.kind = "items" THEN ItemsIn(n, listing.scope) ELSE Nested(n, listing.scope)

Faithful(n, c) == \A listing \in DOMAIN c : c[listing] = TrueListing(n, listing)

TrueResult(task, n) ==
    IF task.call = "children"
      THEN {<<"scope", name>> : name \in Nested(n, task.of)}
             \cup {<<"variable", name>> : name \in ItemsIn(n, task.of)}
    ELSE IF task.call = "item"
      THEN {IF Nested(n, task.of) \cup ItemsIn(n, task.of) # {} THEN "collapsed" ELSE "none"}
    ELSE {i \in DOMAIN WatchList : WatchList[i] \in Design[n].items}

-----------------------------------------------------------------------------
(* The values tasks and requests can have.                                 *)
ScopeCalls == {"children", "item"}

AllTasks == [call : ScopeCalls, of : Scopes] \cup {Task("watch", Root)}

AllListings ==
    [kind : {"scopes"}, scope : Scopes]
      \cup [kind : {"items"}, scope : Scopes \cup {Front(WatchList[i]) : i \in DOMAIN WatchList}]

AllRequests == {GetRootScope} \cup [task : AllTasks \cup {Dropped}, listing : AllListings]

(* There is a scope item, or a watch item, the task is a call of.          *)
Asked(task) ==
    /\ task.call \in ScopeCalls => tree.scopes # 0
    /\ task.call = "watch" => tree.watch # 0

TreeInv ==
    /\ tree = [watch |-> tree.watch, scopes |-> tree.scopes, due |-> tree.due,
               tasks |-> tree.tasks, results |-> tree.results]
    /\ tree.watch \in 0..MaxAttempts
    /\ tree.scopes \in 0..MaxAttempts
    /\ \A task \in tree.due \cup DOMAIN tree.results : task \in AllTasks /\ Asked(task)

(* A request that a task of the tree waits for is one to the session whose *)
(* scopes the tree shows.                                                  *)
RequestInv ==
    /\ requests \in Seq(AllRequests)
    /\ \A i \in 1..Len(requests) :
         /\ requests[i].task.call \in ScopeCalls => tree.scopes = session
         /\ requests[i].task.call = "watch" => tree.watch # 0

(* The root items are those of the session, or there are none.             *)
FollowInv ==
    /\ sidebar.session = session
    /\ ~outdated => tree.watch \in {0, session}
    /\ TreeFollows

CacheInv ==
    /\ DOMAIN cache = Attempts
    /\ \A n \in Attempts : Faithful(n, cache[n])

ResultInv ==
    \A task \in DOMAIN tree.results :
        /\ task.call \in ScopeCalls => tree.results[task] = TrueResult(task, tree.scopes)
        /\ task.call = "watch" /\ ~outdated => tree.results[task] = TrueResult(task, tree.watch)

SidebarInv == IInv /\ TreeInv /\ RequestInv /\ FollowInv /\ CacheInv /\ ResultInv

-----------------------------------------------------------------------------
(* Names.                                                                  *)
LEMMA ScopeIsSeq ==
  ASSUME NEW s \in Scopes PROVE s \in Seq(Range(s))
  BY SidebarAssumption DEF Scopes

LEMMA RootIsScope ==
  ASSUME NEW n \in Attempts PROVE Root \in Scopes
  BY SidebarAssumption DEF Scopes

(* A name is directly in a scope if the scope is its front.                *)
LEMMA DirectlyIn ==
  ASSUME NEW S, NEW T, NEW s \in Seq(S), NEW name \in Seq(T)
  PROVE  IsPrefix(s, name) /\ Len(name) = Len(s) + 1 <=> name # Root /\ Front(name) = s
<1>0. Len(s) \in Nat /\ Len(name) \in Nat /\ SubSeq(s, 1, Len(s)) = s
  BY SubSeqFull
<1>1. ASSUME IsPrefix(s, name), Len(name) = Len(s) + 1
      PROVE  name # Root /\ Front(name) = s
  <2>1. Len(name) - 1 = Len(s) /\ Len(name) # 0
    BY <1>0, <1>1
  <2>2. SubSeq(name, 1, Len(name) - 1) = s
    BY <1>0, <1>1, <2>1 DEF IsPrefix
  <2>3. name # Root
    BY <2>1 DEF Root
  <2> QED
    BY <2>2, <2>3 DEF Front
<1>2. ASSUME name # Root, Front(name) = s
      PROVE  IsPrefix(s, name) /\ Len(name) = Len(s) + 1
  <2>1. Len(name) >= 1
    BY <1>0, <1>2, EmptySeq DEF Root
  <2>2. SubSeq(name, 1, Len(name) - 1) = s
    BY <1>2 DEF Front
  <2>3. Len(s) = Len(name) - 1
    <3>1. \A i \in 1..(Len(name) - 1) : name[i] \in T
      BY <1>0
    <3>2. Len(SubSeq(name, 1, Len(name) - 1))
            = IF 1 <= Len(name) - 1 THEN (Len(name) - 1) - 1 + 1 ELSE 0
      BY <1>0, <3>1, SubSeqProperties
    <3> QED
      BY <1>0, <2>1, <2>2, <3>2
  <2>4. IsPrefix(s, name)
    BY <1>0, <2>1, <2>2, <2>3 DEF IsPrefix
  <2> QED
    BY <1>0, <2>3, <2>4
<1> QED
  BY <1>1, <1>2

(* listScopesInScope() keeps the scopes directly in the scope, whichever   *)
(* of them the server lists.                                               *)
LEMMA ListingIsTrue ==
  ASSUME NEW n \in Attempts, NEW listing \in AllListings,
         NEW names \in ServerReplies(n, listing)
  PROVE  NestedIn(listing, names) = TrueListing(n, listing)
<1>1. CASE listing.kind = "items"
  BY <1>1 DEF ServerReplies, NestedIn, TrueListing
<1>2. CASE listing.kind # "items"
  <2>1. listing.scope \in Scopes
    BY <1>2 DEF AllListings
  <2>2. listing.scope \in Seq(Range(listing.scope))
    BY <2>1, ScopeIsSeq
  <2>3. \A name \in Design[n].scopes : name \in Seq(Range(name))
    BY SidebarAssumption
  <2>4. ASSUME NEW name \in Design[n].scopes
        PROVE  IsPrefix(listing.scope, name) /\ Len(name) = Len(listing.scope) + 1
                 <=> name # Root /\ Front(name) = listing.scope
    BY <2>2, <2>3, DirectlyIn
  <2>5. names = Design[n].scopes
        \/ names = {name \in Design[n].scopes : IsPrefix(listing.scope, name)}
    BY <1>2 DEF ServerReplies
  <2>6. NestedIn(listing, names) = {name \in names :
            IsPrefix(listing.scope, name) /\ Len(name) = Len(listing.scope) + 1}
    BY <1>2 DEF NestedIn
  <2>7. NestedIn(listing, names) = {name \in Design[n].scopes :
            IsPrefix(listing.scope, name) /\ Len(name) = Len(listing.scope) + 1}
    BY <2>5, <2>6
  <2>8. NestedIn(listing, names) = Nested(n, listing.scope)
    BY <2>4, <2>7 DEF Nested
  <2> QED
    BY <1>2, <2>8 DEF TrueListing
<1> QED
  BY <1>1, <1>2

-----------------------------------------------------------------------------
(* What a task awaits and returns.                                         *)
LEMMA TaskCases ==
  ASSUME NEW task \in AllTasks
  PROVE  /\ task.call \in ScopeCalls => task.of \in Scopes
         /\ task.call \in {"children", "item", "watch"}
         /\ task # Dropped
         /\ task.call # "root"
  BY DEF AllTasks, ScopeCalls, Task, Dropped

LEMMA ListingsTyped ==
  ASSUME NEW task \in AllTasks, NEW c
  PROVE  \A i \in DOMAIN Listings(task, c) : Listings(task, c)[i] \in AllListings
<1>1. CASE task.call \in ScopeCalls
  <2>1. Listing("scopes", task.of) \in AllListings /\ Listing("items", task.of) \in AllListings
    BY <1>1, TaskCases DEF Listing, AllListings
  <2>2. \/ Listings(task, c) = <<Listing("scopes", task.of), Listing("items", task.of)>>
        \/ Listings(task, c) = <<Listing("scopes", task.of)>>
    BY <1>1 DEF Listings, ScopeCalls
  <2> QED
    BY <2>1, <2>2
<1>2. CASE task.call = "watch"
  <2>1. Listings(task, c) = [i \in DOMAIN WatchList |-> Listing("items", Front(WatchList[i]))]
    BY <1>2 DEF Listings
  <2> QED
    BY <2>1 DEF Listing, AllListings
<1> QED
  BY <1>1, <1>2, TaskCases DEF ScopeCalls

(* With the listings it awaits at hand, a task returns the truth.          *)
LEMMA ResultIsTrue ==
  ASSUME NEW task \in AllTasks, NEW n \in Attempts, NEW c, Faithful(n, c),
         \A i \in DOMAIN Listings(task, c) : Listings(task, c)[i] \in DOMAIN c
  PROVE  Result(task, c) = TrueResult(task, n)
<1> DEFINE scopes == Listing("scopes", task.of)
           items == Listing("items", task.of)
<1>1. /\ scopes \in DOMAIN c => c[scopes] = Nested(n, task.of)
      /\ items \in DOMAIN c => c[items] = ItemsIn(n, task.of)
  BY DEF Faithful, TrueListing, Listing
<1>2. CASE task.call = "children"
  <2>1. Listings(task, c) = <<scopes, items>>
    BY <1>2 DEF Listings
  <2>2. Listings(task, c)[1] = scopes /\ Listings(task, c)[2] = items
        /\ 1 \in DOMAIN Listings(task, c) /\ 2 \in DOMAIN Listings(task, c)
    BY <2>1
  <2>3. c[scopes] = Nested(n, task.of) /\ c[items] = ItemsIn(n, task.of)
    BY <1>1, <2>2
  <2>4. Result(task, c) =
          {<<"scope", name>> : name \in c[scopes]} \cup {<<"variable", name>> : name \in c[items]}
    BY <1>2 DEF Result
  <2> QED
    BY <1>2, <2>3, <2>4 DEF TrueResult
<1>3. CASE task.call = "item"
  <2>1. Listings(task, c) =
          IF scopes \in DOMAIN c /\ c[scopes] # {} THEN <<scopes>> ELSE <<scopes, items>>
    BY <1>3 DEF Listings
  <2>2. Listings(task, c)[1] = scopes /\ 1 \in DOMAIN Listings(task, c)
    BY <2>1
  <2>3. c[scopes] = Nested(n, task.of)
    BY <1>1, <2>2
  <2>4. Result(task, c) = {ItemState(c[scopes], IF c[scopes] # {} THEN {} ELSE c[items])}
    BY <1>3 DEF Result
  <2>5. CASE c[scopes] # {}
    BY <1>3, <2>3, <2>4, <2>5 DEF TrueResult, ItemState
  <2>6. CASE c[scopes] = {}
    <3>1. Listings(task, c) = <<scopes, items>>
      BY <2>1, <2>6
    <3>2. Listings(task, c)[2] = items /\ 2 \in DOMAIN Listings(task, c)
      BY <3>1
    <3>3. c[items] = ItemsIn(n, task.of)
      BY <1>1, <3>2
    <3> QED
      BY <1>3, <2>3, <2>4, <2>6, <3>3 DEF TrueResult, ItemState
  <2> QED
    BY <2>5, <2>6
<1>4. CASE task.call = "watch"
  <2>1. Listings(task, c) = [i \in DOMAIN WatchList |-> Listing("items", Front(WatchList[i]))]
    BY <1>4 DEF Listings
  <2>2. ASSUME NEW i \in DOMAIN WatchList
        PROVE  GetVariable(WatchList[i], c) <=> WatchList[i] \in Design[n].items
    <3>1. Listing("items", Front(WatchList[i])) \in DOMAIN c
      BY <2>1
    <3>2. c[Listing("items", Front(WatchList[i]))] = ItemsIn(n, Front(WatchList[i]))
      BY <3>1 DEF Faithful, TrueListing, Listing
    <3> QED
      BY <3>2 DEF GetVariable, ItemsIn
  <2>3. Result(task, c) = {i \in DOMAIN WatchList : GetVariable(WatchList[i], c)}
    BY <1>4 DEF Result
  <2> QED
    BY <1>4, <2>2, <2>3 DEF TrueResult
<1> QED
  BY <1>2, <1>3, <1>4, TaskCases

(* The tree items that children call for are of scopes of the design.      *)
LEMMA ItemsOfTyped ==
  ASSUME NEW task \in AllTasks, NEW n \in Attempts, NEW c, Faithful(n, c),
         \A i \in DOMAIN Listings(task, c) : Listings(task, c)[i] \in DOMAIN c
  PROVE  \A t \in ItemsOf(task, c) : t \in AllTasks /\ t.call = "item" /\ task.call = "children"
<1>1. CASE task.call = "children"
  <2>1. Listings(task, c) = <<Listing("scopes", task.of), Listing("items", task.of)>>
    BY <1>1 DEF Listings
  <2>2. Listing("scopes", task.of) \in DOMAIN c
    BY <2>1
  <2>3. c[Listing("scopes", task.of)] = Nested(n, task.of)
    BY <2>2 DEF Faithful, TrueListing, Listing
  <2>4. Nested(n, task.of) \subseteq Scopes
    BY DEF Nested, Scopes
  <2>5. \A name \in Scopes : Task("item", name) \in AllTasks /\ Task("item", name).call = "item"
    BY DEF Task, AllTasks, ScopeCalls
  <2> QED
    BY <1>1, <2>3, <2>4, <2>5 DEF ItemsOf
<1>2. CASE task.call # "children"
  BY <1>2 DEF ItemsOf
<1> QED
  BY <1>1, <1>2

-----------------------------------------------------------------------------
(* Steps of the tree.                                                      *)
(* A request is one of a task of the tree, or of none.                     *)
LEMMA RequestCases ==
  ASSUME NEW r \in AllRequests, r # GetRootScope
  PROVE  /\ r.listing \in AllListings
         /\ r.task \in AllTasks \/ r.task = Dropped
         /\ r \in [task : AllTasks \cup {Dropped}, listing : AllListings]
  BY DEF AllRequests

(* The task awaits a listing or returns: either way the tree keeps its     *)
(* root items, and what is added to it is the truth.                       *)
LEMMA ContinueKeeps ==
  ASSUME TreeInv, ResultInv, NEW task \in AllTasks, Asked(task), NEW n \in Attempts,
         NEW c, Faithful(n, c), NEW before \in Seq(AllRequests),
         \A i \in 1..Len(before) :
            /\ before[i].task.call \in ScopeCalls => tree.scopes = session
            /\ before[i].task.call = "watch" => tree.watch # 0,
         task.call \in ScopeCalls => n = tree.scopes,
         task.call = "watch" /\ ~outdated => n = tree.watch,
         Continue(task, n, c, before), UNCHANGED <<session, outdated>>
  PROVE  /\ TreeInv' /\ RequestInv' /\ ResultInv'
         /\ tree'.watch = tree.watch /\ tree'.scopes = tree.scopes
<1> DEFINE listings == Listings(task, c)
<1>0. tree = [watch |-> tree.watch, scopes |-> tree.scopes, due |-> tree.due,
              tasks |-> tree.tasks, results |-> tree.results]
  BY DEF TreeInv
<1>a. \A t \in tree.due \cup DOMAIN tree.results : t \in AllTasks /\ Asked(t)
  BY DEF TreeInv
<1>1. CASE \E i \in DOMAIN listings :
             /\ requests' = IF n = session
                  THEN Append(before, [task |-> task, listing |-> listings[i]]) ELSE before
             /\ tree' = [tree EXCEPT !.due = @ \ {task}, !.tasks = @ \cup {task}]
  <2>1. PICK i \in DOMAIN listings :
             /\ requests' = IF n = session
                  THEN Append(before, [task |-> task, listing |-> listings[i]]) ELSE before
             /\ tree' = [tree EXCEPT !.due = @ \ {task}, !.tasks = @ \cup {task}]
    BY <1>1
  <2>2. tree' = [watch |-> tree.watch, scopes |-> tree.scopes, due |-> tree.due \ {task},
                 tasks |-> tree.tasks \cup {task}, results |-> tree.results]
    BY <1>0, <2>1
  <2>3. /\ tree'.watch = tree.watch /\ tree'.scopes = tree.scopes
        /\ tree'.due = tree.due \ {task} /\ tree'.results = tree.results
        /\ tree'.tasks = tree.tasks \cup {task}
    BY <2>2
  <2>4. TreeInv'
    <3>1. \A t \in tree'.due \cup DOMAIN tree'.results : t \in AllTasks /\ Asked(t)'
      BY <1>a, <2>3 DEF Asked
    <3> QED
      BY <2>2, <2>3, <3>1 DEF TreeInv
  <2>5. ResultInv'
    BY <2>3 DEF ResultInv
  <2>6. CASE n # session
    BY <2>1, <2>3, <2>4, <2>5, <2>6 DEF RequestInv
  <2>7. CASE n = session
    <3> DEFINE r == [task |-> task, listing |-> listings[i]]
    <3>1. r \in AllRequests
      BY ListingsTyped DEF AllRequests
    <3>2. r.task = task
      OBVIOUS
    <3>3. requests' = Append(before, r)
      BY <2>1, <2>7
    <3> HIDE DEF r
    <3>4. /\ requests' \in Seq(AllRequests) /\ Len(requests') = Len(before) + 1
          /\ \A k \in 1..Len(before) : requests'[k] = before[k]
          /\ requests'[Len(before) + 1] = r
      BY <3>1, <3>3, AppendProperties
    <3>5. ASSUME NEW k \in 1..Len(requests')
          PROVE  /\ requests'[k].task.call \in ScopeCalls => tree.scopes = session
                 /\ requests'[k].task.call = "watch" => tree.watch # 0
      <4>1. k \in 1..Len(before) \/ k = Len(before) + 1
        BY <3>4
      <4>2. CASE k \in 1..Len(before)
        BY <3>4, <4>2
      <4>3. CASE k = Len(before) + 1
        BY <2>7, <3>2, <3>4, <4>3 DEF Asked
      <4> QED
        BY <4>1, <4>2, <4>3
    <3> QED
      BY <2>3, <2>4, <2>5, <3>4, <3>5 DEF RequestInv
  <2> QED
    BY <2>3, <2>4, <2>5, <2>6, <2>7
<1>2. CASE /\ \A i \in DOMAIN listings : listings[i] \in DOMAIN c
           /\ requests' = before
           /\ tree' = [tree EXCEPT
                !.due = (@ \ {task}) \cup ItemsOf(task, c),
                !.tasks = @ \ {task},
                !.results = [t \in DOMAIN @ \cup {task} |->
                                IF t = task THEN Result(task, c) ELSE @[t]]]
  <2> DEFINE results == [t \in DOMAIN tree.results \cup {task} |->
                            IF t = task THEN Result(task, c) ELSE tree.results[t]]
  <2>2. tree' = [watch |-> tree.watch, scopes |-> tree.scopes,
                 due |-> (tree.due \ {task}) \cup ItemsOf(task, c),
                 tasks |-> tree.tasks \ {task}, results |-> results]
    BY <1>0, <1>2
  <2>d. /\ DOMAIN results = DOMAIN tree.results \cup {task}
        /\ results[task] = Result(task, c)
        /\ \A t \in DOMAIN tree.results : t # task => results[t] = tree.results[t]
    OBVIOUS
  <2> HIDE DEF results
  <2>3. /\ tree'.watch = tree.watch /\ tree'.scopes = tree.scopes
        /\ tree'.due = (tree.due \ {task}) \cup ItemsOf(task, c) /\ tree'.results = results
        /\ tree'.tasks = tree.tasks \ {task}
    BY <2>2
  <2>4. TreeInv'
    <3>1. \A t \in ItemsOf(task, c) : t \in AllTasks /\ t.call = "item" /\ task.call = "children"
      BY <1>2, ItemsOfTyped
    <3>2. \A t \in ItemsOf(task, c) : t \in AllTasks /\ Asked(t)
      BY <3>1 DEF Asked, ScopeCalls
    <3>3. \A t \in tree'.due \cup DOMAIN tree'.results : t \in AllTasks /\ Asked(t)
      BY <1>a, <2>d, <2>3, <3>2
    <3>4. \A t \in tree'.due \cup DOMAIN tree'.results : t \in AllTasks /\ Asked(t)'
      BY <2>3, <3>3 DEF Asked
    <3>5. tree' = [watch |-> tree'.watch, scopes |-> tree'.scopes, due |-> tree'.due,
                   tasks |-> tree'.tasks, results |-> tree'.results]
      BY <2>2, <2>3
    <3> QED
      BY <2>3, <3>4, <3>5 DEF TreeInv
  <2>5. ResultInv'
    <3>1. Result(task, c) = TrueResult(task, n)
      BY <1>2, ResultIsTrue
    <3>2. ASSUME NEW t \in DOMAIN tree'.results
          PROVE  /\ t.call \in ScopeCalls => tree'.results[t] = TrueResult(t, tree'.scopes)
                 /\ t.call = "watch" /\ ~outdated' => tree'.results[t] = TrueResult(t, tree'.watch)
      <4>1. CASE t = task
        BY <2>d, <2>3, <3>1, <4>1
      <4>2. CASE t # task
        BY <2>d, <2>3, <3>2, <4>2 DEF ResultInv
      <4> QED
        BY <4>1, <4>2
    <3> QED
      BY <3>2 DEF ResultInv, TrueResult
  <2>6. RequestInv'
    BY <1>2, <2>3 DEF RequestInv
  <2> QED
    BY <2>3, <2>4, <2>5, <2>6
<1> QED
  BY <1>1, <1>2 DEF Continue

-----------------------------------------------------------------------------
(* The debugger under the sidebar.                                         *)
(* Every step of the sidebar is one of the debugger or leaves it alone.    *)
LEMMA StepsOfDebugger ==
  ASSUME TypeOK, [SidebarNext]_allVars PROVE [Next]_vars
<1>1. CASE SessionStarts
  BY <1>1 DEF SessionStarts, Next, Socket
<1>2. CASE SessionEnds
  BY <1>2 DEF SessionEnds, Next, Socket
<1>3. CASE DebuggerStep
  BY <1>3 DEF DebuggerStep, Next
<1>4. CASE OnRootScopeListed
  <2>1. session \in Attempts /\ OnRootScope(session)
    BY <1>4 DEF OnRootScopeListed, Answered, TypeOK
  <2> QED
    BY <2>1 DEF Next
<1>5. CASE OnListed \/ OnListError \/ GetRootItems
  BY <1>5 DEF OnListed, OnListError, GetRootItems
<1>6. CASE (\E task \in tree.due : Call(task)) \/ \E scope \in Scopes : Expand(scope)
  BY <1>6 DEF Call, Expand
<1>7. CASE UNCHANGED allVars
  BY <1>7 DEF allVars
<1> QED
  BY <1>1, <1>2, <1>3, <1>4, <1>5, <1>6, <1>7 DEF SidebarNext

-----------------------------------------------------------------------------
(* Each step keeps the sidebar's invariant.                                *)
TreePart == TreeInv /\ RequestInv /\ FollowInv /\ CacheInv /\ ResultInv

LEMMA SidebarStarts == SidebarInit => SidebarInv
<1> SUFFICES ASSUME SidebarInit PROVE SidebarInv
  OBVIOUS
<1>1. IInv
  BY InitIInv DEF SidebarInit
<1>2. /\ tree = NewTree(0, 0) /\ requests = <<>> /\ cache = [n \in Attempts |-> Nothing]
      /\ sidebar = EmptySidebar /\ session = 0 /\ ~outdated
  BY DEF SidebarInit, Init
<1>3. /\ tree = [watch |-> 0, scopes |-> 0, due |-> tree.due, tasks |-> {}, results |-> Nothing]
      /\ tree.due = {}
  BY <1>2 DEF NewTree, Task
<1>4. tree.watch = 0 /\ tree.scopes = 0 /\ tree.tasks = {} /\ tree.results = Nothing
  BY <1>3
<1>5. DOMAIN Nothing = {}
  BY DEF Nothing
<1>6. TreeInv
  BY <1>3, <1>4, <1>5, DebuggerAssumption DEF TreeInv
<1>7. RequestInv
  BY <1>2 DEF RequestInv
<1>8. FollowInv
  BY <1>2, <1>4 DEF FollowInv, TreeFollows, EmptySidebar
<1>9. CacheInv /\ ResultInv
  BY <1>2, <1>4, <1>5 DEF CacheInv, Faithful, ResultInv
<1> QED
  BY <1>1, <1>6, <1>7, <1>8, <1>9 DEF SidebarInv

(* A new session finds no root items of an earlier one.                    *)
LEMMA StartsKeep ==
  ASSUME SidebarInv, SessionStarts PROVE TreePart'
<1> USE DEF SidebarInv
<1>1. PICK n \in Attempts : OnConnect(n)
  BY DEF SessionStarts
<1>2. UNCHANGED <<cache, tree, outdated>> /\ requests' = <<GetRootScope>>
  BY DEF SessionStarts
<1>3. /\ session = 0 /\ session' = n /\ sidebar.observer = 0 /\ sidebar.scopes = 0
      /\ sidebar'.session = n /\ sidebar'.scopes = 0
  <2>1. phase[n] = "connecting" /\ session' = n
        /\ sidebar' = [sidebar EXCEPT !.session = n, !.observer = n]
    BY <1>1 DEF OnConnect
  <2>2. session = 0
    <3>1. n = attempts /\ terminal = n
      BY <2>1 DEF IInv, OneAttempt, Live, AttemptInv, Underway
    <3>2. session # n
      BY <2>1 DEF IInv, AttemptInv
    <3> QED
      BY <3>1, <3>2 DEF IInv, StatusAgrees
  <2>3. sidebar.observer = 0 /\ sidebar.scopes = 0
    BY <2>2 DEF IInv, ViewsFollow
  <2>4. sidebar \in [session : 0..MaxAttempts, observer : 0..MaxAttempts, scopes : 0..MaxAttempts]
    BY DEF IInv, TypeOK
  <2> QED
    BY <2>1, <2>2, <2>3, <2>4
<1>4. TreeInv' /\ CacheInv' /\ ResultInv'
  BY <1>2 DEF TreeInv, Asked, CacheInv, ResultInv
<1>5. RequestInv'
  <2>1. GetRootScope \in AllRequests /\ GetRootScope.task.call = "root"
    BY DEF AllRequests, GetRootScope, Task
  <2>2. requests' \in Seq(AllRequests) /\ Len(requests') = 1 /\ requests'[1] = GetRootScope
    BY <1>2, <2>1
  <2> QED
    BY <2>1, <2>2 DEF RequestInv, ScopeCalls
<1>6. FollowInv'
  BY <1>2, <1>3 DEF FollowInv, TreeFollows
<1> QED
  BY <1>4, <1>5, <1>6 DEF TreePart

(* The end of a session makes the tree outdated.                           *)
LEMMA EndsKeep ==
  ASSUME SidebarInv, SessionEnds PROVE TreePart'
<1> USE DEF SidebarInv
<1>1. UNCHANGED <<cache, tree>> /\ requests' = <<>> /\ outdated'
  BY DEF SessionEnds
<1>2. session' = 0 /\ sidebar' = EmptySidebar
  BY DEF SessionEnds, StopCommand, OnError, OnClose, StopSession, DisposeSession, FireNull
<1>3. TreeInv' /\ CacheInv' /\ ResultInv'
  BY <1>1 DEF TreeInv, Asked, CacheInv, ResultInv
<1>4. RequestInv' /\ FollowInv'
  BY <1>1, <1>2 DEF RequestInv, FollowInv, TreeFollows, EmptySidebar
<1> QED
  BY <1>3, <1>4 DEF TreePart

(* The other steps of the debugger do not concern the sidebar.             *)
LEMMA DebuggerKeeps ==
  ASSUME SidebarInv, DebuggerStep \/ UNCHANGED allVars PROVE TreePart'
<1>1. UNCHANGED <<cache, tree, requests, outdated, session, sidebar>>
  <2>1. CASE DebuggerStep
    BY <2>1 DEF DebuggerStep, StartSession, SetContext, Launched, CreateConnection, Exit,
         OnSimulationStatus, treeVars
  <2>2. CASE UNCHANGED allVars
    BY <2>2 DEF allVars, vars, treeVars
  <2> QED
    BY <2>1, <2>2
<1> QED
  BY <1>1 DEF SidebarInv, TreePart, TreeInv, Asked, RequestInv, FollowInv, TreeFollows,
     CacheInv, ResultInv

(* What is left of the requests is as it was.                              *)
LEMMA RestOfRequests ==
  ASSUME RequestInv, requests # <<>>
  PROVE  /\ Head(requests) = requests[1] /\ 1 \in 1..Len(requests)
         /\ Head(requests) \in AllRequests
         /\ Tail(requests) \in Seq(AllRequests)
         /\ \A i \in 1..Len(Tail(requests)) :
              /\ Tail(requests)[i].task.call \in ScopeCalls => tree.scopes = session
              /\ Tail(requests)[i].task.call = "watch" => tree.watch # 0
<1>1. requests \in Seq(AllRequests)
  BY DEF RequestInv
<1>2. /\ Head(requests) \in AllRequests /\ Tail(requests) \in Seq(AllRequests)
      /\ Len(Tail(requests)) = Len(requests) - 1 /\ Len(requests) \in Nat
      /\ \A i \in 1..Len(Tail(requests)) : Tail(requests)[i] = requests[i + 1]
  BY <1>1, HeadTailProperties
<1>3. \A i \in 1..Len(Tail(requests)) : i + 1 \in 1..Len(requests)
  BY <1>2
<1>4. Head(requests) = requests[1] /\ 1 \in 1..Len(requests)
  BY <1>1
<1> QED
  BY <1>2, <1>3, <1>4 DEF RequestInv

(* The root scope makes the tree outdated.                                 *)
LEMMA RootScopeKeeps ==
  ASSUME SidebarInv, OnRootScopeListed PROVE TreePart'
<1> USE DEF SidebarInv
<1>1. UNCHANGED <<cache, tree>> /\ requests' = Tail(requests) /\ outdated' /\ requests # <<>>
  BY DEF OnRootScopeListed, Answered
<1>2. session' = session /\ sidebar' = [sidebar EXCEPT !.scopes = session]
  BY DEF OnRootScopeListed, OnRootScope
<1>3. sidebar'.session = session'
  <2>1. sidebar \in [session : 0..MaxAttempts, observer : 0..MaxAttempts, scopes : 0..MaxAttempts]
    BY DEF IInv, TypeOK
  <2>2. sidebar.session = session
    BY DEF FollowInv
  <2> QED
    BY <1>2, <2>1, <2>2
<1>4. TreeInv' /\ CacheInv' /\ ResultInv'
  BY <1>1 DEF TreeInv, Asked, CacheInv, ResultInv
<1>5. RequestInv'
  BY <1>1, <1>2, RestOfRequests DEF RequestInv
<1>6. FollowInv'
  BY <1>1, <1>3 DEF FollowInv, TreeFollows
<1> QED
  BY <1>4, <1>5, <1>6 DEF TreePart

(* The tree keeps following if neither it nor the debugger changes.        *)
LEMMA FollowKept ==
  ASSUME FollowInv, UNCHANGED <<session, sidebar, outdated>>,
         tree'.watch = tree.watch, tree'.scopes = tree.scopes
  PROVE  FollowInv'
  BY DEF FollowInv, TreeFollows

(* A listing is cached as it is, for the task that waits and for others.   *)
LEMMA ListedKeeps ==
  ASSUME SidebarInv, OnListed PROVE TreePart'
<1> USE DEF SidebarInv
<1> DEFINE request == Head(requests)
           listing == request.listing
<1>1. /\ requests # <<>> /\ request # GetRootScope /\ session \in process
      /\ UNCHANGED <<session, sidebar, outdated>>
  BY DEF OnListed, Answered, vars
<1>2. session \in Attempts
  BY <1>1 DEF IInv, TypeOK
<1>3. /\ request = requests[1] /\ 1 \in 1..Len(requests) /\ request \in AllRequests
      /\ Tail(requests) \in Seq(AllRequests)
      /\ \A i \in 1..Len(Tail(requests)) :
           /\ Tail(requests)[i].task.call \in ScopeCalls => tree.scopes = session
           /\ Tail(requests)[i].task.call = "watch" => tree.watch # 0
  BY <1>1, RestOfRequests
<1>4. listing \in AllListings /\ (request.task \in AllTasks \/ request.task = Dropped)
  BY <1>1, <1>3, RequestCases
<1>5. PICK names \in ServerReplies(session, listing) :
        LET c == [l \in DOMAIN cache[session] \cup {listing} |->
                    IF l = listing THEN NestedIn(listing, names) ELSE cache[session][l]]
        IN  /\ cache' = [cache EXCEPT ![session] = c]
            /\ IF request.task # Dropped
                 THEN Continue(request.task, session, c, Tail(requests))
                 ELSE requests' = Tail(requests) /\ UNCHANGED tree
  BY DEF OnListed
<1> DEFINE c == [l \in DOMAIN cache[session] \cup {listing} |->
                    IF l = listing THEN NestedIn(listing, names) ELSE cache[session][l]]
<1>6. Faithful(session, c)
  <2>1. NestedIn(listing, names) = TrueListing(session, listing)
    BY <1>2, <1>4, ListingIsTrue
  <2>2. Faithful(session, cache[session])
    BY <1>2 DEF CacheInv
  <2> QED
    BY <2>1, <2>2 DEF Faithful
<1>7. cache' = [cache EXCEPT ![session] = c]
      /\ (request.task # Dropped => Continue(request.task, session, c, Tail(requests)))
      /\ (request.task = Dropped => requests' = Tail(requests) /\ UNCHANGED tree)
  BY <1>5
<1> HIDE DEF c, request, listing
<1>8. CacheInv'
  BY <1>2, <1>6, <1>7 DEF CacheInv
<1>9. CASE request.task = Dropped
  <2>1. requests' = Tail(requests) /\ UNCHANGED tree
    BY <1>7, <1>9
  <2>2. TreeInv' /\ ResultInv'
    BY <1>1, <2>1 DEF TreeInv, Asked, ResultInv
  <2>3. RequestInv'
    BY <1>1, <1>3, <2>1 DEF RequestInv
  <2> QED
    BY <1>1, <1>8, <2>1, <2>2, <2>3, FollowKept DEF TreePart
<1>10. CASE request.task # Dropped
  <2> DEFINE task == request.task
  <2>1. task \in AllTasks /\ Continue(task, session, c, Tail(requests))
    BY <1>4, <1>7, <1>10
  <2>2. /\ task.call \in ScopeCalls => tree.scopes = session
        /\ task.call = "watch" => tree.watch # 0
    BY <1>3 DEF RequestInv
  <2>3. Asked(task)
    BY <1>2, <2>2 DEF Asked, Attempts
  <2>4. task.call = "watch" /\ ~outdated => session = tree.watch
    BY <2>2 DEF FollowInv
  <2> HIDE DEF task
  <2>5. /\ TreeInv' /\ RequestInv' /\ ResultInv'
        /\ tree'.watch = tree.watch /\ tree'.scopes = tree.scopes
    BY <1>1, <1>2, <1>3, <1>6, <2>1, <2>2, <2>3, <2>4, ContinueKeeps
  <2> QED
    BY <1>1, <1>8, <2>5, FollowKept DEF TreePart
<1> QED
  BY <1>9, <1>10

(* An error leaves everything but the task as it is.                       *)
LEMMA ErrorKeeps ==
  ASSUME SidebarInv, OnListError PROVE TreePart'
<1> USE DEF SidebarInv
<1>1. /\ requests # <<>> /\ requests' = Tail(requests)
      /\ UNCHANGED <<session, sidebar, outdated, cache>>
      /\ tree' = [tree EXCEPT !.tasks = @ \ {Head(requests).task}]
  BY DEF OnListError, Answered, vars
<1>2. tree' = [watch |-> tree.watch, scopes |-> tree.scopes, due |-> tree.due,
               tasks |-> tree.tasks \ {Head(requests).task}, results |-> tree.results]
  BY <1>1 DEF TreeInv
<1>3. /\ tree'.watch = tree.watch /\ tree'.scopes = tree.scopes /\ tree'.due = tree.due
      /\ tree'.results = tree.results /\ tree'.tasks = tree.tasks \ {Head(requests).task}
  BY <1>2
<1>4. TreeInv'
  BY <1>2, <1>3 DEF TreeInv, Asked
<1>5. ResultInv' /\ CacheInv'
  BY <1>1, <1>3 DEF ResultInv, CacheInv
<1>6. RequestInv'
  BY <1>1, <1>3, RestOfRequests DEF RequestInv
<1> QED
  BY <1>1, <1>3, <1>4, <1>5, <1>6, FollowKept DEF TreePart

(* VS Code reads the root items: nothing of the old tree is left in it.    *)
LEMMA RootItemsKeep ==
  ASSUME SidebarInv, GetRootItems PROVE TreePart'
<1> USE DEF SidebarInv
<1> DEFINE w == sidebar.observer
           s == sidebar.scopes
<1>1. /\ ~outdated' /\ UNCHANGED <<session, sidebar>>
      /\ tree' = NewTree(w, s)
      /\ cache' = [n \in Attempts |-> IF n = session THEN cache[n] ELSE Nothing]
  BY DEF GetRootItems, vars
<1>2. requests' = [i \in DOMAIN requests |-> IF requests[i] = GetRootScope THEN requests[i]
                                             ELSE [requests[i] EXCEPT !.task = Dropped]]
  BY DEF GetRootItems
<1>3. w = session /\ s \in {0, session} /\ session \in 0..MaxAttempts
  BY DEF IInv, ViewsFollow, TypeOK
<1> HIDE DEF w, s
<1>4. /\ tree'.watch = w /\ tree'.scopes = s /\ tree'.tasks = {} /\ tree'.results = Nothing
      /\ tree'.due = {task \in {Task("watch", Root), Task("children", Root)} :
            IF task.call = "watch" THEN w # 0 /\ WatchList # <<>> ELSE s # 0}
      /\ tree' = [watch |-> tree'.watch, scopes |-> tree'.scopes, due |-> tree'.due,
                  tasks |-> tree'.tasks, results |-> tree'.results]
  BY <1>1 DEF NewTree
<1>5. DOMAIN Nothing = {}
  BY DEF Nothing
<1>6. TreeInv'
  <2>1. ASSUME NEW task \in tree'.due
        PROVE  /\ task \in AllTasks
               /\ task.call \in ScopeCalls => s # 0
               /\ task.call = "watch" => w # 0
    <3>1. CASE task = Task("watch", Root)
      BY <1>4, <2>1, <3>1 DEF AllTasks, Task, ScopeCalls
    <3>2. CASE task = Task("children", Root)
      <4>1. task.call = "children" /\ s # 0
        BY <1>4, <2>1, <3>2 DEF Task
      <4>2. s \in Attempts
        BY <1>3, <4>1, DebuggerAssumption DEF Attempts
      <4>3. Root \in Scopes
        BY <4>2, RootIsScope
      <4> QED
        BY <3>2, <4>1, <4>3 DEF AllTasks, Task, ScopeCalls
    <3> QED
      BY <1>4, <2>1, <3>1, <3>2
  <2>2. \A task \in tree'.due \cup DOMAIN tree'.results : task \in AllTasks /\ Asked(task)'
    BY <1>4, <1>5, <2>1 DEF Asked
  <2>3. tree'.watch \in 0..MaxAttempts /\ tree'.scopes \in 0..MaxAttempts
    BY <1>3, <1>4, DebuggerAssumption
  <2> QED
    BY <1>4, <2>2, <2>3 DEF TreeInv
<1>7. ResultInv'
  BY <1>4, <1>5 DEF ResultInv
<1>8. FollowInv'
  BY <1>1, <1>3, <1>4 DEF FollowInv, TreeFollows, s
<1>9. CacheInv'
  <2>1. \A n \in Attempts : Faithful(n, Nothing)
    BY <1>5 DEF Faithful
  <2> QED
    BY <1>1, <2>1 DEF CacheInv
<1>10. RequestInv'
  <2>1. requests \in Seq(AllRequests) /\ DOMAIN requests = 1..Len(requests) /\ Len(requests) \in Nat
    BY LenProperties DEF RequestInv
  <2>2. ASSUME NEW i \in 1..Len(requests)
        PROVE  /\ requests'[i] \in AllRequests
               /\ requests'[i].task.call \in {"root", "dropped"}
    <3>1. requests[i] \in AllRequests
      BY <2>1
    <3>2. CASE requests[i] = GetRootScope
      BY <1>2, <2>1, <3>1, <3>2 DEF GetRootScope, Task
    <3>3. CASE requests[i] # GetRootScope
      <4>1. requests'[i] = [requests[i] EXCEPT !.task = Dropped]
        BY <1>2, <2>1, <3>3
      <4>2. requests[i] \in [task : AllTasks \cup {Dropped}, listing : AllListings]
        BY <3>1, <3>3, RequestCases
      <4>3. requests'[i] \in [task : AllTasks \cup {Dropped}, listing : AllListings]
            /\ requests'[i].task = Dropped
        BY <4>1, <4>2
      <4> QED
        BY <4>3 DEF AllRequests, Dropped, Task
    <3> QED
      BY <3>2, <3>3
  <2>3. requests' \in [1..Len(requests) -> AllRequests]
    BY <1>2, <2>1, <2>2
  <2>4. requests' \in Seq(AllRequests) /\ Len(requests') = Len(requests)
    <3>1. requests' \in Seq(AllRequests)
      BY <2>1, <2>3, SeqDef
    <3>2. DOMAIN requests' = 1..Len(requests') /\ Len(requests') \in Nat
      BY <3>1, LenProperties
    <3> QED
      BY <2>1, <2>3, <3>1, <3>2
  <2> QED
    BY <2>2, <2>4 DEF RequestInv, ScopeCalls
<1> QED
  BY <1>6, <1>7, <1>8, <1>9, <1>10 DEF TreePart

(* VS Code calls what it is due to call.                                   *)
LEMMA CallKeeps ==
  ASSUME SidebarInv, NEW task \in tree.due, Call(task) PROVE TreePart'
<1> USE DEF SidebarInv
<1>1. UNCHANGED <<session, sidebar, outdated, cache>>
  BY DEF Call, vars
<1>2. task \in AllTasks /\ Asked(task)
  BY DEF TreeInv
<1>3. CacheInv'
  BY <1>1 DEF CacheInv
<1>4. /\ requests \in Seq(AllRequests)
      /\ \A i \in 1..Len(requests) :
           /\ requests[i].task.call \in ScopeCalls => tree.scopes = session
           /\ requests[i].task.call = "watch" => tree.watch # 0
  BY DEF RequestInv
<1>5. session \in 0..MaxAttempts /\ sidebar.session = session /\ tree.scopes \in 0..MaxAttempts
  BY DEF IInv, TypeOK, FollowInv, TreeInv
<1>6. \A n \in 0..MaxAttempts : n # 0 => n \in Attempts
  BY DebuggerAssumption DEF Attempts
<1>7. ASSUME NEW n \in Attempts, Continue(task, n, cache[n], requests),
             task.call \in ScopeCalls => n = tree.scopes,
             task.call = "watch" /\ ~outdated => n = tree.watch
      PROVE  TreePart'
  <2>1. Faithful(n, cache[n])
    BY DEF CacheInv
  <2>2. /\ TreeInv' /\ RequestInv' /\ ResultInv'
        /\ tree'.watch = tree.watch /\ tree'.scopes = tree.scopes
    BY <1>1, <1>2, <1>4, <1>7, <2>1, ContinueKeeps
  <2> QED
    BY <1>1, <1>3, <2>2, FollowKept DEF TreePart
<1>8. CASE task.call = "watch" /\ sidebar.session # 0
  <2>1. session \in Attempts /\ Continue(task, session, cache[session], requests)
    BY <1>5, <1>6, <1>8 DEF Call
  <2>2. ~outdated => session = tree.watch
    BY <1>2, <1>8 DEF Asked, FollowInv
  <2> QED
    BY <1>7, <1>8, <2>1, <2>2 DEF ScopeCalls
<1>9. CASE task.call = "watch" /\ sidebar.session = 0
  <2>1. tree' = [tree EXCEPT !.due = @ \ {task}] /\ UNCHANGED requests
    BY <1>9 DEF Call
  <2>2. tree' = [watch |-> tree.watch, scopes |-> tree.scopes, due |-> tree.due \ {task},
                 tasks |-> tree.tasks, results |-> tree.results]
    BY <2>1 DEF TreeInv
  <2>3. /\ tree'.watch = tree.watch /\ tree'.scopes = tree.scopes
        /\ tree'.due = tree.due \ {task} /\ tree'.tasks = tree.tasks
        /\ tree'.results = tree.results
    BY <2>2
  <2>4. TreeInv'
    BY <2>2, <2>3 DEF TreeInv, Asked
  <2>5. RequestInv' /\ ResultInv'
    BY <1>1, <2>1, <2>3 DEF RequestInv, ResultInv
  <2> QED
    BY <1>1, <1>3, <2>3, <2>4, <2>5, FollowKept DEF TreePart
<1>10. CASE task.call # "watch"
  <2>1. task.call \in ScopeCalls
    BY <1>2, <1>10, TaskCases DEF ScopeCalls
  <2>2. tree.scopes \in Attempts
    BY <1>2, <1>5, <1>6, <2>1 DEF Asked
  <2>3. Continue(task, tree.scopes, cache[tree.scopes], requests)
    BY <1>10 DEF Call
  <2> QED
    BY <1>7, <1>10, <2>2, <2>3
<1> QED
  BY <1>8, <1>9, <1>10

(* A scope that can be expanded is one of the tree.                        *)
LEMMA ExpandKeeps ==
  ASSUME SidebarInv, NEW scope \in Scopes, Expand(scope) PROVE TreePart'
<1> USE DEF SidebarInv
<1> DEFINE task == Task("children", scope)
<1>1. UNCHANGED <<session, sidebar, outdated, cache, requests>>
      /\ tree' = [tree EXCEPT !.due = @ \cup {task}]
  BY DEF Expand, vars
<1>2. tree.scopes # 0
  <2>1. CASE Task("item", scope) \in DOMAIN tree.results
    <3>1. Asked(Task("item", scope))
      BY <2>1 DEF TreeInv
    <3> QED
      BY <3>1 DEF Asked, Task, ScopeCalls
  <2> QED
    BY <2>1 DEF Expand
<1>3. task \in AllTasks /\ task.call = "children"
  BY DEF AllTasks, Task, ScopeCalls
<1> HIDE DEF task
<1>4. tree' = [watch |-> tree.watch, scopes |-> tree.scopes, due |-> tree.due \cup {task},
               tasks |-> tree.tasks, results |-> tree.results]
  BY <1>1 DEF TreeInv
<1>5. /\ tree'.watch = tree.watch /\ tree'.scopes = tree.scopes
      /\ tree'.due = tree.due \cup {task} /\ tree'.tasks = tree.tasks
      /\ tree'.results = tree.results
  BY <1>4
<1>6. TreeInv'
  <2>1. Asked(task)
    BY <1>2, <1>3 DEF Asked
  <2>2. \A t \in tree'.due \cup DOMAIN tree'.results : t \in AllTasks /\ Asked(t)'
    BY <1>3, <1>5, <2>1 DEF TreeInv, Asked
  <2> QED
    BY <1>4, <1>5, <2>2 DEF TreeInv
<1>7. RequestInv' /\ ResultInv' /\ CacheInv'
  BY <1>1, <1>5 DEF RequestInv, ResultInv, CacheInv
<1> QED
  BY <1>1, <1>5, <1>6, <1>7, FollowKept DEF TreePart

LEMMA SidebarStep == SidebarInv /\ [SidebarNext]_allVars => SidebarInv'
<1> SUFFICES ASSUME SidebarInv, [SidebarNext]_allVars PROVE SidebarInv'
  OBVIOUS
<1>1. IInv'
  BY StepsOfDebugger, NextIInv DEF SidebarInv, IInv
<1>2. TreePart'
  <2>1. CASE SessionStarts \/ SessionEnds
    BY <2>1, StartsKeep, EndsKeep
  <2>2. CASE DebuggerStep \/ UNCHANGED allVars
    BY <2>2, DebuggerKeeps
  <2>3. CASE OnRootScopeListed \/ OnListed \/ OnListError
    BY <2>3, RootScopeKeeps, ListedKeeps, ErrorKeeps
  <2>4. CASE GetRootItems
    BY <2>4, RootItemsKeep
  <2>5. CASE \E task \in tree.due : Call(task)
    BY <2>5, CallKeeps
  <2>6. CASE \E scope \in Scopes : Expand(scope)
    BY <2>6, ExpandKeeps
  <2> QED
    BY <2>1, <2>2, <2>3, <2>4, <2>5, <2>6 DEF SidebarNext
<1> QED
  BY <1>1, <1>2 DEF SidebarInv, TreePart

(* The inductive invariant holds of every behaviour of the sidebar.        *)
THEOREM SidebarInductive == SidebarSpec => []SidebarInv
  BY SidebarStarts, SidebarStep, PTL DEF SidebarSpec

(* The sidebar adds nothing to what the debugger does, so that what is     *)
(* proved of the debugger holds under the sidebar too (debugger.ts,        *)
(* sidebar.ts:279-292).                                                    *)
THEOREM SidebarRunsDebugger == SidebarSpec => Spec
<1>1. SidebarInit => Init
  BY DEF SidebarInit
<1>2. SidebarInv /\ [SidebarNext]_allVars => [Next]_vars
  BY StepsOfDebugger DEF SidebarInv, IInv
<1> QED
  BY <1>1, <1>2, SidebarInductive, PTL DEF SidebarSpec, Spec

(* Once VS Code has read the root items they are those of the current      *)
(* session, for any number of sessions and in whatever order the root      *)
(* scope, the end of the session and VS Code come (sidebar.ts:279-292).    *)
THEOREM TreeAlwaysFollows == SidebarSpec => []TreeFollows
<1>1. SidebarInv => TreeFollows
  BY DEF SidebarInv, FollowInv
<1> QED
  BY <1>1, SidebarInductive, PTL

(* The tree shows the design of its session, for every design and watch    *)
(* list, whatever was cached, failed or overlapped and whichever scopes    *)
(* the server lists (session.ts:48-129, sidebar.ts:186-260).               *)
THEOREM TreeShowsDesign == SidebarSpec => []TreeIsDesign
<1>1. SidebarInv => TreeIsDesign
  <2> SUFFICES ASSUME SidebarInv PROVE TreeIsDesign
    OBVIOUS
  <2>1. \A task \in DOMAIN tree.results :
          /\ task.call \in ScopeCalls => tree.results[task] = TrueResult(task, tree.scopes)
          /\ task.call = "watch" /\ ~outdated => tree.results[task] = TrueResult(task, tree.watch)
    BY DEF SidebarInv, ResultInv
  <2>2. ASSUME NEW s \in Scopes, Task("children", s) \in DOMAIN tree.results
        PROVE  tree.results[Task("children", s)] =
                 {<<"scope", name>> : name \in Nested(tree.scopes, s)}
                   \cup {<<"variable", name>> : name \in ItemsIn(tree.scopes, s)}
    <3>1. Task("children", s).call = "children" /\ Task("children", s).of = s
      BY DEF Task
    <3>2. tree.results[Task("children", s)] = TrueResult(Task("children", s), tree.scopes)
      BY <2>1, <2>2, <3>1 DEF ScopeCalls
    <3> QED
      BY <3>1, <3>2 DEF TrueResult
  <2>3. ASSUME NEW s \in Scopes, Task("item", s) \in DOMAIN tree.results
        PROVE  tree.results[Task("item", s)] =
                 {IF Nested(tree.scopes, s) \cup ItemsIn(tree.scopes, s) # {}
                    THEN "collapsed" ELSE "none"}
    <3>1. Task("item", s).call = "item" /\ Task("item", s).of = s
      BY DEF Task
    <3>2. tree.results[Task("item", s)] = TrueResult(Task("item", s), tree.scopes)
      BY <2>1, <2>3, <3>1 DEF ScopeCalls
    <3> QED
      BY <3>1, <3>2 DEF TrueResult
  <2>4. ASSUME ~outdated, Task("watch", Root) \in DOMAIN tree.results
        PROVE  tree.results[Task("watch", Root)] =
                 {i \in DOMAIN WatchList : WatchList[i] \in Design[tree.watch].items}
    <3>1. Task("watch", Root).call = "watch"
      BY DEF Task
    <3>2. tree.results[Task("watch", Root)] = TrueResult(Task("watch", Root), tree.watch)
      BY <2>1, <2>4, <3>1
    <3> QED
      BY <3>1, <3>2 DEF TrueResult
  <2> QED
    BY <2>2, <2>3, <2>4 DEF TreeIsDesign, Nested
<1> QED
  BY <1>1, SidebarInductive, PTL
=============================================================================
