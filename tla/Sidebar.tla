------------------------------ MODULE Sidebar ------------------------------
(***************************************************************************)
(* The sidebar's tree over the debugger: scopes and variables of the       *)
(* design, listed by the session on demand and cached there                *)
(* (session.ts:44-129, scope.ts, variable.ts), and shown by ScopeTreeItem  *)
(* and WatchTreeItem (sidebar.ts:160-261, 279-316).                        *)
(*                                                                         *)
(* Names are sequences of parts.  Every session has a design of its own.   *)
(* A task is a call of VS Code: getChildren() or getTreeItem() of a scope, *)
(* or getChildren() of the watch item.  It awaits one listing after the    *)
(* other; those it has got are in the cache.                               *)
(***************************************************************************)
EXTENDS Debugger, Sequences, SequencesExt

CONSTANTS
    Design,      \* of each session: the names of its scopes and its items
    WatchList,   \* the variables in the watch list, a sequence of names
    MaxExpands,  \* bound: scopes expanded by the user
    MaxErrors    \* bound: listings that fail

Root == <<>>  \* the name of the root scope

ASSUME SidebarAssumption ==
    /\ \A n \in Attempts :
         /\ Root \in Design[n].scopes /\ Root \notin Design[n].items
         /\ \A name \in Design[n].scopes \cup Design[n].items : name \in Seq(Range(name))
    /\ \A i \in DOMAIN WatchList : WatchList[i] # Root
    /\ MaxExpands \in Nat
    /\ MaxErrors \in Nat

VARIABLES
    cache,     \* Session.scopeCache and itemCache of each session, by listing
    requests,  \* commands of the current session without a reply, in order
    tree,      \* VS Code: the root items it shows, by session, the tasks it
               \* is due to call, those that have not returned, and results
    outdated,  \* VS Code was told that the tree has changed
    expands,
    errors

treeVars == <<cache, requests, tree, outdated, expands, errors>>
allVars == <<vars, treeVars>>

Listing(kind, scope) == [kind |-> kind, scope |-> scope]
Task(call, of) == [call |-> call, of |-> of]

GetRootScope == [task |-> Task("root", Root), listing |-> Listing("scopes", Root)]

(* The task of a request whose result VS Code does not need any more.      *)
Dropped == Task("dropped", Root)

Nothing == [x \in {} |-> {}]

(* The root items are expanded, unless the watch list is empty, so that    *)
(* VS Code asks for their children.                                        *)
NewTree(watch, scopes) ==
    [watch |-> watch,
     scopes |-> scopes,
     due |-> {task \in {Task("watch", Root), Task("children", Root)} :
                IF task.call = "watch" THEN watch # 0 /\ WatchList # <<>> ELSE scopes # 0},
     tasks |-> {},
     results |-> Nothing]

SidebarInit ==
    /\ Init
    /\ cache = [n \in Attempts |-> Nothing]
    /\ requests = <<>>
    /\ tree = NewTree(0, 0)
    /\ outdated = FALSE
    /\ expands = 0
    /\ errors = 0

-----------------------------------------------------------------------------
(* The server lists the items of a scope; it may list more scopes than     *)
(* those in the scope.                                                     *)
ItemsIn(n, scope) == {name \in Design[n].items : Front(name) = scope}

ServerReplies(n, listing) ==
    IF listing.kind = "items"
      THEN {ItemsIn(n, listing.scope)}
      ELSE {Design[n].scopes, {name \in Design[n].scopes : IsPrefix(listing.scope, name)}}

(* Mutant: scopes further down are kept as well.                           *)
NestedInDeep(listing, names) ==
    IF listing.kind = "items" THEN names
    ELSE {name \in names : IsStrictPrefix(listing.scope, name)}

(* listScopesInScope() keeps the scopes directly in the scope.             *)
NestedIn(listing, names) ==
    IF listing.kind = "items" THEN names
    ELSE {name \in names :
            IsPrefix(listing.scope, name) /\ Len(name) = Len(listing.scope) + 1}

(* The listings a task awaits, in order.  The state of a scope's tree item *)
(* does not depend on the variables if there are nested scopes.            *)
Listings(task, c) ==
    CASE task.call = "children" -> <<Listing("scopes", task.of), Listing("items", task.of)>>
      [] task.call = "item" ->
            IF /\ Listing("scopes", task.of) \in DOMAIN c
               /\ c[Listing("scopes", task.of)] # {}
              THEN <<Listing("scopes", task.of)>>
              ELSE <<Listing("scopes", task.of), Listing("items", task.of)>>
      [] task.call = "watch" -> [i \in DOMAIN WatchList |-> Listing("items", Front(WatchList[i]))]

(* Mutant: a scope without nested scopes cannot be expanded.               *)
ItemStateByScopes(scopes, variables) == IF scopes # {} THEN "collapsed" ELSE "none"

ItemState(scopes, variables) == IF scopes # {} \/ variables # {} THEN "collapsed" ELSE "none"

(* Session.getVariable() finds the variable in the items of its scope.     *)
GetVariable(name, c) == name \in c[Listing("items", Front(name))]

(* What a task returns.                                                    *)
Result(task, c) ==
    LET scopes == c[Listing("scopes", task.of)]
        variables == c[Listing("items", task.of)]
    IN  CASE task.call = "children" ->
               {<<"scope", name>> : name \in scopes} \cup {<<"variable", name>> : name \in variables}
          [] task.call = "item" -> {ItemState(scopes, IF scopes # {} THEN {} ELSE variables)}
          [] task.call = "watch" -> {i \in DOMAIN WatchList : GetVariable(WatchList[i], c)}

(* VS Code asks for the tree items of the scopes among the children.       *)
ItemsOf(task, c) ==
    IF task.call # "children" THEN {}
    ELSE {Task("item", name) : name \in c[Listing("scopes", task.of)]}

(* The task goes on, with the session's cache c and the requests before:   *)
(* it awaits the first listing that is missing, or returns.  A command to  *)
(* a session that is over is lost.                                         *)
Continue(task, n, c, before) ==
    LET listings == Listings(task, c)
        cached(i) == listings[i] \in DOMAIN c
    IN  \/ \E i \in DOMAIN listings :
             /\ ~cached(i)
             /\ \A j \in 1..(i - 1) : cached(j)
             /\ requests' = IF n = session
                  THEN Append(before, [task |-> task, listing |-> listings[i]]) ELSE before
             /\ tree' = [tree EXCEPT !.due = @ \ {task}, !.tasks = @ \cup {task}]
        \/ /\ \A i \in DOMAIN listings : cached(i)
           /\ requests' = before
           /\ tree' = [tree EXCEPT
                !.due = (@ \ {task}) \cup ItemsOf(task, c),
                !.tasks = @ \ {task},
                !.results = [t \in DOMAIN @ \cup {task} |->
                                IF t = task THEN Result(task, c) ELSE @[t]]]

-----------------------------------------------------------------------------
(* Mutant: the root scope is not asked for.                                *)
SessionStartsRootless ==
    /\ \E n \in Attempts : OnConnect(n)
    /\ requests' = <<>>
    /\ UNCHANGED <<cache, tree, outdated, expands, errors>>

(* Steps of the debugger.  A new session has empty caches, and the handler *)
(* of the sidebar calls getRootScope(); when the session is over, VS Code  *)
(* is told, and no reply comes any more.                                   *)
SessionStarts ==
    /\ \E n \in Attempts : OnConnect(n)
    /\ requests' = <<GetRootScope>>
    /\ UNCHANGED <<cache, tree, outdated, expands, errors>>

SessionEnds ==
    /\ StopCommand \/ \E n \in Attempts : OnError(n) \/ OnClose(n)
    /\ requests' = <<>>
    /\ outdated' = TRUE
    /\ UNCHANGED <<cache, tree, expands, errors>>

DebuggerStep ==
    /\ \/ StartSession
       \/ SetContext
       \/ \E n \in Attempts :
            \/ Launched(n)
            \/ CreateConnection(n)
            \/ Exit(n)
            \/ \E status \in {"running", "paused", "finished"} : OnSimulationStatus(n, status)
    /\ UNCHANGED treeVars

-----------------------------------------------------------------------------
Answered == TurnOver /\ session \in process /\ requests # <<>>

(* Mutant: VS Code is not told.                                            *)
OnRootScopeListedUntold ==
    /\ Answered
    /\ Head(requests) = GetRootScope
    /\ OnRootScope(session)
    /\ requests' = Tail(requests)
    /\ UNCHANGED <<cache, tree, outdated, expands, errors>>

(* The root scope arrives, and VS Code is told.                            *)
OnRootScopeListed ==
    /\ Answered
    /\ Head(requests) = GetRootScope
    /\ OnRootScope(session)
    /\ requests' = Tail(requests)
    /\ outdated' = TRUE
    /\ UNCHANGED <<cache, tree, expands, errors>>

(* A reply is cached, and the task it is for goes on.                      *)
OnListed ==
    /\ Answered
    /\ Head(requests) # GetRootScope
    /\ LET request == Head(requests)
           listing == request.listing
       IN  \E names \in ServerReplies(session, listing) :
             LET c == [l \in DOMAIN cache[session] \cup {listing} |->
                        IF l = listing THEN NestedIn(listing, names) ELSE cache[session][l]]
             IN  /\ cache' = [cache EXCEPT ![session] = c]
                 /\ IF request.task # Dropped
                      THEN Continue(request.task, session, c, Tail(requests))
                      ELSE requests' = Tail(requests) /\ UNCHANGED tree
    /\ UNCHANGED <<vars, outdated, expands, errors>>

(* Mutant: the caller is not told of the error.                            *)
OnListErrorSilent ==
    /\ Answered
    /\ errors < MaxErrors
    /\ errors' = errors + 1
    /\ requests' = Tail(requests)
    /\ UNCHANGED <<vars, cache, tree, outdated, expands>>

(* An error is not cached, and ends the task without a result.             *)
OnListError ==
    /\ Answered
    /\ errors < MaxErrors
    /\ errors' = errors + 1
    /\ requests' = Tail(requests)
    /\ tree' = [tree EXCEPT !.tasks = @ \ {Head(requests).task}]
    /\ UNCHANGED <<vars, cache, outdated, expands>>

-----------------------------------------------------------------------------
(* VS Code reads the root items anew and drops what it showed.  A session  *)
(* that nothing refers to is gone, with its caches.                        *)
GetRootItems ==
    /\ outdated
    /\ outdated' = FALSE
    /\ tree' = NewTree(sidebar.observer, sidebar.scopes)
    /\ requests' = [i \in DOMAIN requests |->
            IF requests[i] = GetRootScope THEN requests[i] ELSE [requests[i] EXCEPT !.task = Dropped]]
    /\ cache' = [n \in Attempts |-> IF n = session THEN cache[n] ELSE Nothing]
    /\ UNCHANGED <<vars, expands, errors>>

(* Scopes keep their session; the watch item asks the current one, and     *)
(* fails if there is none.                                                 *)
Call(task) ==
    /\ task \in tree.due
    /\ IF task.call = "watch"
         THEN IF sidebar.session # 0
                THEN Continue(task, sidebar.session, cache[sidebar.session], requests)
                ELSE tree' = [tree EXCEPT !.due = @ \ {task}] /\ UNCHANGED requests
         ELSE Continue(task, tree.scopes, cache[tree.scopes], requests)
    /\ UNCHANGED <<vars, cache, outdated, expands, errors>>

(* The user expands a scope, perhaps again after an error.                 *)
Expand(scope) ==
    LET task == Task("children", scope)
    IN  /\ expands < MaxExpands
        /\ expands' = expands + 1
        /\ task \notin tree.due \cup tree.tasks \cup DOMAIN tree.results
        /\ \/ scope = Root /\ tree.scopes # 0
           \/ Task("item", scope) \in DOMAIN tree.results
              /\ tree.results[Task("item", scope)] = {"collapsed"}
        /\ tree' = [tree EXCEPT !.due = @ \cup {task}]
        /\ UNCHANGED <<vars, cache, requests, outdated, errors>>

Scopes == UNION {Design[n].scopes : n \in Attempts}

SidebarNext ==
    \/ SessionStarts
    \/ SessionEnds
    \/ DebuggerStep
    \/ OnRootScopeListed
    \/ OnListed
    \/ OnListError
    \/ GetRootItems
    \/ \E task \in tree.due : Call(task)
    \/ \E scope \in Scopes : Expand(scope)

SidebarSpec == SidebarInit /\ [][SidebarNext]_allVars

(* The server answers, and VS Code does what it was told or has promised.  *)
SidebarFairness ==
    /\ Fairness
    /\ WF_allVars(OnRootScopeListed \/ OnListed \/ OnListError)
    /\ WF_allVars(GetRootItems)
    /\ WF_allVars(\E task \in tree.due : Call(task))

FairSidebarSpec == SidebarSpec /\ SidebarFairness

-----------------------------------------------------------------------------
(* What is shown is the design of the session whose tree it is: below a    *)
(* scope the scopes and variables directly in it, a scope can be expanded  *)
(* if there are any, and watch items are those the design has, whatever    *)
(* was cached, failed or overlapped, and whichever scopes the server lists *)
(* (session.ts:48-129, sidebar.ts:186, 193-208, 226-260).                  *)
TreeIsDesign ==
    LET shown(task) == task \in DOMAIN tree.results
        nested(s) == {name \in Design[tree.scopes].scopes : name # Root /\ Front(name) = s}
        items(s) == ItemsIn(tree.scopes, s)
    IN  /\ \A s \in Scopes :
             /\ shown(Task("children", s)) =>
                  tree.results[Task("children", s)] =
                      {<<"scope", name>> : name \in nested(s)} \cup {<<"variable", name>> : name \in items(s)}
             /\ shown(Task("item", s)) =>
                  tree.results[Task("item", s)] =
                      {IF nested(s) \cup items(s) # {} THEN "collapsed" ELSE "none"}
        /\ ~outdated /\ shown(Task("watch", Root)) =>
             tree.results[Task("watch", Root)] =
                 {i \in DOMAIN WatchList : WatchList[i] \in Design[tree.watch].items}

(* Once VS Code has done what it was told, it shows the items of the       *)
(* current session, or of none, although the sidebar's handler awaits the  *)
(* root scope before it tells (sidebar.ts:279-292).                        *)
TreeFollows ==
    ~outdated =>
        /\ tree.scopes = sidebar.scopes
        /\ sidebar.scopes # 0 => tree.watch = session

(* Everything VS Code asks for while it builds the tree comes to an end:   *)
(* with a result, with an error, or with the tree (session.ts:48-129).     *)
TasksEnd ==
    \A task \in [call : {"children", "item"}, of : Scopes] \cup {Task("watch", Root)} :
        (task \in tree.tasks) ~> (task \notin tree.tasks)

(* The hierarchy of every session comes to be shown, unless the session    *)
(* ends first or a listing fails (session.ts:102-118, sidebar.ts:193-208,  *)
(* 279-292).                                                               *)
HierarchyAppears ==
    \A n \in Attempts :
        (session = n) ~> \/ tree.scopes = n /\ Task("children", Root) \in DOMAIN tree.results
                         \/ session # n
                         \/ errors > 0
=============================================================================
