------------------------------ MODULE Observer ------------------------------
(***************************************************************************)
(* Observer (observer.ts) and what it shares with Session: the time cursor *)
(* it samples at and the reference it binds (session.ts:131-197), up to    *)
(* the tree items of the sidebar that show its values (sidebar.ts:327-336).*)
(*                                                                         *)
(* Commands reach the server in order.  A sample is the values of the      *)
(* items bound at the server, in the order of the binding; the observer    *)
(* takes it apart by the positions of its own reference.                   *)
(***************************************************************************)
EXTENDS Integers, Sequences, SequencesExt

CONSTANTS
    Designations,   \* canonical keys of what can be observed
    Times,          \* where the cursor can be
    ValueAt(_, _),  \* the value of a designation at a time
    MaxMoves,       \* bound: cursor movements
    MaxErrors       \* bound: queries the server answers with an error

ASSUME ObserverAssumption ==
    /\ 0 \in Times
    /\ MaxMoves \in Nat
    /\ MaxErrors \in Nat

VARIABLES
    observables,    \* Observer.observables' keys, in insertion order
    value,          \* Observable.value, or Undefined
    callbacks,      \* designations with a callback registered
    reference,      \* Observer.reference, or NoReference
    sampling,       \* the Reference and time refresh() awaits a sample for
    samplePromise,  \* Observer.samplePromise is set
    refreshNeeded,  \* Observer.refreshNeeded
    epoch,          \* Session.referenceEpochs of the observer's name
    timeCursor,     \* Session.timeCursor
    requests,       \* commands on their way to the server
    replies,        \* replies to query_interval on their way back
    binding,        \* server: items the name refers to
    shown,          \* what the tree item of each designation displays
    changed,        \* tree items VS Code was told to render again
    disposed,       \* Observer.dispose() was called, and the link is gone
    moves, errors

vars == <<observables, value, callbacks, reference, sampling, samplePromise,
          refreshNeeded, epoch, timeCursor, requests, replies, binding,
          shown, changed, disposed, moves, errors>>

Undefined == "undefined"
NotRendered == "not rendered"

NoReference == [items |-> <<>>, epoch |-> 0]

Bind(items) == [command |-> "reference_items", items |-> items]
Query(time) == [command |-> "query_interval", time |-> time]

Init ==
    /\ observables = <<>>
    /\ value = [d \in Designations |-> Undefined]
    /\ callbacks = {}
    /\ reference = NoReference
    /\ sampling = NoReference
    /\ samplePromise = FALSE
    /\ refreshNeeded = FALSE
    /\ epoch = 0
    /\ timeCursor = 0
    /\ requests = <<>>
    /\ replies = <<>>
    /\ binding = <<>>
    /\ shown = [d \in Designations |-> NotRendered]
    /\ changed = {}
    /\ disposed = FALSE
    /\ moves = 0
    /\ errors = 0

-----------------------------------------------------------------------------
(* Mutant: a new binding is made, and the old reference used once more.    *)
RefreshStale(known, bound, cursor) ==
    LET fresh == [items |-> known, epoch |-> epoch + 1]
    IN  /\ refreshNeeded' = FALSE
        /\ samplePromise' = TRUE
        /\ reference' = IF bound = NoReference THEN fresh ELSE bound
        /\ epoch' = IF bound = NoReference THEN epoch + 1 ELSE epoch
        /\ sampling' = IF reference = NoReference THEN fresh ELSE reference
        /\ requests' = IF bound = NoReference
                         THEN requests \o <<Bind(known), Query(cursor)>>
                         ELSE Append(requests, Query(cursor))

(* One turn of the loop of refresh(), up to its await: the reference is    *)
(* bound if it was invalidated, and the values at the cursor are queried.  *)
(* `known' are the observables and `cursor' the cursor of that moment.     *)
Refresh(known, bound, cursor) ==
    LET fresh == [items |-> known, epoch |-> epoch + 1]
    IN  /\ refreshNeeded' = FALSE
        /\ samplePromise' = TRUE
        /\ IF bound = NoReference
             THEN /\ reference' = fresh
                  /\ epoch' = epoch + 1
                  /\ sampling' = fresh
                  /\ requests' = requests \o <<Bind(known), Query(cursor)>>
             ELSE /\ reference' = bound
                  /\ sampling' = bound
                  /\ requests' = Append(requests, Query(cursor))
                  /\ UNCHANGED epoch

(* Mutants: every call starts a refresh; a call during one is ignored.     *)
InvalidateAlways(known, bound, cursor) == Refresh(known, bound, cursor)

InvalidateIgnored(known, bound, cursor) ==
    IF samplePromise
      THEN /\ reference' = bound
           /\ UNCHANGED <<refreshNeeded, samplePromise, sampling, epoch, requests>>
      ELSE Refresh(known, bound, cursor)

Invalidate(known, bound, cursor) ==
    IF samplePromise
      THEN /\ refreshNeeded' = TRUE
           /\ reference' = bound
           /\ UNCHANGED <<samplePromise, sampling, epoch, requests>>
      ELSE Refresh(known, bound, cursor)

(* Mutant: a designation that is known already gets a second observable.   *)
ObserveTwice(d) ==
    /\ observables' = Append(observables, d)
    /\ Invalidate(Append(observables, d), NoReference, timeCursor)

(* VS Code renders a tree item, the first time or again: getValue()        *)
(* registers a one-shot callback, then reads the current value.            *)
Observe(d) ==
    IF d \in ToSet(observables)
      THEN UNCHANGED <<observables, reference, samplePromise, sampling,
                       refreshNeeded, epoch, requests>>
      ELSE /\ observables' = Append(observables, d)
           /\ Invalidate(Append(observables, d), NoReference, timeCursor)

Render(d) ==
    /\ ~disposed
    /\ shown[d] = NotRendered \/ d \in changed
    /\ Observe(d)
    /\ callbacks' = callbacks \cup {d}
    /\ shown' = [shown EXCEPT ![d] = value[d]]
    /\ changed' = changed \ {d}
    /\ UNCHANGED <<value, timeCursor, replies, binding, disposed, moves, errors>>

(* The session moves the cursor, and the observer is told.                 *)
MoveCursor(time) ==
    /\ ~disposed
    /\ moves < MaxMoves
    /\ moves' = moves + 1
    /\ timeCursor' = time
    /\ Invalidate(observables, reference, time)
    /\ UNCHANGED <<observables, value, callbacks, replies, binding, shown, changed,
                   disposed, errors>>

(* refresh() has its sample: Observable.update() for every handle of the   *)
(* reference it asked with, then the head of the loop.  A callback tells   *)
(* VS Code to render the item again, and is dropped.                       *)
Extract(sample) ==
    [d \in Designations |->
        IF d \in ToSet(sampling.items)
          THEN sample[CHOOSE i \in DOMAIN sampling.items : sampling.items[i] = d]
          ELSE value[d]]

(* Mutant: the one-shot callbacks are dropped before they are called.      *)
UpdateSilent(newValue) ==
    /\ value' = newValue
    /\ callbacks' = callbacks \ {d \in Designations : newValue[d] # value[d]}
    /\ UNCHANGED changed

Update(newValue) ==
    LET updated == {d \in Designations : newValue[d] # value[d]}
    IN  /\ value' = newValue
        /\ changed' = changed \cup (updated \cap callbacks)
        /\ callbacks' = callbacks \ updated

OnSample ==
    /\ ~disposed
    /\ replies # <<>>
    /\ Head(replies).type = "response"
    /\ replies' = Tail(replies)
    /\ Update(Extract(Head(replies).sample))
    /\ \/ /\ refreshNeeded
          /\ Refresh(observables, reference, timeCursor)
       \/ /\ ~refreshNeeded
          /\ samplePromise' = FALSE
          /\ sampling' = NoReference
          /\ UNCHANGED <<refreshNeeded, reference, epoch, requests>>
    /\ UNCHANGED <<observables, timeCursor, binding, shown, disposed, moves, errors>>

(* The query failed: refresh() throws, with samplePromise still set.       *)
OnError ==
    /\ ~disposed
    /\ replies # <<>>
    /\ Head(replies).type = "error"
    /\ replies' = Tail(replies)
    /\ sampling' = NoReference
    /\ UNCHANGED <<observables, value, callbacks, reference, samplePromise, refreshNeeded,
                   epoch, timeCursor, requests, binding, shown, changed, disposed,
                   moves, errors>>

(* The session ends: the socket is destroyed in the same call of           *)
(* stopSession(), and no reply arrives any more.                           *)
Dispose ==
    /\ ~disposed
    /\ disposed' = TRUE
    /\ observables' = <<>>
    /\ replies' = <<>>
    /\ requests' = <<>>
    /\ UNCHANGED <<value, callbacks, reference, sampling, samplePromise, refreshNeeded,
                   epoch, timeCursor, binding, shown, changed, moves, errors>>

-----------------------------------------------------------------------------
ServerBind ==
    /\ requests # <<>>
    /\ Head(requests).command = "reference_items"
    /\ binding' = Head(requests).items
    /\ requests' = Tail(requests)
    /\ UNCHANGED <<observables, value, callbacks, reference, sampling, samplePromise,
                   refreshNeeded, epoch, timeCursor, replies, shown, changed, disposed,
                   moves, errors>>

ServerQuery ==
    /\ requests # <<>>
    /\ Head(requests).command = "query_interval"
    /\ requests' = Tail(requests)
    /\ \/ /\ replies' = Append(replies, [type |-> "response",
                sample |-> [i \in DOMAIN binding |-> ValueAt(binding[i], Head(requests).time)]])
          /\ UNCHANGED errors
       \/ /\ errors < MaxErrors
          /\ errors' = errors + 1
          /\ replies' = Append(replies, [type |-> "error"])
    /\ UNCHANGED <<observables, value, callbacks, reference, sampling, samplePromise,
                   refreshNeeded, epoch, timeCursor, binding, shown, changed, disposed, moves>>

-----------------------------------------------------------------------------
Next ==
    \/ \E d \in Designations : Render(d)
    \/ \E time \in Times : MoveCursor(time)
    \/ OnSample
    \/ OnError
    \/ Dispose
    \/ ServerBind
    \/ ServerQuery

Spec == Init /\ [][Next]_vars

(* Replies are delivered, the server answers, and VS Code renders what it  *)
(* was told has changed.                                                   *)
Fairness ==
    /\ WF_vars(OnSample)
    /\ WF_vars(OnError)
    /\ WF_vars(ServerBind)
    /\ WF_vars(ServerQuery)
    /\ \A d \in Designations : WF_vars(d \in changed /\ Render(d))

FairSpec == Spec /\ Fairness

-----------------------------------------------------------------------------
References == [items : Seq(Designations), epoch : Nat]

TypeOK ==
    /\ observables \in Seq(Designations)
    /\ IsInjective(observables)
    /\ callbacks \subseteq Designations
    /\ reference \in References
    /\ sampling \in References
    /\ samplePromise \in BOOLEAN
    /\ refreshNeeded \in BOOLEAN
    /\ epoch \in Nat
    /\ timeCursor \in Times
    /\ binding \in Seq(Designations)
    /\ changed \subseteq Designations
    /\ disposed \in BOOLEAN
    /\ moves \in 0..MaxMoves
    /\ errors \in 0..MaxErrors

(* When no refresh is under way and no item waits to be rendered, every    *)
(* item displays the value of its own variable at the cursor: no movement  *)
(* of the cursor or new variable that came during an await is missed       *)
(* (observer.ts:91, 97), and no sample is read by another's layout.        *)
DisplayFresh ==
    ~disposed /\ ~samplePromise /\ changed = {} =>
        \A d \in Designations :
            shown[d] # NotRendered => shown[d] = ValueAt(d, timeCursor)

Queries == {i \in DOMAIN requests : requests[i].command = "query_interval"}

(* samplePromise (observer.ts:75-77, 99) keeps refresh() to one query at a *)
(* time, so that an older sample never overwrites a newer one.             *)
SingleQuery ==
    ~disposed => Cardinality(Queries) + Len(replies) = IF sampling = NoReference THEN 0 ELSE 1

(* checkReferenceEpoch() (session.ts:141-151) never throws: a query always *)
(* uses the current binding of its reference name.                         *)
ReferenceCurrent ==
    [][sampling' # sampling /\ sampling' # NoReference => sampling'.epoch = epoch']_vars

(* Whatever is rendered comes to display the value at the cursor, as long  *)
(* as no query fails (observer.ts:73-100).                                 *)
DisplayConverges ==
    \A d \in Designations :
        (shown[d] # NotRendered) ~>
            (disposed \/ errors > 0 \/ shown[d] = ValueAt(d, timeCursor))

(* "we could've got another invalidate() call while awaiting, so check     *)
(* again" (observer.ts:97): an invalidate() is followed by a refresh.      *)
InvalidateChecked == refreshNeeded ~> (disposed \/ ~refreshNeeded)
=============================================================================
