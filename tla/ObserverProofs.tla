--------------------------- MODULE ObserverProofs ---------------------------
(***************************************************************************)
(* Proofs about Observer, for every set of designations and times, every   *)
(* valuation and every number of movements and errors.                     *)
(***************************************************************************)
EXTENDS Observer, FiniteSetTheorems, TLAPS

-----------------------------------------------------------------------------
(* The inductive invariant.                                                *)

(* What the server answers for the items of a binding at a time.           *)
SampleOf(items, time) == [i \in DOMAIN items |-> ValueAt(items[i], time)]

Response(sample) == [type |-> "response", sample |-> sample]

(* The sample refresh() awaits is that of its reference at the time: it is *)
(* still to be bound, to be queried, or on its way back.                   *)
Awaits(items, time) ==
    \/ /\ requests = <<Bind(items), Query(time)>>
       /\ replies = <<>>
    \/ /\ requests = <<Query(time)>>
       /\ replies = <<>>
       /\ binding = items
    \/ /\ requests = <<>>
       /\ replies \in {<<Response(SampleOf(items, time))>>, <<[type |-> "error"]>>}
       /\ binding = items

TypeInv ==
    /\ TypeOK
    /\ value = [d \in Designations |-> value[d]]
    /\ shown = [d \in Designations |-> shown[d]]
    /\ disposed => requests = <<>>

(* A reference that is kept is the newest, and of all that is observed.    *)
ReferenceInv ==
    reference # NoReference =>
        /\ reference.epoch = epoch
        /\ reference.items = observables

(* At most one sample is awaited.  Unless an invalidate() has come in the  *)
(* meantime, it is one of the current reference at the cursor.             *)
AwaitInv ==
    IF sampling = NoReference
      THEN /\ requests = <<>>
           /\ replies = <<>>
           /\ reference # NoReference => binding = reference.items
      ELSE /\ samplePromise
           /\ reference \in {sampling, NoReference}
           /\ \E time \in Times :
                /\ Awaits(sampling.items, time)
                /\ refreshNeeded \/ (time = timeCursor /\ reference = sampling)

(* Without a refresh under way, the values are those at the cursor.        *)
ValueInv ==
    ~samplePromise =>
        \A i \in DOMAIN observables : value[observables[i]] = ValueAt(observables[i], timeCursor)

(* An item that is displayed is observed; it displays the value and has a  *)
(* callback, or VS Code was told.                                          *)
ShownInv ==
    \A d \in Designations : shown[d] # NotRendered =>
        /\ \E i \in DOMAIN observables : observables[i] = d
        /\ d \in changed \/ (shown[d] = value[d] /\ d \in callbacks)

LiveInv == ReferenceInv /\ AwaitInv /\ ValueInv /\ ShownInv

IInv == TypeInv /\ (~disposed => LiveInv)
-----------------------------------------------------------------------------
(* Parts of the actions.                                                   *)

(* A query uses the current binding of its reference name.                 *)
QueriesCurrent ==
    sampling' # sampling /\ sampling' # NoReference => sampling'.epoch = epoch'

(* The variables invalidate() and refresh() assign.                        *)
RefreshTypes ==
    /\ reference \in References
    /\ sampling \in References
    /\ samplePromise \in BOOLEAN
    /\ refreshNeeded \in BOOLEAN
    /\ epoch \in Nat

(* The value that stands for no reference is typed as one.                 *)
LEMMA NoReferenceType == NoReference \in References
<1>1. <<>> \in Seq(Designations)
  OBVIOUS
<1> QED
  BY <1>1 DEF NoReference, References

(* A reference is never NoReference once it is bound.                      *)
LEMMA FreshReference ==
    ASSUME NEW items \in Seq(Designations), epoch \in Nat
    PROVE  /\ [items |-> items, epoch |-> epoch + 1] \in References
           /\ [items |-> items, epoch |-> epoch + 1] # NoReference
<1>1. epoch + 1 # 0 /\ epoch + 1 \in Nat
  OBVIOUS
<1>2. [items |-> items, epoch |-> epoch + 1] \in References
  BY <1>1 DEF References
<1>3. [items |-> items, epoch |-> epoch + 1].epoch # NoReference.epoch
  BY <1>1 DEF NoReference
<1> QED
  BY <1>2, <1>3

(* A turn of refresh() awaits one sample, of what is observed and at the   *)
(* cursor, whether the reference is bound anew or not.                     *)
LEMMA RefreshAwaits ==
    ASSUME NEW known \in Seq(Designations), NEW bound \in References, NEW cursor \in Times,
           epoch \in Nat, requests = <<>>, replies' = <<>>, binding' = binding,
           bound # NoReference => bound.items = known /\ bound.epoch = epoch /\ binding = known,
           observables' = known, timeCursor' = cursor,
           Refresh(known, bound, cursor)
    PROVE  /\ ReferenceInv' /\ AwaitInv' /\ ValueInv' /\ RefreshTypes'
           /\ QueriesCurrent
<1> DEFINE fresh == [items |-> known, epoch |-> epoch + 1]
<1>1. fresh \in References /\ fresh # NoReference
  BY FreshReference
<1>2. refreshNeeded' = FALSE /\ samplePromise' = TRUE
  BY DEF Refresh
<1>3. CASE bound = NoReference
  <2>1. reference' = fresh /\ epoch' = epoch + 1 /\ sampling' = fresh
        /\ requests' = requests \o <<Bind(known), Query(cursor)>>
    BY <1>3 DEF Refresh
  <2>2. requests' = <<Bind(known), Query(cursor)>>
    BY <2>1
  <2>3. fresh.items = known /\ fresh.epoch = epoch'
    BY <2>1
  <2>4. Awaits(fresh.items, cursor)'
    BY <2>2, <2>3 DEF Awaits
  <2>5. AwaitInv'
    BY <1>1, <1>2, <2>1, <2>4 DEF AwaitInv
  <2>6. ReferenceInv' /\ QueriesCurrent /\ ValueInv'
    BY <1>2, <2>1, <2>3 DEF ReferenceInv, QueriesCurrent, ValueInv
  <2>7. RefreshTypes'
    <3>1. epoch' \in Nat
      BY <2>1
    <3> QED
      BY <1>1, <1>2, <2>1, <3>1 DEF RefreshTypes
  <2> QED
    BY <2>5, <2>6, <2>7
<1>4. CASE bound # NoReference
  <2>1. reference' = bound /\ epoch' = epoch /\ sampling' = bound
        /\ requests' = Append(requests, Query(cursor))
    BY <1>4 DEF Refresh
  <2>2. requests' = <<Query(cursor)>>
    BY <2>1
  <2>3. Awaits(bound.items, cursor)'
    BY <1>4, <2>2 DEF Awaits
  <2>4. AwaitInv'
    BY <1>2, <1>4, <2>1, <2>3 DEF AwaitInv
  <2>5. ReferenceInv' /\ QueriesCurrent /\ ValueInv'
    BY <1>2, <1>4, <2>1 DEF ReferenceInv, QueriesCurrent, ValueInv
  <2> QED
    BY <1>2, <2>1, <2>4, <2>5 DEF RefreshTypes
<1> QED
  BY <1>3, <1>4

(* invalidate() leaves the values at the cursor awaited: by a refresh of   *)
(* its own, or by the turn that one under way will make.                   *)
LEMMA InvalidateAwaits ==
    ASSUME TypeInv, ReferenceInv, AwaitInv,
           NEW known \in Seq(Designations), NEW bound \in {reference, NoReference}, NEW cursor \in Times,
           bound # NoReference => known = observables,
           observables' = known, timeCursor' = cursor, UNCHANGED <<replies, binding>>,
           Invalidate(known, bound, cursor)
    PROVE  /\ ReferenceInv' /\ AwaitInv' /\ ValueInv' /\ RefreshTypes'
           /\ QueriesCurrent
<1>1. RefreshTypes /\ epoch \in Nat /\ bound \in References
  <2>1. RefreshTypes
    BY DEF TypeInv, TypeOK, RefreshTypes
  <2> QED
    BY <2>1, NoReferenceType DEF RefreshTypes
<1>2. CASE samplePromise
  <2>1. /\ refreshNeeded' = TRUE /\ reference' = bound
        /\ UNCHANGED <<samplePromise, sampling, epoch, requests>>
    BY <1>2 DEF Invalidate
  <2>2. ReferenceInv' /\ ValueInv' /\ QueriesCurrent /\ RefreshTypes'
    BY <1>1, <1>2, <2>1 DEF ReferenceInv, ValueInv, QueriesCurrent, RefreshTypes
  <2>3. CASE sampling = NoReference
    BY <2>1, <2>2, <2>3 DEF AwaitInv
  <2>4. CASE sampling # NoReference
    <3>1. PICK time \in Times : Awaits(sampling.items, time)
      BY <2>4 DEF AwaitInv
    <3>2. Awaits(sampling.items, time)'
      BY <2>1, <3>1 DEF Awaits
    <3>3. reference' \in {sampling', NoReference}
      BY <2>1, <2>4 DEF AwaitInv
    <3> QED
      BY <1>2, <2>1, <2>2, <2>4, <3>2, <3>3 DEF AwaitInv
  <2> QED
    BY <2>3, <2>4
<1>3. CASE ~samplePromise
  <2>1. /\ requests = <<>> /\ replies = <<>>
        /\ reference # NoReference => binding = reference.items
    BY <1>3 DEF AwaitInv
  <2>2. bound # NoReference => bound.items = known /\ bound.epoch = epoch /\ binding = known
    BY <2>1 DEF ReferenceInv
  <2>3. Refresh(known, bound, cursor)
    BY <1>3 DEF Invalidate
  <2> QED
    BY <1>1, <2>1, <2>2, <2>3, RefreshAwaits
<1> QED
  BY <1>2, <1>3
-----------------------------------------------------------------------------
(* Every step keeps the invariant, and queries with a current reference.   *)

(* The other types.                                                        *)
OtherTypes ==
    /\ observables \in Seq(Designations)
    /\ IsInjective(observables)
    /\ callbacks \subseteq Designations
    /\ timeCursor \in Times
    /\ binding \in Seq(Designations)
    /\ changed \subseteq Designations
    /\ disposed \in BOOLEAN
    /\ moves \in 0..MaxMoves
    /\ errors \in 0..MaxErrors
    /\ value = [d \in Designations |-> value[d]]
    /\ shown = [d \in Designations |-> shown[d]]
    /\ disposed => requests = <<>>

(* Together they are the types.                                            *)
LEMMA TypeParts ==
    /\ TypeInv => RefreshTypes /\ OtherTypes
    /\ RefreshTypes' /\ OtherTypes' => TypeInv'
  BY DEF TypeInv, TypeOK, RefreshTypes, OtherTypes

(* A designation that is observed anew is appended.                        *)
LEMMA AppendObservable ==
    ASSUME observables \in Seq(Designations), IsInjective(observables),
           NEW d \in Designations, d \notin ToSet(observables)
    PROVE  LET known == Append(observables, d)
           IN  /\ known \in Seq(Designations)
               /\ IsInjective(known)
               /\ \E i \in DOMAIN known : known[i] = d
               /\ \A i \in DOMAIN observables : i \in DOMAIN known /\ known[i] = observables[i]
<1> DEFINE known == Append(observables, d)
           n == Len(observables)
<1>1. /\ n \in Nat /\ DOMAIN observables = 1..n /\ known \in Seq(Designations)
      /\ DOMAIN known = 1..(n + 1) /\ known[n + 1] = d
      /\ \A i \in 1..n : known[i] = observables[i]
  OBVIOUS
<1>2. \A i \in 1..n : observables[i] # d
  BY <1>1 DEF ToSet
<1>3. \A i \in 1..(n + 1) : i \in 1..n \/ i = n + 1
  BY <1>1
<1>4. IsInjective(known)
  BY <1>1, <1>2, <1>3 DEF IsInjective
<1> QED
  BY <1>1, <1>4

(* A tree item is rendered, of a designation that is new or known.         *)
LEMMA RenderKeeps ==
    ASSUME IInv, NEW d \in Designations, Render(d)
    PROVE  IInv' /\ QueriesCurrent
<1>1. /\ TypeInv /\ RefreshTypes /\ OtherTypes /\ ~disposed
      /\ ReferenceInv /\ AwaitInv /\ ValueInv /\ ShownInv
  BY TypeParts DEF IInv, LiveInv, Render
<1>2. /\ shown' = [shown EXCEPT ![d] = value[d]] /\ changed' = changed \ {d}
      /\ callbacks' = callbacks \cup {d}
      /\ UNCHANGED <<value, timeCursor, replies, binding, disposed, moves, errors>>
  BY DEF Render
<1>3. /\ observables' \in Seq(Designations) /\ IsInjective(observables')
      /\ \E i \in DOMAIN observables' : observables'[i] = d
      /\ \A i \in DOMAIN observables : i \in DOMAIN observables' /\ observables'[i] = observables[i]
      /\ ReferenceInv' /\ AwaitInv' /\ ValueInv' /\ RefreshTypes' /\ QueriesCurrent
  <2>1. CASE d \in ToSet(observables)
    <3>1. UNCHANGED <<observables, reference, samplePromise, sampling, refreshNeeded, epoch, requests>>
      BY <2>1 DEF Render, Observe
    <3>2. ReferenceInv' /\ ValueInv' /\ RefreshTypes' /\ QueriesCurrent
      BY <1>1, <1>2, <3>1 DEF ReferenceInv, ValueInv, RefreshTypes, QueriesCurrent
    <3>3. AwaitInv'
      BY <1>1, <1>2, <3>1 DEF AwaitInv, Awaits
    <3>4. \E i \in DOMAIN observables : observables[i] = d
      BY <2>1 DEF ToSet
    <3> QED
      BY <1>1, <3>1, <3>2, <3>3, <3>4 DEF OtherTypes
  <2>2. CASE d \notin ToSet(observables)
    <3>1. /\ observables' = Append(observables, d)
          /\ Invalidate(Append(observables, d), NoReference, timeCursor)
      BY <2>2 DEF Render, Observe
    <3>2. /\ observables' \in Seq(Designations) /\ IsInjective(observables')
          /\ \E i \in DOMAIN observables' : observables'[i] = d
          /\ \A i \in DOMAIN observables : i \in DOMAIN observables' /\ observables'[i] = observables[i]
      BY <1>1, <2>2, <3>1, AppendObservable DEF OtherTypes
    <3>3. timeCursor \in Times
      BY <1>1 DEF OtherTypes
    <3>4. ReferenceInv' /\ AwaitInv' /\ ValueInv' /\ RefreshTypes' /\ QueriesCurrent
      BY <1>1, <1>2, <3>1, <3>2, <3>3, InvalidateAwaits
    <3> QED
      BY <3>2, <3>4
  <2> QED
    BY <2>1, <2>2
<1>4. \A e \in Designations : shown'[e] = IF e = d THEN value[d] ELSE shown[e]
  BY <1>1, <1>2 DEF OtherTypes
<1>5. OtherTypes'
  <2>1. shown' = [e \in Designations |-> shown'[e]]
    BY <1>1, <1>2 DEF OtherTypes
  <2>2. timeCursor' \in Times /\ binding' \in Seq(Designations) /\ disposed' = FALSE
        /\ moves' \in 0..MaxMoves /\ errors' \in 0..MaxErrors
        /\ value' = [e \in Designations |-> value'[e]]
        /\ callbacks' \subseteq Designations /\ changed' \subseteq Designations
    BY <1>1, <1>2 DEF OtherTypes
  <2> QED
    BY <1>3, <2>1, <2>2 DEF OtherTypes
<1>6. ShownInv'
  <2> SUFFICES ASSUME NEW e \in Designations, shown'[e] # NotRendered
               PROVE  /\ \E i \in DOMAIN observables' : observables'[i] = e
                      /\ e \in changed' \/ (shown'[e] = value'[e] /\ e \in callbacks')
    BY DEF ShownInv
  <2>1. CASE e = d
    BY <1>2, <1>3, <1>4, <2>1
  <2>2. CASE e # d
    BY <1>1, <1>2, <1>3, <1>4, <2>2 DEF ShownInv
  <2> QED
    BY <2>1, <2>2
<1> QED
  BY <1>3, <1>5, <1>6, TypeParts DEF IInv, LiveInv

(* The cursor moves.                                                       *)
LEMMA MoveCursorKeeps ==
    ASSUME IInv, NEW time \in Times, MoveCursor(time)
    PROVE  IInv' /\ QueriesCurrent
<1>1. /\ TypeInv /\ OtherTypes /\ ~disposed /\ ReferenceInv /\ AwaitInv /\ ShownInv
  BY TypeParts DEF IInv, LiveInv, MoveCursor
<1>2. /\ timeCursor' = time /\ Invalidate(observables, reference, time)
      /\ moves < MaxMoves /\ moves' = moves + 1
      /\ UNCHANGED <<observables, value, callbacks, replies, binding, shown, changed, disposed, errors>>
  BY DEF MoveCursor
<1>3. observables \in Seq(Designations)
  BY <1>1 DEF OtherTypes
<1>4. ReferenceInv' /\ AwaitInv' /\ ValueInv' /\ RefreshTypes' /\ QueriesCurrent
  BY <1>1, <1>2, <1>3, InvalidateAwaits
<1>5. ShownInv'
  BY <1>1, <1>2 DEF ShownInv
<1>6. OtherTypes'
  <2>1. moves' \in 0..MaxMoves
    BY <1>1, <1>2, ObserverAssumption DEF OtherTypes
  <2> QED
    BY <1>1, <1>2, <2>1 DEF OtherTypes
<1> QED
  BY <1>4, <1>5, <1>6, TypeParts DEF IInv, LiveInv

(* A reply is the only one, and there is nothing else under way.  A        *)
(* response is the sample that was asked for.                              *)
LEMMA OnlyReply ==
    ASSUME AwaitInv, replies # <<>>
    PROVE  /\ sampling # NoReference /\ samplePromise
           /\ reference \in {sampling, NoReference}
           /\ requests = <<>> /\ Tail(replies) = <<>>
           /\ binding = sampling.items
           /\ Head(replies).type = "response" =>
                \E time \in Times :
                    /\ Head(replies).sample = SampleOf(sampling.items, time)
                    /\ refreshNeeded \/ (time = timeCursor /\ reference = sampling)
<1>1. sampling # NoReference
  BY DEF AwaitInv
<1>2. PICK time \in Times :
        /\ Awaits(sampling.items, time)
        /\ refreshNeeded \/ (time = timeCursor /\ reference = sampling)
  BY <1>1 DEF AwaitInv
<1>3. /\ requests = <<>> /\ binding = sampling.items
      /\ replies \in {<<Response(SampleOf(sampling.items, time))>>, <<[type |-> "error"]>>}
  BY <1>2 DEF Awaits
<1>4. samplePromise /\ reference \in {sampling, NoReference}
  BY <1>1 DEF AwaitInv
<1>5. CASE replies = <<Response(SampleOf(sampling.items, time))>>
  <2>1. Tail(replies) = <<>> /\ Head(replies) = Response(SampleOf(sampling.items, time))
    BY <1>5
  <2>2. Head(replies).sample = SampleOf(sampling.items, time)
    BY <2>1 DEF Response
  <2> QED
    BY <1>1, <1>2, <1>3, <1>4, <2>1, <2>2
<1>6. CASE replies = <<[type |-> "error"]>>
  <2>1. Tail(replies) = <<>> /\ Head(replies).type = "error"
    BY <1>6
  <2> QED
    BY <1>1, <1>3, <1>4, <2>1
<1> QED
  BY <1>3, <1>5, <1>6

(* A sample read by the layout of its own binding gives each designation   *)
(* its own value.                                                          *)
LEMMA ExtractsOwn ==
    ASSUME sampling \in References, NEW time,
           NEW d \in Designations, \E i \in DOMAIN sampling.items : sampling.items[i] = d
    PROVE  Extract(SampleOf(sampling.items, time))[d] = ValueAt(d, time)
<1> DEFINE items == sampling.items
           j == CHOOSE i \in DOMAIN items : items[i] = d
<1>1. j \in DOMAIN items /\ items[j] = d
  OBVIOUS
<1>2. SampleOf(items, time)[j] = ValueAt(d, time)
  BY <1>1 DEF SampleOf
<1>3. d \in ToSet(items)
  BY DEF ToSet
<1> QED
  BY <1>2, <1>3 DEF Extract

(* A sample arrives: what changed is rendered again, and the values are    *)
(* those at the cursor or another turn of refresh() awaits them.           *)
LEMMA OnSampleKeeps ==
    ASSUME IInv, OnSample
    PROVE  IInv' /\ QueriesCurrent
<1> DEFINE newValue == Extract(Head(replies).sample)
<1>1. /\ TypeInv /\ RefreshTypes /\ OtherTypes /\ ~disposed
      /\ ReferenceInv /\ AwaitInv /\ ValueInv /\ ShownInv
  BY TypeParts DEF IInv, LiveInv, OnSample
<1>2. /\ replies # <<>> /\ Head(replies).type = "response" /\ replies' = Tail(replies)
      /\ Update(newValue)
      /\ UNCHANGED <<observables, timeCursor, binding, shown, disposed, moves, errors>>
  BY DEF OnSample
<1>3. /\ sampling # NoReference /\ samplePromise /\ reference \in {sampling, NoReference}
      /\ requests = <<>> /\ replies' = <<>> /\ binding = sampling.items
  BY <1>1, <1>2, OnlyReply
<1>4. PICK time \in Times :
        /\ Head(replies).sample = SampleOf(sampling.items, time)
        /\ refreshNeeded \/ (time = timeCursor /\ reference = sampling)
  BY <1>1, <1>2, OnlyReply
<1>5. /\ value' = newValue
      /\ changed' = changed \cup ({d \in Designations : newValue[d] # value[d]} \cap callbacks)
      /\ callbacks' = callbacks \ {d \in Designations : newValue[d] # value[d]}
  BY <1>2 DEF Update
<1>7. OtherTypes'
  <2>1. value' = [d \in Designations |-> value'[d]]
    BY <1>5 DEF Extract
  <2>2. callbacks' \subseteq Designations /\ changed' \subseteq Designations /\ disposed' = FALSE
    BY <1>1, <1>2, <1>5 DEF OtherTypes
  <2> QED
    BY <1>1, <1>2, <2>1, <2>2 DEF OtherTypes
<1>8. ShownInv'
  BY <1>1, <1>2, <1>5 DEF ShownInv
<1>9. ReferenceInv' /\ AwaitInv' /\ ValueInv' /\ RefreshTypes' /\ QueriesCurrent
  <2>1. CASE refreshNeeded
    <3>1. Refresh(observables, reference, timeCursor)
      BY <2>1 DEF OnSample
    <3>2. reference # NoReference =>
            reference.items = observables /\ reference.epoch = epoch /\ binding = observables
      BY <1>1, <1>3 DEF ReferenceInv
    <3>3. observables \in Seq(Designations) /\ reference \in References /\ timeCursor \in Times
          /\ epoch \in Nat
      BY <1>1 DEF OtherTypes, RefreshTypes
    <3> QED
      BY <1>2, <1>3, <3>1, <3>2, <3>3, RefreshAwaits
  <2>2. CASE ~refreshNeeded
    <3>1. /\ samplePromise' = FALSE /\ sampling' = NoReference
          /\ UNCHANGED <<refreshNeeded, reference, epoch, requests>>
      BY <2>2 DEF OnSample
    <3>2. time = timeCursor /\ reference = sampling
      BY <1>4, <2>2
    <3>4. ReferenceInv' /\ RefreshTypes' /\ QueriesCurrent
      BY <1>1, <1>2, <3>1, NoReferenceType DEF ReferenceInv, RefreshTypes, QueriesCurrent
    <3>5. AwaitInv'
      BY <1>2, <1>3, <3>1, <3>2 DEF AwaitInv
    <3>6. observables = sampling.items
      BY <1>1, <1>3, <3>2 DEF ReferenceInv
    <3>7. ASSUME NEW i \in DOMAIN observables
          PROVE  value'[observables[i]] = ValueAt(observables[i], timeCursor)
      <4>1. observables[i] \in Designations
        BY <1>1 DEF OtherTypes
      <4>2. sampling \in References
        BY <1>1 DEF RefreshTypes
      <4>3. Extract(SampleOf(sampling.items, time))[observables[i]] = ValueAt(observables[i], time)
        BY <3>6, <4>1, <4>2, ExtractsOwn
      <4> QED
        BY <1>4, <1>5, <3>2, <4>3
    <3>8. ValueInv'
      BY <1>2, <3>7 DEF ValueInv
    <3> QED
      BY <3>4, <3>5, <3>8
  <2> QED
    BY <2>1, <2>2
<1> QED
  BY <1>7, <1>8, <1>9, TypeParts DEF IInv, LiveInv

(* A query fails: samplePromise stays set, and nothing is promised of the  *)
(* values any more.                                                        *)
LEMMA OnErrorKeeps ==
    ASSUME IInv, OnError
    PROVE  IInv' /\ QueriesCurrent
<1>1. /\ TypeInv /\ RefreshTypes /\ OtherTypes /\ ~disposed
      /\ ReferenceInv /\ AwaitInv /\ ValueInv /\ ShownInv
  BY TypeParts DEF IInv, LiveInv, OnError
<1>2. /\ replies # <<>> /\ replies' = Tail(replies) /\ sampling' = NoReference
      /\ UNCHANGED <<observables, value, callbacks, reference, samplePromise, refreshNeeded,
                     epoch, timeCursor, requests, binding, shown, changed, disposed, moves, errors>>
  BY DEF OnError
<1>3. /\ reference \in {sampling, NoReference} /\ samplePromise
      /\ requests = <<>> /\ replies' = <<>> /\ binding = sampling.items
  BY <1>1, <1>2, OnlyReply
<1>5. RefreshTypes' /\ OtherTypes' /\ QueriesCurrent
  BY <1>1, <1>2, NoReferenceType DEF RefreshTypes, OtherTypes, QueriesCurrent
<1>6. ReferenceInv' /\ ValueInv' /\ ShownInv'
  BY <1>1, <1>2 DEF ReferenceInv, ValueInv, ShownInv
<1>7. AwaitInv'
  BY <1>2, <1>3 DEF AwaitInv
<1> QED
  BY <1>5, <1>6, <1>7, TypeParts DEF IInv, LiveInv

(* The session ends, and nothing is under way any more.                    *)
LEMMA DisposeKeeps ==
    ASSUME IInv, Dispose
    PROVE  IInv' /\ QueriesCurrent
<1>1. RefreshTypes /\ OtherTypes
  BY TypeParts DEF IInv
<1>2. disposed' = TRUE /\ observables' = <<>> /\ requests' = <<>>
      /\ UNCHANGED <<value, callbacks, reference, sampling, samplePromise, refreshNeeded,
                     epoch, timeCursor, binding, shown, changed, moves, errors>>
  BY DEF Dispose
<1>3. observables' \in Seq(Designations) /\ IsInjective(observables')
  BY <1>2 DEF IsInjective
<1>4. RefreshTypes' /\ OtherTypes' /\ QueriesCurrent
  BY <1>1, <1>2, <1>3 DEF RefreshTypes, OtherTypes, QueriesCurrent
<1> QED
  BY <1>2, <1>4, TypeParts DEF IInv

(* What the server is asked first.                                         *)
LEMMA FirstRequest ==
    ASSUME AwaitInv, requests # <<>>
    PROVE  \E time \in Times :
             /\ sampling # NoReference /\ samplePromise /\ reference \in {sampling, NoReference}
             /\ replies = <<>>
             /\ refreshNeeded \/ (time = timeCursor /\ reference = sampling)
             /\ \/ /\ Head(requests) = Bind(sampling.items)
                   /\ Tail(requests) = <<Query(time)>>
                \/ /\ Head(requests) = Query(time)
                   /\ Tail(requests) = <<>>
                   /\ binding = sampling.items
<1>1. sampling # NoReference
  BY DEF AwaitInv
<1>2. PICK time \in Times :
        /\ Awaits(sampling.items, time)
        /\ refreshNeeded \/ (time = timeCursor /\ reference = sampling)
  BY <1>1 DEF AwaitInv
<1>3. samplePromise /\ reference \in {sampling, NoReference}
  BY <1>1 DEF AwaitInv
<1>4. CASE requests = <<Bind(sampling.items), Query(time)>> /\ replies = <<>>
  <2>1. Head(requests) = Bind(sampling.items) /\ Tail(requests) = <<Query(time)>>
    BY <1>4
  <2> QED
    BY <1>1, <1>2, <1>3, <1>4, <2>1
<1>5. CASE requests = <<Query(time)>> /\ replies = <<>> /\ binding = sampling.items
  <2>1. Head(requests) = Query(time) /\ Tail(requests) = <<>>
    BY <1>5
  <2> QED
    BY <1>1, <1>2, <1>3, <1>5, <2>1
<1> QED
  BY <1>2, <1>4, <1>5 DEF Awaits

(* The items are bound at the server.                                      *)
LEMMA ServerBindKeeps ==
    ASSUME IInv, ServerBind
    PROVE  IInv' /\ QueriesCurrent
<1>1. requests # <<>> /\ TypeInv /\ RefreshTypes /\ OtherTypes
  BY TypeParts DEF IInv, ServerBind
<1>2. ~disposed /\ ReferenceInv /\ AwaitInv /\ ValueInv /\ ShownInv
  BY <1>1 DEF IInv, OtherTypes, LiveInv
<1>3. /\ Head(requests).command = "reference_items" /\ binding' = Head(requests).items
      /\ requests' = Tail(requests)
      /\ UNCHANGED <<observables, value, callbacks, reference, sampling, samplePromise,
                     refreshNeeded, epoch, timeCursor, replies, shown, changed, disposed, moves, errors>>
  BY DEF ServerBind
<1>4. PICK time \in Times :
        /\ sampling # NoReference /\ samplePromise /\ reference \in {sampling, NoReference}
        /\ replies = <<>>
        /\ refreshNeeded \/ (time = timeCursor /\ reference = sampling)
        /\ \/ Head(requests) = Bind(sampling.items) /\ Tail(requests) = <<Query(time)>>
           \/ Head(requests) = Query(time)
  BY <1>1, <1>2, FirstRequest
<1>5. Query(time).command # "reference_items"
  BY DEF Query
<1>6. requests' = <<Query(time)>> /\ binding' = sampling.items
  BY <1>3, <1>4, <1>5 DEF Bind
<1>7. Awaits(sampling.items, time)'
  BY <1>3, <1>4, <1>6 DEF Awaits
<1>8. AwaitInv'
  BY <1>3, <1>4, <1>7 DEF AwaitInv
<1>9. binding' \in Seq(Designations)
  BY <1>1, <1>6 DEF RefreshTypes, References
<1>10. RefreshTypes' /\ OtherTypes' /\ QueriesCurrent
  BY <1>1, <1>2, <1>3, <1>9 DEF RefreshTypes, OtherTypes, QueriesCurrent
<1>11. ReferenceInv' /\ ValueInv' /\ ShownInv'
  BY <1>2, <1>3 DEF ReferenceInv, ValueInv, ShownInv
<1> QED
  BY <1>8, <1>10, <1>11, TypeParts DEF IInv, LiveInv

(* The server answers with the values of what is bound, or with an error.  *)
LEMMA ServerQueryKeeps ==
    ASSUME IInv, ServerQuery
    PROVE  IInv' /\ QueriesCurrent
<1> DEFINE sample == [i \in DOMAIN binding |-> ValueAt(binding[i], Head(requests).time)]
<1>1. requests # <<>> /\ TypeInv /\ RefreshTypes /\ OtherTypes
  BY TypeParts DEF IInv, ServerQuery
<1>2. ~disposed /\ ReferenceInv /\ AwaitInv /\ ValueInv /\ ShownInv
  BY <1>1 DEF IInv, OtherTypes, LiveInv
<1>3. /\ Head(requests).command = "query_interval" /\ requests' = Tail(requests)
      /\ \/ replies' = Append(replies, Response(sample)) /\ errors' = errors
         \/ replies' = Append(replies, [type |-> "error"]) /\ errors < MaxErrors /\ errors' = errors + 1
      /\ UNCHANGED <<observables, value, callbacks, reference, sampling, samplePromise,
                     refreshNeeded, epoch, timeCursor, binding, shown, changed, disposed, moves>>
  BY DEF ServerQuery, Response
<1>4. PICK time \in Times :
        /\ sampling # NoReference /\ samplePromise /\ reference \in {sampling, NoReference}
        /\ replies = <<>>
        /\ refreshNeeded \/ (time = timeCursor /\ reference = sampling)
        /\ \/ Head(requests) = Bind(sampling.items)
           \/ Head(requests) = Query(time) /\ Tail(requests) = <<>> /\ binding = sampling.items
  BY <1>1, <1>2, FirstRequest
<1>5. Bind(sampling.items).command # "query_interval"
  BY DEF Bind
<1>6. requests' = <<>> /\ binding = sampling.items /\ Head(requests).time = time
  BY <1>3, <1>4, <1>5 DEF Query
<1>7. sample = SampleOf(sampling.items, time)
  BY <1>6 DEF SampleOf
<1>8. replies' \in {<<Response(SampleOf(sampling.items, time))>>, <<[type |-> "error"]>>}
  BY <1>3, <1>4, <1>7
<1>9. Awaits(sampling.items, time)'
  BY <1>3, <1>6, <1>8 DEF Awaits, SampleOf
<1>10. AwaitInv'
  BY <1>3, <1>4, <1>9 DEF AwaitInv
<1>11. errors' \in 0..MaxErrors
  BY <1>1, <1>3, ObserverAssumption DEF OtherTypes
<1>12. RefreshTypes' /\ OtherTypes' /\ QueriesCurrent
  BY <1>1, <1>2, <1>3, <1>11 DEF RefreshTypes, OtherTypes, QueriesCurrent
<1>13. ReferenceInv' /\ ValueInv' /\ ShownInv'
  BY <1>2, <1>3 DEF ReferenceInv, ValueInv, ShownInv
<1> QED
  BY <1>10, <1>12, <1>13, TypeParts DEF IInv, LiveInv

-----------------------------------------------------------------------------
(* At first nothing is observed.                                           *)
LEMMA InitKeeps == Init => IInv
<1> SUFFICES ASSUME Init PROVE IInv
  OBVIOUS
<1>1. observables = <<>> /\ DOMAIN observables = {} /\ binding = <<>>
  BY DEF Init
<1>2. TypeInv
  <2>1. observables \in Seq(Designations) /\ binding \in Seq(Designations) /\ IsInjective(observables)
    BY <1>1 DEF IsInjective
  <2>2. reference \in References /\ sampling \in References
    BY NoReferenceType DEF Init
  <2>3. timeCursor \in Times /\ moves \in 0..MaxMoves /\ errors \in 0..MaxErrors
    BY ObserverAssumption DEF Init
  <2>4. value = [d \in Designations |-> value[d]] /\ shown = [d \in Designations |-> shown[d]]
    BY DEF Init
  <2> QED
    BY <2>1, <2>2, <2>3, <2>4 DEF Init, TypeInv, TypeOK
<1>3. LiveInv
  BY <1>1 DEF Init, LiveInv, ReferenceInv, AwaitInv, ValueInv, ShownInv
<1> QED
  BY <1>2, <1>3 DEF IInv

(* Every step keeps the invariant, and queries with a current reference.   *)
LEMMA NextKeeps ==
    ASSUME IInv, [Next]_vars
    PROVE  IInv' /\ (QueriesCurrent \/ UNCHANGED vars)
<1>1. CASE Next
  BY <1>1, RenderKeeps, MoveCursorKeeps, OnSampleKeeps, OnErrorKeeps, DisposeKeeps,
     ServerBindKeeps, ServerQueryKeeps DEF Next
<1>2. CASE UNCHANGED vars
  <2>1. UNCHANGED <<observables, value, callbacks, reference, sampling, samplePromise,
                    refreshNeeded, epoch, timeCursor, requests, replies, binding,
                    shown, changed, disposed, moves, errors>>
    BY <1>2 DEF vars
  <2>2. TypeInv'
    BY <2>1 DEF IInv, TypeInv, TypeOK
  <2>3. ~disposed => ReferenceInv' /\ ValueInv' /\ ShownInv'
    BY <2>1 DEF IInv, LiveInv, ReferenceInv, ValueInv, ShownInv
  <2>4. ~disposed => AwaitInv'
    BY <2>1 DEF IInv, LiveInv, AwaitInv, Awaits
  <2> QED
    BY <1>2, <2>1, <2>2, <2>3, <2>4 DEF IInv, LiveInv
<1> QED
  BY <1>1, <1>2

(* The inductive invariant holds of every behaviour of the observer.       *)
THEOREM Inductive == Spec => []IInv
<1>1. IInv /\ [Next]_vars => IInv'
  BY NextKeeps
<1> QED
  BY <1>1, InitKeeps, PTL DEF Spec

(* Every reachable state is well-typed; in particular nothing is observed  *)
(* twice (observer.ts:45-55).                                              *)
THEOREM TypeCorrect == Spec => []TypeOK
  BY Inductive, PTL DEF IInv, TypeInv

(* The single shapes that the commands under way can have.                 *)
LEMMA OneQuery ==
    ASSUME AwaitInv
    PROVE  Cardinality(Queries) + Len(replies) = IF sampling = NoReference THEN 0 ELSE 1
<1>1. CASE requests = <<>>
  <2>1. Queries = {}
    BY <1>1 DEF Queries
  <2>2. Cardinality(Queries) = 0
    BY <2>1, FS_EmptySet
  <2>3. Len(replies) = IF sampling = NoReference THEN 0 ELSE 1
    BY <1>1 DEF AwaitInv, Awaits
  <2> QED
    BY <2>2, <2>3
<1>2. CASE requests # <<>>
  <2>1. sampling # NoReference
    BY <1>2 DEF AwaitInv
  <2>2. PICK time \in Times : Awaits(sampling.items, time)
    BY <2>1 DEF AwaitInv
  <2>3. CASE requests = <<Bind(sampling.items), Query(time)>> /\ replies = <<>>
    <3>1. DOMAIN requests = {1, 2} /\ requests[1].command # "query_interval"
          /\ requests[2].command = "query_interval"
      BY <2>3 DEF Bind, Query
    <3>2. Queries = {2}
      BY <3>1 DEF Queries
    <3>3. Cardinality(Queries) = 1 /\ Len(replies) = 0
      BY <2>3, <3>2, FS_Singleton
    <3> QED
      BY <2>1, <3>3
  <2>4. CASE requests = <<Query(time)>> /\ replies = <<>>
    <3>1. DOMAIN requests = {1} /\ requests[1].command = "query_interval"
      BY <2>4 DEF Query
    <3>2. Queries = {1}
      BY <3>1 DEF Queries
    <3>3. Cardinality(Queries) = 1 /\ Len(replies) = 0
      BY <2>4, <3>2, FS_Singleton
    <3> QED
      BY <2>1, <3>3
  <2> QED
    BY <1>2, <2>2, <2>3, <2>4 DEF Awaits
<1> QED
  BY <1>1, <1>2

(* refresh() has one query under way at a time, so that an older sample    *)
(* never overwrites a newer one (observer.ts:75-77, 99).                   *)
THEOREM OneQueryAtATime == Spec => []SingleQuery
<1>1. IInv => SingleQuery
  BY OneQuery DEF IInv, LiveInv, SingleQuery
<1> QED
  BY <1>1, Inductive, PTL

(* When no refresh is under way and no item waits to be rendered, every    *)
(* item displays the value of its variable at the cursor                   *)
(* (observer.ts:73-100, sidebar.ts:327-336).                               *)
THEOREM DisplayStaysFresh == Spec => []DisplayFresh
<1>1. IInv => DisplayFresh
  BY DEF IInv, LiveInv, ValueInv, ShownInv, DisplayFresh
<1> QED
  BY <1>1, Inductive, PTL

(* checkReferenceEpoch() never throws (session.ts:141-151).                *)
THEOREM ReferenceAlwaysCurrent == Spec => ReferenceCurrent
<1>1. IInv /\ [Next]_vars => [QueriesCurrent]_vars
  BY NextKeeps
<1> QED
  BY <1>1, Inductive, PTL DEF Spec, ReferenceCurrent, QueriesCurrent
=============================================================================
