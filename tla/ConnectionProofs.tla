-------------------------- MODULE ConnectionProofs --------------------------
(***************************************************************************)
(* Proofs about Connection, for every value of its constants, in three     *)
(* parts: the types of its variables and the promise queue; the pairing of *)
(* replies with commands; the refinement of CommandQueue.                  *)
(***************************************************************************)
EXTENDS Connection, SequenceTheorems, TLAPS

-----------------------------------------------------------------------------
(* An activation works on packets that were delivered.                     *)
ActivationOK ==
    \A h \in Slots : activation[h].busy =>
        /\ 1 <= activation[h].next
        /\ activation[h].next <= activation[h].last + 1
        /\ activation[h].last <= delivered

TypeInv == TypeOK /\ ActivationOK

(* The number of commands that are out of the queue: they are the oldest.  *)
Base == sendIndex - Len(unpushed) - Len(promises)

(* The queue and the promises about to be pushed are the commands that are *)
(* not settled, in the order they were sent.                               *)
QueueInv ==
    /\ Base >= 0
    /\ \A k \in 1..Len(promises) : promises[k] = Base + k
    /\ \A k \in 1..Len(unpushed) : unpushed[k] = Base + Len(promises) + k
    /\ \A id \in Ids : Settled(id) <=> id <= Base
    /\ state = "disconnected" => promises = <<>> /\ unpushed = <<>>

-----------------------------------------------------------------------------
(* The bounds of the identifiers.                                          *)
LEMMA Bounds == MaxId \in Nat /\ MaxCommands \in Nat /\ MaxCommands <= MaxId
  BY ConnectionAssumption DEF MaxId

LEMMA TypeInit == Init => TypeInv
<1> SUFFICES ASSUME Init PROVE TypeInv
  OBVIOUS
<1>1. activation \in [Slots -> Activations] /\ ActivationOK
  BY Bounds DEF Init, ActivationOK, Idle, Activations
<1>2. promises \in Seq(Ids) /\ unpushed \in Seq(Ids) /\ wire \in Seq(Packets) /\ Len(wire) = 0
  BY DEF Init
<1>3. outcome \in [Ids -> Outcomes] /\ settledBy \in [Ids -> 0..MaxId]
  BY Bounds DEF Init, Outcomes
<1>4. /\ timestamps \in 0..sendIndex /\ sendIndex \in 0..MaxId /\ delivered \in 0..Len(wire)
      /\ sent \in 0..sendIndex /\ served \in 0..sent
      /\ events \in 0..MaxEvents /\ strays \in 0..MaxStray
  BY <1>2, Bounds, ConnectionAssumption DEF Init
<1>5. /\ state \in {"initializing", "connected", "disconnected"}
      /\ stream \in {"open", "ended", "destroyed"}
      /\ flowing \in BOOLEAN /\ greeted \in BOOLEAN /\ eof \in BOOLEAN
      /\ aborted \in BOOLEAN /\ overtaken \in BOOLEAN
  BY Zenon DEF Init
<1> QED
  BY <1>1, <1>2, <1>3, <1>4, <1>5 DEF TypeInv, TypeOK

(* Sending a command, or failing to.                                       *)
LEMMA SendType ==
  ASSUME TypeOK, Send, sendIndex < MaxId
  PROVE  /\ sendIndex + 1 \in Ids
         /\ sendIndex' = sendIndex + 1
         /\ timestamps' \in 0..sendIndex'
         /\ unpushed' \in Seq(Ids)
         /\ outcome' \in [Ids -> Outcomes]
         /\ sent' \in Nat /\ sent' <= sendIndex' /\ sent <= sent'
<1>1. sendIndex + 1 \in Ids
  BY Bounds DEF TypeOK, Ids
<1>2. sendIndex' = sendIndex + 1 /\ timestamps' \in 0..sendIndex'
  BY Bounds DEF Send, TypeOK
<1>3. unpushed' \in Seq(Ids)
  <2>1. unpushed' = unpushed \/ unpushed' = Append(unpushed, sendIndex + 1)
    BY DEF Send
  <2>2. unpushed \in Seq(Ids)
    BY DEF TypeOK
  <2>3. Append(unpushed, sendIndex + 1) \in Seq(Ids)
    BY <1>1, <2>2
  <2> QED
    BY <2>1, <2>2, <2>3
<1>4. outcome' \in [Ids -> Outcomes]
  <2>1. outcome' = outcome \/ outcome' = [outcome EXCEPT ![sendIndex + 1] = "rejected"]
    BY DEF Send
  <2> QED
    BY <1>1, <2>1 DEF TypeOK, Outcomes
<1>5. sent' \in Nat /\ sent' <= sendIndex' /\ sent <= sent'
  <2>1. sent' = sent \/ sent' = sent + 1
    BY DEF Send
  <2> QED
    BY Bounds, <1>2, <2>1 DEF TypeOK
<1> QED
  BY <1>1, <1>2, <1>3, <1>4, <1>5

(* A packet under an activation's hand is one that the server wrote.       *)
LEMMA CurrentPacketType ==
  ASSUME TypeInv, NEW h \in Slots, Unprocessed(h)
  PROVE  activation[h].next \in 1..Len(wire) /\ CurrentPacket(h) \in Packets
  BY DEF TypeInv, TypeOK, ActivationOK, Unprocessed, CurrentPacket, Activations

(* Every step keeps the types of the variables.                            *)
LEMMA TypeStep == TypeInv /\ [Next]_vars => TypeInv'
<1> SUFFICES ASSUME TypeInv, [Next]_vars PROVE TypeInv'
  OBVIOUS
<1> USE Bounds DEF TypeInv, Busy
<1>1. CASE Perform
  <2>1. sendIndex < MaxId
    BY <1>1 DEF Perform, TypeOK
  <2> QED
    BY <1>1, <2>1, SendType, SMTT(30) DEF Perform, linkVars, serverVars, TypeOK, ActivationOK
<1>2. CASE PushPromise
  BY <1>2 DEF PushPromise, linkVars, serverVars, TypeOK, ActivationOK
<1>3. CASE Dispose
  BY <1>3 DEF Dispose, clientVars, serverVars, TypeOK, ActivationOK
<1>4. CASE OnStreamData
  <2>1. PICK last \in (delivered + 1)..Len(wire), h \in Slots :
          /\ activation' = [activation EXCEPT ![h] = Busy(delivered + 1, last, 0)]
          /\ delivered' = last
    BY <1>4 DEF OnStreamData
  <2>2. UNCHANGED <<clientVars, stream, aborted, serverVars, sent>>
        /\ flowing' \in BOOLEAN /\ overtaken' \in BOOLEAN
    BY <1>4 DEF OnStreamData, TypeOK
  <2>3. activation' \in [Slots -> Activations]
    BY <2>1 DEF TypeOK, Activations
  <2>4. ActivationOK'
    BY <2>1 DEF TypeOK, ActivationOK, Activations
  <2> QED
    BY <2>1, <2>2, <2>3, <2>4 DEF clientVars, serverVars, TypeOK
<1>5. ASSUME NEW h \in Slots, Activation(h) PROVE TypeInv'
  <2>1. Unprocessed(h) => activation[h].next \in 1..Len(wire) /\ CurrentPacket(h) \in Packets
    BY CurrentPacketType
  <2>a. ASSUME PacketDone(h), Unprocessed(h), wire' = wire
        PROVE  /\ activation' \in [Slots -> Activations] /\ ActivationOK'
               /\ delivered' \in 0..Len(wire') /\ flowing' \in BOOLEAN
               /\ UNCHANGED <<stream, aborted, overtaken>>
    <3>1. activation' \in [Slots -> Activations]
      BY <2>a, SMTT(30) DEF PacketDone, TypeOK, Activations
    <3>2. ActivationOK'
      BY <2>a DEF PacketDone, TypeOK, ActivationOK, Unprocessed, Activations
    <3> QED
      BY <2>a, <3>1, <3>2 DEF PacketDone, TypeOK
  <2>b. ASSUME TraceRecv(h), UNCHANGED sendIndex PROVE timestamps' \in 0..sendIndex'
    BY <2>b DEF TraceRecv, TypeOK
  <2>c. ASSUME RejectPromises PROVE promises' \in Seq(Ids) /\ outcome' \in [Ids -> Outcomes]
    BY <2>c DEF RejectPromises, TypeOK, Outcomes
  <2>2. CASE RecvGreeting(h)
    <3>1. state' \in {"initializing", "connected", "disconnected"}
          /\ promises' \in Seq(Ids) /\ outcome' \in [Ids -> Outcomes]
      BY <2>2, <2>c DEF RecvGreeting, TypeOK
    <3> QED
      BY <2>2, <2>a, <2>b, <3>1 DEF RecvGreeting, Receiving, serverVars, TypeOK
  <2>3. CASE RecvReply(h)
    <3>1. promises' \in Seq(Ids) /\ outcome' \in [Ids -> Outcomes]
      BY <2>3 DEF RecvReply, TypeOK, Outcomes
    <3>2. CurrentPacket(h).re \in 0..MaxId
      BY <2>1, <2>3 DEF RecvReply, Receiving, Packets
    <3>3. settledBy' \in [Ids -> 0..MaxId]
      BY <2>3, <3>2 DEF RecvReply, TypeOK
    <3> QED
      BY <2>3, <2>a, <2>b, <3>1, <3>3 DEF RecvReply, Receiving, serverVars, TypeOK
  <2>4. CASE RecvUnexpected(h)
    BY <2>4, <2>a, <2>b, <2>c DEF RecvUnexpected, Receiving, serverVars, TypeOK
  <2>5. CASE RecvEvent(h)
    <3>1. sendIndex + 1 \in Ids /\ sendIndex + 1 \in 0..MaxId
      BY <2>5, SendType DEF RecvEvent, Ids
    <3>2. activation' = [activation EXCEPT ![h] =
             Busy(activation[h].next + 1, activation[h].last, sendIndex + 1)]
      BY <2>5 DEF RecvEvent
    <3>3. activation' \in [Slots -> Activations]
      BY <3>1, <3>2, SMTT(30) DEF TypeOK, Activations
    <3>4. ActivationOK'
      BY <2>5, <3>2, SMTT(30) DEF RecvEvent, Receiving, TypeOK, ActivationOK, Unprocessed, Activations
    <3> QED
      BY <2>5, <3>3, <3>4, SendType, SMTT(30) DEF RecvEvent, serverVars, TypeOK
  <2>6. CASE EventDone(h)
    <3>1. activation' = [activation EXCEPT ![h] = Busy(activation[h].next, activation[h].last, 0)]
      BY <2>6 DEF EventDone
    <3>2. activation' \in [Slots -> Activations]
      BY <3>1 DEF TypeOK, Activations
    <3>3. ActivationOK'
      BY <2>6, <3>1 DEF EventDone, Awaiting, TypeOK, ActivationOK, Activations
    <3> QED
      BY <2>6, <3>2, <3>3 DEF EventDone, clientVars, serverVars, TypeOK
  <2>7. ASSUME activation' = [activation EXCEPT ![h] = Idle], UNCHANGED delivered
        PROVE  activation' \in [Slots -> Activations] /\ ActivationOK'
    BY <2>7 DEF TypeOK, ActivationOK, Activations, Idle
  <2>8. CASE Abort(h)
    BY <2>7, <2>8 DEF Abort, clientVars, serverVars, TypeOK
  <2>9. CASE ChunkDone(h)
    BY <2>7, <2>9 DEF ChunkDone, clientVars, serverVars, TypeOK
  <2> QED
    BY <1>5, <2>2, <2>3, <2>4, <2>5, <2>6, <2>8, <2>9 DEF Activation
<1>6. CASE OnStreamEnd
  <2>1. promises' \in Seq(Ids) /\ outcome' \in [Ids -> Outcomes]
    BY <1>6 DEF OnStreamEnd, RejectPromises, TypeOK, Outcomes
  <2> QED
    BY <1>6, <2>1 DEF OnStreamEnd, serverVars, TypeOK, ActivationOK
<1>7. CASE Server
  <2>1. ASSUME NEW p \in Packets, Write(p)
        PROVE  wire' \in Seq(Packets) /\ Len(wire') = Len(wire) + 1
    BY <2>1 DEF Write, TypeOK
  <2>2. UNCHANGED <<clientVars, linkVars, sent>>
    BY <1>7 DEF Server, ServerGreet, ServerAnswer, ServerEvent, ServerStray, ServerClose
  <2>3. ActivationOK'
    BY <2>2 DEF clientVars, linkVars, ActivationOK
  <2>4. CASE ServerGreet
    <3>1. PICK v \in Versions : Write(Packet("greeting", 0, v))
      BY <2>4 DEF ServerGreet
    <3>2. Packet("greeting", 0, v) \in Packets
      BY ConnectionAssumption DEF Packet, Packets, PacketTypes
    <3> QED
      BY <2>1, <2>2, <2>3, <2>4, <3>1, <3>2 DEF ServerGreet, clientVars, linkVars, TypeOK
  <2>5. CASE ServerAnswer
    <3>1. PICK type \in ReplyTypes : Write(Packet(type, served + 1, 0))
      BY <2>5 DEF ServerAnswer
    <3>2. Packet(type, served + 1, 0) \in Packets
      BY <2>5 DEF ServerAnswer, Packet, Packets, PacketTypes, ReplyTypes, TypeOK
    <3> QED
      BY <2>1, <2>2, <2>3, <2>5, <3>1, <3>2 DEF ServerAnswer, clientVars, linkVars, TypeOK
  <2>6. CASE ServerEvent
    <3>1. Packet("event", 0, 0) \in Packets
      BY DEF Packet, Packets, PacketTypes
    <3> QED
      BY <2>1, <2>2, <2>3, <2>6, <3>1, ConnectionAssumption
      DEF ServerEvent, clientVars, linkVars, TypeOK
  <2>7. CASE ServerStray
    <3>1. PICK type \in PacketTypes : Write(Packet(type, 0, 0))
      BY <2>7 DEF ServerStray
    <3>2. Packet(type, 0, 0) \in Packets
      BY DEF Packet, Packets
    <3> QED
      BY <2>1, <2>2, <2>3, <2>7, <3>1, <3>2, ConnectionAssumption
      DEF ServerStray, clientVars, linkVars, TypeOK
  <2>8. CASE ServerClose
    BY <2>2, <2>3, <2>8 DEF ServerClose, clientVars, linkVars, TypeOK
  <2> QED
    BY <1>7, <2>4, <2>5, <2>6, <2>7, <2>8 DEF Server
<1>8. CASE UNCHANGED vars
  BY <1>8 DEF vars, clientVars, linkVars, serverVars, TypeOK, ActivationOK
<1> QED
  BY <1>1, <1>2, <1>3, <1>4, <1>5, <1>6, <1>7, <1>8 DEF Next

(* The connection's variables keep their types, and an activation of       *)
(* onStreamData never looks past the packets it was handed.                *)
THEOREM TypeCorrect == Spec => []TypeOK
<1>1. Init => TypeInv
  BY TypeInit
<1>2. TypeInv /\ [Next]_vars => TypeInv'
  BY TypeStep
<1>3. TypeInv => TypeOK
  BY DEF TypeInv
<1> QED
  BY <1>1, <1>2, <1>3, PTL DEF Spec

-----------------------------------------------------------------------------
(* The promise queue.                                                      *)
LEMMA QueueTypes ==
  ASSUME TypeInv
  PROVE  /\ promises \in Seq(Ids) /\ Len(promises) \in Nat
         /\ unpushed \in Seq(Ids) /\ Len(unpushed) \in Nat
         /\ sendIndex \in Nat /\ Base \in Int
         /\ outcome \in [Ids -> Outcomes]
  BY Bounds DEF TypeInv, TypeOK, Base

LEMMA QueueInit == Init => QueueInv
  BY Bounds DEF Init, QueueInv, Base, Settled, Ids

(* A command that is sent joins the end of the queue; one that cannot be   *)
(* sent is settled at once.                                                *)
LEMMA SendQueue ==
  ASSUME TypeInv, QueueInv, Send, sendIndex < MaxId, UNCHANGED <<state, promises>>
  PROVE  QueueInv'
<1> USE QueueTypes, Bounds
<1>1. sendIndex + 1 \in Ids /\ sendIndex' = sendIndex + 1
  BY SendType DEF TypeInv
<1>2. CASE state = "disconnected"
  <2>1. promises = <<>> /\ unpushed = <<>> /\ Base = sendIndex
    BY <1>2 DEF QueueInv, Base
  <2>2. unpushed' = unpushed /\ outcome' = [outcome EXCEPT ![sendIndex + 1] = "rejected"]
    BY <1>2 DEF Send
  <2>3. Base' = sendIndex + 1
    BY <1>1, <2>1, <2>2 DEF Base
  <2>4. \A id \in Ids : Settled(id)' <=> id <= sendIndex + 1
    BY <1>1, <2>1, <2>2 DEF QueueInv, Settled, Ids
  <2> QED
    BY <2>1, <2>2, <2>3, <2>4 DEF QueueInv
<1>3. CASE state # "disconnected"
  <2>1. unpushed' = Append(unpushed, sendIndex + 1) /\ outcome' = outcome
    BY <1>3 DEF Send
  <2>2. Len(unpushed') = Len(unpushed) + 1
    BY <1>1, <2>1
  <2>3. Base' = Base
    BY <1>1, <2>2 DEF Base
  <2>4. \A k \in 1..Len(unpushed') : unpushed'[k] = Base + Len(promises) + k
    <3>1. ASSUME NEW k \in 1..Len(unpushed) PROVE unpushed'[k] = Base + Len(promises) + k
      BY <2>1 DEF QueueInv
    <3>2. unpushed'[Len(unpushed) + 1] = Base + Len(promises) + (Len(unpushed) + 1)
      BY <2>1 DEF Base
    <3> QED
      BY <2>2, <3>1, <3>2
  <2> QED
    BY <1>3, <2>1, <2>3, <2>4 DEF QueueInv, Settled
<1> QED
  BY <1>2, <1>3

(* Which commands are in the queue, and which are about to be pushed.       *)
LEMMA QueueRange ==
  ASSUME TypeInv, QueueInv
  PROVE  \A id \in Ids :
           /\ id \in Range(promises) <=> id > Base /\ id <= Base + Len(promises)
           /\ id \in Range(unpushed) <=> id > Base + Len(promises) /\ id <= sendIndex
<1> USE QueueTypes
<1>1. ASSUME NEW s \in Seq(Ids), NEW b \in Int, \A k \in 1..Len(s) : s[k] = b + k,
             NEW id \in Ids
      PROVE  id \in Range(s) <=> id > b /\ id <= b + Len(s)
  <2>1. DOMAIN s = 1..Len(s)
    OBVIOUS
  <2>2. ASSUME id > b, id <= b + Len(s) PROVE id \in Range(s)
    <3>1. id - b \in 1..Len(s) /\ s[id - b] = id
      BY <1>1, <2>2 DEF Ids
    <3> QED
      BY <2>1, <3>1 DEF Range
  <2>3. ASSUME id \in Range(s) PROVE id > b /\ id <= b + Len(s)
    <3>1. PICK k \in 1..Len(s) : id = s[k]
      BY <2>1, <2>3 DEF Range
    <3> QED
      BY <1>1, <3>1
  <2> QED
    BY <2>2, <2>3
<1>2. \A k \in 1..Len(promises) : promises[k] = Base + k
  BY DEF QueueInv
<1>3. \A k \in 1..Len(unpushed) : unpushed[k] = (Base + Len(promises)) + k
  BY DEF QueueInv
<1>4. (Base + Len(promises)) + Len(unpushed) = sendIndex /\ Base + Len(promises) \in Int
  BY DEF Base
<1> QED
  BY <1>1, <1>2, <1>3, <1>4

(* rejectPromises() settles the commands of the queue and no other.        *)
LEMMA RejectQueue ==
  ASSUME TypeInv, QueueInv, RejectPromises, UNCHANGED <<unpushed, sendIndex>>,
         state' = "disconnected" => unpushed = <<>>
  PROVE  QueueInv' /\ Base' = Base + Len(promises)
<1> USE QueueTypes
<1>1. promises' = <<>> /\ Base' = Base + Len(promises)
  BY DEF RejectPromises, Base
<1>2. \A id \in Ids : id \in Range(promises) <=> id > Base /\ id <= Base + Len(promises)
  BY QueueRange
<1>3. \A id \in Ids : Settled(id)' <=> id <= Base + Len(promises)
  BY <1>2 DEF RejectPromises, Settled, QueueInv, Ids
<1> QED
  BY <1>1, <1>3 DEF QueueInv

(* A reply settles the oldest command.                                     *)
LEMMA ReplyQueue ==
  ASSUME TypeInv, QueueInv, NEW h \in Slots, RecvReply(h)
  PROVE  QueueInv' /\ Base' = Base + 1 /\ Head(promises) = Base + 1
<1> USE QueueTypes
<1>1. promises # <<>> /\ promises' = Tail(promises)
      /\ UNCHANGED <<state, unpushed, sendIndex>> /\ state = "connected"
  BY DEF RecvReply
<1>2. Head(promises) = Base + 1 /\ Head(promises) \in Ids
  BY <1>1 DEF QueueInv
<1>3. Len(promises') = Len(promises) - 1 /\ Base' = Base + 1
  BY <1>1 DEF Base
<1>4. \A k \in 1..Len(promises') : promises'[k] = Base' + k
  BY <1>1, <1>3 DEF QueueInv
<1>5. \A id \in Ids : Settled(id)' <=> id <= Base + 1
  BY <1>2 DEF RecvReply, Settled, QueueInv, Ids
<1>6. \A k \in 1..Len(unpushed') : unpushed'[k] = Base' + Len(promises') + k
  BY <1>1, <1>3 DEF QueueInv
<1>7. Base' >= 0 /\ state' # "disconnected"
  BY <1>1, <1>3 DEF QueueInv
<1> QED
  BY <1>2, <1>3, <1>4, <1>5, <1>6, <1>7 DEF QueueInv

(* Every step keeps the queue the unsettled commands in sending order.     *)
LEMMA QueueStep == TypeInv /\ QueueInv /\ [Next]_vars => QueueInv'
<1> SUFFICES ASSUME TypeInv, QueueInv, [Next]_vars PROVE QueueInv'
  OBVIOUS
<1>0. ASSUME UNCHANGED clientVars PROVE QueueInv'
  BY <1>0 DEF clientVars, QueueInv, Base, Settled
<1>1. CASE Perform
  BY <1>1, SendQueue, Bounds DEF Perform, TypeInv, TypeOK
<1>2. CASE PushPromise
  <2> USE QueueTypes
  <2>1. unpushed # <<>> /\ promises' = Append(promises, Head(unpushed))
        /\ unpushed' = Tail(unpushed) /\ UNCHANGED <<state, sendIndex, outcome>>
    BY <1>2 DEF PushPromise
  <2>2. Head(unpushed) = Base + Len(promises) + 1
    BY <2>1 DEF QueueInv
  <2>3. Len(promises') = Len(promises) + 1 /\ Len(unpushed') = Len(unpushed) - 1 /\ Base' = Base
    BY <2>1 DEF Base
  <2>4. \A k \in 1..Len(promises') : promises'[k] = Base + k
    BY <2>1, <2>2, <2>3 DEF QueueInv
  <2>5. \A k \in 1..Len(unpushed') : unpushed'[k] = Base + Len(promises') + k
    BY <2>1, <2>3 DEF QueueInv
  <2> QED
    BY <2>1, <2>3, <2>4, <2>5 DEF QueueInv, Settled
<1>3. CASE Dispose \/ OnStreamData
  BY <1>0, <1>3 DEF Dispose, OnStreamData
<1>4. ASSUME NEW h \in Slots, Activation(h) PROVE QueueInv'
  <2>1. CASE RecvGreeting(h)
    <3>1. CASE CurrentPacket(h).version = 0
      BY <2>1, <3>1 DEF RecvGreeting, QueueInv, Base, Settled
    <3>2. CASE CurrentPacket(h).version # 0
      BY <2>1, <3>2, RejectQueue DEF RecvGreeting
    <3> QED
      BY <3>1, <3>2
  <2>2. CASE RecvReply(h)
    BY <2>2, ReplyQueue
  <2>3. CASE RecvUnexpected(h)
    BY <2>3, RejectQueue DEF RecvUnexpected, QueueInv
  <2>4. CASE RecvEvent(h)
    BY <2>4, SendQueue DEF RecvEvent
  <2>5. CASE EventDone(h) \/ Abort(h) \/ ChunkDone(h)
    BY <1>0, <2>5 DEF EventDone, Abort, ChunkDone
  <2> QED
    BY <1>4, <2>1, <2>2, <2>3, <2>4, <2>5 DEF Activation
<1>5. CASE OnStreamEnd
  BY <1>5, RejectQueue DEF OnStreamEnd, Quiescent
<1>6. CASE Server
  BY <1>0, <1>6 DEF Server, ServerGreet, ServerAnswer, ServerEvent, ServerStray, ServerClose
<1>7. CASE UNCHANGED vars
  BY <1>0, <1>7 DEF vars
<1> QED
  BY <1>1, <1>2, <1>3, <1>4, <1>5, <1>6, <1>7 DEF Next

(* Types and queue together are inductive.                                 *)
LEMMA QueueInvariant == Spec => [](TypeInv /\ QueueInv)
<1>1. Init => TypeInv /\ QueueInv
  BY TypeInit, QueueInit
<1>2. (TypeInv /\ QueueInv) /\ [Next]_vars => (TypeInv /\ QueueInv)'
  BY TypeStep, QueueStep
<1> QED
  BY <1>1, <1>2, PTL DEF Spec

(* The queue and the promises about to be pushed hold every unsettled      *)
(* command exactly once, whatever the server sends and in whatever order   *)
(* chunks and continuations run.                                           *)
THEOREM NoCommandLost == Spec => []NoOrphan
<1>1. TypeInv /\ QueueInv => NoOrphan
  <2> SUFFICES ASSUME TypeInv, QueueInv PROVE NoOrphan
    OBVIOUS
  <2> USE QueueTypes
  <2>1. ASSUME NEW id \in 1..sendIndex
        PROVE  ~Settled(id) <=> id \in Range(promises) \cup Range(unpushed)
    <3>1. id \in Ids
      BY Bounds DEF Ids, TypeInv, TypeOK
    <3>2. Settled(id) <=> id <= Base
      BY <3>1 DEF QueueInv
    <3>3. Len(promises) >= 0 /\ Base + Len(promises) <= sendIndex
      BY DEF Base
    <3> QED
      BY <3>1, <3>2, <3>3, QueueRange
  <2>2. ASSUME NEW k \in 1..Len(promises \o unpushed)
        PROVE  (promises \o unpushed)[k] = Base + k
    <3>1. Len(promises \o unpushed) = Len(promises) + Len(unpushed)
      OBVIOUS
    <3>2. CASE k <= Len(promises)
      <4>1. (promises \o unpushed)[k] = promises[k]
        BY <3>2
      <4> QED
        BY <3>2, <4>1 DEF QueueInv
    <3>3. CASE k > Len(promises)
      <4>1. k - Len(promises) \in 1..Len(unpushed)
        BY <3>1, <3>3
      <4>2. (promises \o unpushed)[k] = unpushed[k - Len(promises)]
        BY <3>1, <3>3
      <4>3. unpushed[k - Len(promises)] = Base + Len(promises) + (k - Len(promises))
        BY <4>1 DEF QueueInv
      <4> QED
        BY <4>2, <4>3
    <3> QED
      BY <3>2, <3>3
  <2>3. DOMAIN (promises \o unpushed) = 1..Len(promises \o unpushed)
    OBVIOUS
  <2>4. IsInjective(promises \o unpushed)
    BY <2>2, <2>3, SMTT(30) DEF IsInjective
  <2> QED
    BY <2>1, <2>4 DEF NoOrphan
<1> QED
  BY <1>1, QueueInvariant, PTL

(* No command waits on a connection that is done.                          *)
THEOREM DoneSettlesAll == Spec => []DisconnectedSettlesAll
<1>1. TypeInv /\ QueueInv => DisconnectedSettlesAll
  <2> SUFFICES ASSUME TypeInv, QueueInv, state = "disconnected", NEW id \in 1..sendIndex
               PROVE  Settled(id)
    BY DEF DisconnectedSettlesAll
  <2>1. Base = sendIndex
    BY QueueTypes DEF QueueInv, Base
  <2>2. id \in Ids
    BY Bounds DEF Ids, TypeInv, TypeOK
  <2> QED
    BY <2>1, <2>2 DEF QueueInv
<1> QED
  BY <1>1, QueueInvariant, PTL

(* A promise is settled once, and replies settle commands oldest first.    *)
THEOREM SettlesInOrder == Spec => SettledInOrder
<1> DEFINE Once == \A id \in Ids :
        /\ Settled(id) => outcome'[id] = outcome[id]
        /\ ~Replied(id) /\ Replied(id)' => \A older \in 1..(id - 1) : Settled(older)
<1>1. TypeInv /\ QueueInv /\ [Next]_vars => [Once]_vars
  <2> SUFFICES ASSUME TypeInv, QueueInv, Next PROVE Once
    BY DEF Next
  <2> USE QueueTypes, Bounds
  <2>1. ASSUME UNCHANGED outcome PROVE Once
    BY <2>1 DEF Replied
  <2>2. ASSUME Send, sendIndex < MaxId PROVE Once
    <3>1. outcome' = outcome \/ outcome' = [outcome EXCEPT ![sendIndex + 1] = "rejected"]
      BY <2>2 DEF Send
    <3>2. Base <= sendIndex
      BY DEF Base
    <3>3. \A id \in Ids : Settled(id) => id # sendIndex + 1
      BY <3>2 DEF QueueInv, Ids
    <3> QED
      BY <2>1, <3>1, <3>3 DEF Replied
  <2>3. ASSUME RejectPromises PROVE Once
    <3>1. \A id \in Ids : Settled(id) => id \notin Range(promises)
      BY QueueRange DEF QueueInv, Ids
    <3>2. \A id \in Ids : outcome'[id] = outcome[id] \/ outcome'[id] = "rejected"
      BY <2>3 DEF RejectPromises
    <3>3. \A id \in Ids : id \notin Range(promises) => outcome'[id] = outcome[id]
      BY <2>3 DEF RejectPromises
    <3> QED
      BY <3>1, <3>2, <3>3 DEF Replied
  <2>4. ASSUME NEW h \in Slots, RecvReply(h) PROVE Once
    <3>1. Head(promises) = Base + 1
      BY <2>4, ReplyQueue
    <3>2. \A id \in Ids : id # Base + 1 => outcome'[id] = outcome[id]
      BY <2>4, <3>1 DEF RecvReply
    <3>3. \A id \in Ids : Settled(id) => id # Base + 1
      BY DEF QueueInv
    <3>4. Base + 1 \in Ids => \A older \in 1..Base : Settled(older)
      BY DEF QueueInv, Ids
    <3> QED
      BY <3>2, <3>3, <3>4 DEF Replied
  <2>5. CASE Perform
    BY <2>2, <2>5 DEF Perform, TypeInv, TypeOK
  <2>6. CASE PushPromise \/ Dispose \/ OnStreamData \/ Server
    BY <2>1, <2>6 DEF PushPromise, Dispose, OnStreamData, clientVars,
                      Server, ServerGreet, ServerAnswer, ServerEvent, ServerStray, ServerClose
  <2>7. ASSUME NEW h \in Slots, Activation(h) PROVE Once
    <3>1. CASE RecvGreeting(h)
      BY <2>1, <2>3, <3>1 DEF RecvGreeting
    <3>2. CASE RecvReply(h)
      BY <2>4, <3>2
    <3>3. CASE RecvUnexpected(h)
      BY <2>3, <3>3 DEF RecvUnexpected
    <3>4. CASE RecvEvent(h)
      BY <2>2, <3>4 DEF RecvEvent
    <3>5. CASE EventDone(h) \/ Abort(h) \/ ChunkDone(h)
      BY <2>1, <3>5 DEF EventDone, Abort, ChunkDone, clientVars
    <3> QED
      BY <2>7, <3>1, <3>2, <3>3, <3>4, <3>5 DEF Activation
  <2>8. CASE OnStreamEnd
    BY <2>3, <2>8 DEF OnStreamEnd
  <2> QED
    BY <2>5, <2>6, <2>7, <2>8 DEF Next
<1> QED
  BY <1>1, QueueInvariant, PTL DEF Spec, SettledInOrder

-----------------------------------------------------------------------------
(***************************************************************************)
(* Proof that the connection pairs every reply with the command it answers *)
(* as long as the server keeps to the protocol and no chunk overtakes an   *)
(* earlier one, for every value of the constants of Connection.            *)
(***************************************************************************)

(* The packet at i has been through onLinkRecv.                            *)
Processed(i) ==
    /\ i <= delivered
    /\ \A h \in Slots : Unprocessed(h) => i < activation[h].next

IsReply(i) == wire[i].type \in ReplyTypes

(* The greeting comes first, and once.                                     *)
GreetingFirst ==
    /\ ~greeted => wire = <<>> /\ served = 0
    /\ greeted => wire # <<>> /\ wire[1].type = "greeting"
    /\ \A i \in 1..Len(wire) : wire[i].type = "greeting" => i = 1

WellFormed == \A i \in 1..Len(wire) : wire[i].type # "junk"

AnswersServed == \A i \in 1..Len(wire) : IsReply(i) => 1 <= wire[i].re /\ wire[i].re <= served

AnswersInOrder ==
    \A i, j \in 1..Len(wire) : IsReply(i) /\ IsReply(j) /\ i < j => wire[i].re < wire[j].re

AnswersComplete == \A id \in 1..served : \E i \in 1..Len(wire) : IsReply(i) /\ wire[i].re = id

(* What a server that keeps to the protocol has written.                   *)
WireInv == GreetingFirst /\ WellFormed /\ AnswersServed /\ AnswersInOrder /\ AnswersComplete

(* One activation at most has packets left, those of the newest chunk.     *)
OneFrontier ==
    /\ \A h \in Slots : Unprocessed(h) => activation[h].last = delivered
    /\ \A g, h \in Slots : Unprocessed(g) /\ Unprocessed(h) => g = h

(* What was delivered answers commands whose promises were pushed.         *)
RepliesPushed ==
    \A i \in 1..delivered : IsReply(i) => wire[i].re <= sendIndex - Len(unpushed)

OrderInv == OneFrontier /\ RepliesPushed

(* The queue starts at the command whose reply comes next.                 *)
PairingInv ==
    /\ ~Processed(1) => state # "connected"
    /\ ~Processed(1) /\ state = "initializing" => Base = 0 /\ timestamps = sendIndex
    /\ state = "connected" =>
         /\ wire # <<>>
         /\ timestamps = sendIndex - Base
         /\ Base <= served
         /\ \A i \in 1..Len(wire) : IsReply(i) => (Processed(i) <=> wire[i].re <= Base)
         /\ \A h \in Slots : Unprocessed(h) /\ Awaiting(h) => activation[h].await > Base
    /\ state = "initializing" => \A h \in Slots : ~Awaiting(h)

CalmInv == WireInv /\ OrderInv /\ PairingInv /\ ReplyMatches

PairInv == TypeInv /\ QueueInv /\ (Calm => CalmInv)

-----------------------------------------------------------------------------
(* Numbers the proofs compare.                                             *)
LEMMA Numbers ==
  ASSUME TypeInv
  PROVE  /\ MaxId \in Nat
         /\ sendIndex \in Nat /\ sendIndex <= MaxId /\ timestamps \in Nat
         /\ sent \in Nat /\ served \in Nat /\ served <= sent /\ sent <= sendIndex
         /\ Len(wire) \in Nat /\ delivered \in Nat /\ delivered <= Len(wire)
         /\ Len(promises) \in Nat /\ Len(unpushed) \in Nat /\ Base \in Int
  BY Bounds, QueueTypes DEF TypeInv, TypeOK

LEMMA PacketAt ==
  ASSUME TypeInv, NEW i \in 1..Len(wire)
  PROVE  wire[i] \in Packets /\ wire[i].re \in Nat
<1>1. wire[i] \in Packets
  BY DEF TypeInv, TypeOK
<1> QED
  BY <1>1, Bounds DEF Packets

LEMMA ActivationAt ==
  ASSUME TypeInv, NEW h \in Slots
  PROVE  /\ activation[h].next \in Nat /\ activation[h].last \in Nat
         /\ activation[h].await \in Nat /\ activation[h].busy \in BOOLEAN
         /\ activation[h].busy => /\ 1 <= activation[h].next
                                  /\ activation[h].next <= activation[h].last + 1
                                  /\ activation[h].last <= delivered
  BY Bounds DEF TypeInv, TypeOK, ActivationOK, Activations

LEMMA PairInit == Init => PairInv
<1> SUFFICES ASSUME Init PROVE PairInv
  OBVIOUS
<1>1. TypeInv /\ QueueInv
  BY TypeInit, QueueInit
<1>2. \A h \in Slots : ~Unprocessed(h) /\ ~Awaiting(h)
  BY DEF Init, Unprocessed, Awaiting, Idle
<1>3. WireInv /\ OrderInv
  BY <1>2 DEF Init, WireInv, OrderInv, OneFrontier, RepliesPushed, GreetingFirst, WellFormed, AnswersServed, AnswersInOrder,
              AnswersComplete
<1>4. Base = 0 /\ timestamps = sendIndex /\ state = "initializing"
  <2>1. /\ Len(promises) = 0 /\ Len(unpushed) = 0 /\ sendIndex = 0
        /\ timestamps = 0 /\ state = "initializing"
    BY DEF Init
  <2> QED
    BY <2>1 DEF Base
<1>6. PairingInv
  BY <1>2, <1>4 DEF PairingInv
<1>5. ReplyMatches
  BY DEF Init, ReplyMatches, Replied
<1> QED
  BY <1>1, <1>3, <1>5, <1>6 DEF PairInv, CalmInv

(* Calm is lost for good.                                                  *)
LEMMA CalmBackwards ==
  ASSUME TypeInv, Next, Calm' PROVE Calm
<1>1. overtaken' = overtaken \/ OnStreamData
  BY DEF Next, Perform, PushPromise, Dispose, Activation, RecvGreeting, RecvReply, RecvUnexpected,
         RecvEvent, EventDone, Abort, ChunkDone, PacketDone, OnStreamEnd, Server, ServerGreet,
         ServerAnswer, ServerEvent, ServerStray, ServerClose, linkVars
<1>2. strays' = strays \/ ServerStray
  BY DEF Next, Perform, PushPromise, Dispose, OnStreamData, Activation, RecvGreeting, RecvReply,
         RecvUnexpected, RecvEvent, EventDone, Abort, ChunkDone, OnStreamEnd, Server, ServerGreet,
         ServerAnswer, ServerEvent, ServerClose, serverVars
<1>3. ~overtaken
  BY <1>1 DEF Calm, OnStreamData
<1>4. strays = 0
  BY <1>2, ConnectionAssumption DEF Calm, ServerStray, TypeInv, TypeOK
<1> QED
  BY <1>3, <1>4 DEF Calm

-----------------------------------------------------------------------------
(* What the server writes is added at the end of the wire.                 *)
LEMMA Written ==
  ASSUME TypeInv, NEW p \in Packets, wire' = Append(wire, p)
  PROVE  /\ Len(wire) \in Nat
         /\ Len(wire') = Len(wire) + 1
         /\ \A i \in 1..Len(wire) : wire'[i] = wire[i]
         /\ wire'[Len(wire) + 1] = p
         /\ wire' # <<>>
<1>1. wire \in Seq(Packets)
  BY DEF TypeInv, TypeOK
<1> QED
  BY <1>1

(* The server's next answer extends the answers in order.                  *)
LEMMA AnswerWritten ==
  ASSUME TypeInv, WireInv, ServerAnswer
  PROVE  WireInv'
<1>1. PICK type \in ReplyTypes : wire' = Append(wire, Packet(type, served + 1, 0))
  BY DEF ServerAnswer, Write
<1> DEFINE p == Packet(type, served + 1, 0)
           n == Len(wire)
<1>2. greeted /\ greeted' /\ served' = served + 1 /\ served \in Nat /\ n \in Nat
  BY Numbers DEF ServerAnswer
<1>3. p \in Packets /\ p.type \in ReplyTypes /\ p.re = served + 1
  BY Numbers DEF Packet, Packets, PacketTypes, ReplyTypes, ServerAnswer
<1>4. /\ Len(wire') = n + 1
      /\ \A i \in 1..n : wire'[i] = wire[i]
      /\ wire'[n + 1] = p
      /\ wire' # <<>>
  BY <1>1, <1>3, Written
<1>5. n >= 1
  <2>1. wire # <<>> /\ wire \in Seq(Packets)
    BY <1>2 DEF WireInv, GreetingFirst, TypeInv, TypeOK
  <2> QED
    BY <2>1
<1> HIDE DEF p, n
<1>6. \A i \in 1..(n + 1) : i \in 1..n \/ i = n + 1
  BY <1>2
<1>7. GreetingFirst'
  <2>1. wire'[1].type = "greeting"
    BY <1>2, <1>4, <1>5 DEF WireInv, GreetingFirst
  <2>2. ASSUME NEW i \in 1..(n + 1), wire'[i].type = "greeting" PROVE i = 1
    <3>1. i # n + 1
      BY <1>3, <1>4, <2>2 DEF ReplyTypes
    <3> QED
      BY <1>4, <1>6, <2>2, <3>1 DEF WireInv, GreetingFirst, n
  <2> QED
    BY <1>2, <1>4, <2>1, <2>2 DEF GreetingFirst
<1>8. WellFormed'
  BY <1>3, <1>4, <1>6 DEF WireInv, WellFormed, ReplyTypes, n
<1>9. AnswersServed'
  <2>1. ASSUME NEW i \in 1..n, IsReply(i)' PROVE 1 <= wire'[i].re /\ wire'[i].re <= served + 1
    <3>1. IsReply(i) /\ wire'[i].re = wire[i].re
      BY <1>4, <2>1 DEF IsReply
    <3> QED
      BY <1>2, <2>1, <3>1, PacketAt DEF WireInv, AnswersServed, n
  <2>2. 1 <= wire'[n + 1].re /\ wire'[n + 1].re <= served + 1
    BY <1>2, <1>3, <1>4
  <2> QED
    BY <1>2, <1>4, <1>6, <2>1, <2>2 DEF AnswersServed
<1>10. AnswersInOrder'
  <2>1. SUFFICES ASSUME NEW i \in 1..(n + 1), NEW j \in 1..(n + 1), IsReply(i)', IsReply(j)', i < j
                 PROVE  wire'[i].re < wire'[j].re
    BY <1>4 DEF AnswersInOrder
  <2>2. i \in 1..n /\ wire'[i] = wire[i] /\ IsReply(i)
    BY <1>2, <1>4, <2>1 DEF IsReply
  <2>3. CASE j \in 1..n
    BY <1>4, <2>1, <2>2, <2>3 DEF WireInv, AnswersInOrder, IsReply, n
  <2>4. CASE j = n + 1
    <3>1. wire[i].re <= served /\ wire[i].re \in Nat
      BY <2>2, PacketAt DEF WireInv, AnswersServed, n
    <3> QED
      BY <1>2, <1>3, <1>4, <2>2, <2>4, <3>1
  <2> QED
    BY <1>6, <2>3, <2>4
<1>11. AnswersComplete'
  <2>1. ASSUME NEW id \in 1..served PROVE \E i \in 1..(n + 1) : IsReply(i)' /\ wire'[i].re = id
    <3>1. PICK i \in 1..n : IsReply(i) /\ wire[i].re = id
      BY DEF WireInv, AnswersComplete, n
    <3>2. i \in 1..(n + 1) /\ IsReply(i)' /\ wire'[i].re = id
      BY <1>2, <1>4, <3>1 DEF IsReply
    <3> QED
      BY <3>2
  <2>2. \E i \in 1..(n + 1) : IsReply(i)' /\ wire'[i].re = served + 1
    <3>1. PICK i \in 1..(n + 1) : i = n + 1
      BY <1>2
    <3> QED
      BY <1>3, <1>4, <3>1 DEF IsReply
  <2>3. \A id \in 1..(served + 1) : id \in 1..served \/ id = served + 1
    BY <1>2
  <2> QED
    BY <1>2, <1>4, <2>1, <2>2, <2>3 DEF AnswersComplete
<1> QED
  BY <1>7, <1>8, <1>9, <1>10, <1>11 DEF WireInv

(* An event is no answer.                                                  *)
LEMMA EventWritten ==
  ASSUME TypeInv, WireInv, ServerEvent
  PROVE  WireInv'
<1> DEFINE p == Packet("event", 0, 0)
           n == Len(wire)
<1>1. wire' = Append(wire, p) /\ greeted /\ greeted' /\ served' = served /\ n \in Nat
  BY Numbers DEF ServerEvent, Write
<1>2. p \in Packets /\ p.type = "event"
  BY Bounds DEF Packet, Packets, PacketTypes
<1>3. /\ Len(wire') = n + 1
      /\ \A i \in 1..n : wire'[i] = wire[i]
      /\ wire'[n + 1] = p
      /\ wire' # <<>>
  BY <1>1, <1>2, Written
<1>4. n >= 1
  <2>1. wire # <<>> /\ wire \in Seq(Packets)
    BY <1>1 DEF WireInv, GreetingFirst, TypeInv, TypeOK
  <2> QED
    BY <2>1
<1> HIDE DEF p, n
<1>5. \A i \in 1..(n + 1) : i \in 1..n \/ i = n + 1
  BY <1>1
<1>6. ASSUME NEW i \in 1..(n + 1), IsReply(i)'
      PROVE  i \in 1..n /\ IsReply(i) /\ wire'[i] = wire[i]
  BY <1>2, <1>3, <1>5, <1>6 DEF IsReply, ReplyTypes
<1>7. GreetingFirst'
  <2>1. wire'[1].type = "greeting"
    BY <1>1, <1>3, <1>4 DEF WireInv, GreetingFirst
  <2>2. ASSUME NEW i \in 1..(n + 1), wire'[i].type = "greeting" PROVE i = 1
    <3>1. i # n + 1
      BY <1>2, <1>3, <2>2
    <3> QED
      BY <1>3, <1>5, <2>2, <3>1 DEF WireInv, GreetingFirst, n
  <2> QED
    BY <1>1, <1>3, <2>1, <2>2 DEF GreetingFirst
<1>8. WellFormed'
  BY <1>2, <1>3, <1>5 DEF WireInv, WellFormed, n
<1>9. AnswersServed'
  BY <1>1, <1>3, <1>6 DEF WireInv, AnswersServed, n
<1>10. AnswersInOrder'
  BY <1>3, <1>6 DEF WireInv, AnswersInOrder, n
<1>11. AnswersComplete'
  <2>1. ASSUME NEW id \in 1..served PROVE \E i \in 1..(n + 1) : IsReply(i)' /\ wire'[i].re = id
    <3>1. PICK i \in 1..n : IsReply(i) /\ wire[i].re = id
      BY DEF WireInv, AnswersComplete, n
    <3>2. i \in 1..(n + 1) /\ IsReply(i)' /\ wire'[i].re = id
      BY <1>1, <1>3, <3>1 DEF IsReply
    <3> QED
      BY <3>2
  <2> QED
    BY <1>1, <1>3, <2>1 DEF AnswersComplete
<1> QED
  BY <1>7, <1>8, <1>9, <1>10, <1>11 DEF WireInv

LEMMA GreetingWritten ==
  ASSUME TypeInv, WireInv, ServerGreet
  PROVE  WireInv'
<1>1. PICK v \in Versions : wire' = Append(wire, Packet("greeting", 0, v))
  BY DEF ServerGreet, Write
<1>2. wire = <<>> /\ served' = 0 /\ greeted'
  BY DEF ServerGreet, WireInv, GreetingFirst
<1>3. Len(wire') = 1 /\ wire' # <<>> /\ wire'[1] = Packet("greeting", 0, v)
  BY <1>1, <1>2
<1>4. \A i \in 1..1 : i = 1
  OBVIOUS
<1>5. \A i \in 1..Len(wire') : wire'[i].type = "greeting" /\ ~IsReply(i)'
  BY <1>3, <1>4 DEF Packet, IsReply, ReplyTypes
<1> QED
  BY <1>2, <1>3, <1>4, <1>5 DEF WireInv, GreetingFirst, WellFormed, AnswersServed, AnswersInOrder,
                     AnswersComplete

LEMMA WireStep ==
  ASSUME TypeInv, WireInv, Next, Calm, Calm'
  PROVE  WireInv'
<1>1. CASE ServerGreet \/ ServerAnswer \/ ServerEvent
  BY <1>1, GreetingWritten, AnswerWritten, EventWritten
<1>2. CASE ServerStray
  BY <1>2, ConnectionAssumption DEF ServerStray, Calm, TypeInv, TypeOK
<1>3. CASE ~Server \/ ServerClose
  <2>1. UNCHANGED <<wire, greeted, served>>
    BY <1>3 DEF Next, Perform, PushPromise, Dispose, OnStreamData, Activation, RecvGreeting,
         RecvReply, RecvUnexpected, RecvEvent, EventDone, Abort, ChunkDone, OnStreamEnd,
         ServerClose, serverVars
  <2> QED
    BY <2>1 DEF WireInv, GreetingFirst, WellFormed, AnswersServed, AnswersInOrder,
         AnswersComplete, IsReply
<1> QED
  BY <1>1, <1>2, <1>3 DEF Server

-----------------------------------------------------------------------------
(* The activation with packets left is the frontier between the packets    *)
(* that were processed and the others.                                     *)
LEMMA Frontier ==
  ASSUME TypeInv, OneFrontier, NEW h \in Slots, Unprocessed(h)
  PROVE  /\ activation[h].next \in 1..Len(wire) /\ activation[h].next <= delivered
         /\ activation[h].last = delivered
         /\ \A i \in Nat : Processed(i) <=> i < activation[h].next
<1>1. activation[h].last = delivered /\ activation[h].next <= delivered
  BY DEF OneFrontier, Unprocessed
<1>2. \A i \in Nat : Processed(i) <=> i <= delivered /\ i < activation[h].next
  BY DEF OneFrontier, Processed
<1> QED
  BY <1>1, <1>2, ActivationAt, Numbers, CurrentPacketType

(* Processing a packet moves the frontier by one.                          *)
LEMMA FrontierMoves ==
  ASSUME TypeInv, OneFrontier, NEW h \in Slots, Unprocessed(h), NEW id \in Nat,
         activation' = [activation EXCEPT ![h] = Busy(activation[h].next + 1, activation[h].last, id)],
         UNCHANGED delivered
  PROVE  /\ \A i \in Nat : Processed(i)' <=> i <= activation[h].next
         /\ \A g \in Slots : Unprocessed(g)' => g = h
         /\ Unprocessed(h)' => activation'[h].last = delivered
<1> DEFINE n == activation[h].next
<1>1. activation[h].last = delivered /\ n \in Nat /\ delivered \in Nat /\ n <= delivered
  BY Frontier, ActivationAt, Numbers
<1>2. activation \in [Slots -> Activations]
  BY DEF TypeInv, TypeOK
<1>3. activation'[h] = Busy(n + 1, delivered, id) /\ \A g \in Slots : g # h => activation'[g] = activation[g]
  BY <1>1, <1>2
<1>4. \A g \in Slots : Unprocessed(g)' => g = h
  BY <1>3 DEF Unprocessed, OneFrontier
<1>5. Unprocessed(h)' <=> n + 1 <= delivered
  BY <1>3 DEF Unprocessed, Busy
<1>6. activation'[h].next = n + 1 /\ activation'[h].last = delivered
  BY <1>3 DEF Busy
<1>7. ASSUME NEW i \in Nat PROVE Processed(i)' <=> i <= n
  <2>1. CASE Unprocessed(h)'
    <3>1. Processed(i)' <=> i <= delivered /\ i < n + 1
      BY <1>4, <1>6, <2>1 DEF Processed
    <3> QED
      BY <1>1, <3>1
  <2>2. CASE ~Unprocessed(h)'
    <3>1. Processed(i)' <=> i <= delivered
      BY <1>4, <2>2 DEF Processed
    <3>2. n = delivered
      BY <1>1, <1>5, <2>2
    <3> QED
      BY <3>1, <3>2
  <2> QED
    BY <2>1, <2>2
<1> QED
  BY <1>4, <1>6, <1>7

(* A chunk is delivered when no earlier chunk has packets left.            *)
LEMMA ChunkDelivered ==
  ASSUME TypeInv, OnStreamData, ~overtaken'
  PROVE  /\ \A h \in Slots : ~Unprocessed(h)
         /\ OneFrontier'
         /\ \A i \in Nat : Processed(i)' <=> Processed(i)
         /\ \A h \in Slots : ~(Unprocessed(h)' /\ Awaiting(h)')
<1>1. PICK last \in (delivered + 1)..Len(wire), h \in Slots :
        /\ activation' = [activation EXCEPT ![h] = Busy(delivered + 1, last, 0)]
        /\ delivered' = last
  BY DEF OnStreamData
<1>2. \A g \in Slots : ~Unprocessed(g)
  BY DEF OnStreamData
<1>3. activation \in [Slots -> Activations]
  BY DEF TypeInv, TypeOK
<1>4. activation'[h] = Busy(delivered + 1, last, 0) /\ \A g \in Slots : g # h => activation'[g] = activation[g]
  BY <1>1, <1>3
<1>5. delivered \in Nat /\ last \in Nat /\ delivered < last
  BY <1>1, Numbers
<1>6. \A g \in Slots : Unprocessed(g)' => g = h
  BY <1>2, <1>4 DEF Unprocessed
<1>7. Unprocessed(h)' /\ activation'[h].next = delivered + 1 /\ activation'[h].last = last
      /\ ~Awaiting(h)'
  BY <1>4, <1>5 DEF Unprocessed, Busy, Awaiting
<1>8. \A i \in Nat : Processed(i)' <=> Processed(i)
  <2>1. ASSUME NEW i \in Nat PROVE Processed(i)' <=> i <= last /\ i < delivered + 1
    BY <1>1, <1>6, <1>7 DEF Processed
  <2>2. ASSUME NEW i \in Nat PROVE Processed(i) <=> i <= delivered
    BY <1>2 DEF Processed
  <2> QED
    BY <1>5, <2>1, <2>2
<1> QED
  BY <1>1, <1>2, <1>6, <1>7, <1>8 DEF OneFrontier

(* A step that changes no activation's packets.                            *)
SameFrontier ==
    /\ \A g \in Slots : Unprocessed(g)' <=> Unprocessed(g)
    /\ \A g \in Slots : Unprocessed(g)' => activation'[g].last = activation[g].last
    /\ \A i \in Nat : Processed(i)' <=> Processed(i)
    /\ \A g \in Slots : Awaiting(g)' => Awaiting(g) /\ activation'[g].await = activation[g].await

(* The packets left to an activation change only when it advances, gives   *)
(* up or gets a chunk.                                                     *)
LEMMA FrontierStays ==
  ASSUME TypeInv, UNCHANGED delivered,
         \/ UNCHANGED activation
         \/ \E h \in Slots : EventDone(h) \/ ChunkDone(h) \/ (Abort(h) /\ ~Unprocessed(h))
  PROVE  SameFrontier
<1>1. activation \in [Slots -> Activations]
  BY DEF TypeInv, TypeOK
<1>2. CASE UNCHANGED activation
  BY <1>2 DEF SameFrontier, Unprocessed, Processed, Awaiting
<1>3. ASSUME NEW h \in Slots, EventDone(h) \/ ChunkDone(h) \/ (Abort(h) /\ ~Unprocessed(h))
      PROVE  SameFrontier
  <2>1. \A g \in Slots : g # h => activation'[g] = activation[g]
    BY <1>1, <1>3 DEF EventDone, ChunkDone, Abort
  <2>2. /\ Unprocessed(h)' <=> Unprocessed(h)
        /\ Unprocessed(h)' => activation'[h].next = activation[h].next
                             /\ activation'[h].last = activation[h].last
        /\ ~Awaiting(h)'
    <3>1. CASE EventDone(h)
      <4>1. activation[h].busy
            /\ activation'[h] = Busy(activation[h].next, activation[h].last, 0)
        BY <1>1, <3>1 DEF EventDone, Awaiting
      <4> QED
        BY <4>1 DEF Unprocessed, Awaiting, Busy
    <3>2. CASE ~Unprocessed(h) /\ (ChunkDone(h) \/ Abort(h))
      <4>1. activation'[h] = Idle
        BY <1>1, <3>2 DEF ChunkDone, Abort
      <4> QED
        BY <3>2, <4>1 DEF Unprocessed, Awaiting, Idle
    <3> QED
      BY <1>3, <3>1, <3>2 DEF ChunkDone
  <2>3. \A g \in Slots : Unprocessed(g)' <=> Unprocessed(g)
    BY <2>1, <2>2 DEF Unprocessed
  <2>4. \A g \in Slots : Unprocessed(g)' => activation'[g].next = activation[g].next
                                           /\ activation'[g].last = activation[g].last
    BY <2>1, <2>2
  <2>5. \A i \in Nat : Processed(i)' <=> Processed(i)
    BY <2>3, <2>4 DEF Processed
  <2>6. \A g \in Slots : Awaiting(g)' => Awaiting(g) /\ activation'[g].await = activation[g].await
    BY <2>1, <2>2 DEF Awaiting
  <2> QED
    BY <2>3, <2>4, <2>5, <2>6 DEF SameFrontier
<1> QED
  BY <1>2, <1>3

LEMMA OneFrontierStep ==
  ASSUME TypeInv, OneFrontier, Next, ~overtaken'
  PROVE  OneFrontier'
<1>0. ASSUME NEW h \in Slots, UNCHANGED delivered,
             \A g \in Slots : Unprocessed(g)' => g = h,
             Unprocessed(h)' => activation'[h].last = delivered
      PROVE  OneFrontier'
  BY <1>0 DEF OneFrontier
<1>a. ASSUME UNCHANGED delivered,
             \A g \in Slots : Unprocessed(g)' =>
                Unprocessed(g) /\ activation'[g].last = activation[g].last
      PROVE  OneFrontier'
  BY <1>a DEF OneFrontier
<1>1. CASE OnStreamData
  BY <1>1, ChunkDelivered
<1>2. CASE Perform \/ PushPromise \/ Dispose \/ OnStreamEnd \/ Server
  <2>1. UNCHANGED <<activation, delivered>>
    BY <1>2 DEF Perform, PushPromise, Dispose, OnStreamEnd, Server, ServerGreet, ServerAnswer,
         ServerEvent, ServerStray, ServerClose, linkVars
  <2> QED
    BY <1>a, <2>1 DEF Unprocessed
<1>3. ASSUME NEW h \in Slots, Activation(h) PROVE OneFrontier'
  <2>1. CASE RecvGreeting(h) \/ RecvReply(h) \/ RecvUnexpected(h)
    <3>1. Unprocessed(h) /\ PacketDone(h)
      BY <2>1 DEF RecvGreeting, RecvReply, RecvUnexpected, Receiving
    <3>2. UNCHANGED delivered /\ activation' = [activation EXCEPT ![h] =
             Busy(activation[h].next + 1, activation[h].last, 0)]
      BY <3>1 DEF PacketDone
    <3> QED
      BY <1>0, <3>1, <3>2, FrontierMoves
  <2>2. CASE RecvEvent(h)
    <3>1. Unprocessed(h) /\ UNCHANGED delivered /\ activation' = [activation EXCEPT ![h] =
             Busy(activation[h].next + 1, activation[h].last, sendIndex + 1)]
      BY <2>2 DEF RecvEvent, Receiving
    <3>2. sendIndex + 1 \in Nat
      BY Numbers
    <3> QED
      BY <1>0, <3>1, <3>2, FrontierMoves
  <2>3. CASE EventDone(h)
    <3>1. UNCHANGED delivered
      BY <2>3 DEF EventDone
    <3> QED
      BY <1>a, <2>3, <3>1, FrontierStays DEF SameFrontier
  <2>4. CASE Abort(h) \/ ChunkDone(h)
    <3>1. activation' = [activation EXCEPT ![h] = Idle] /\ UNCHANGED delivered
      BY <2>4 DEF Abort, ChunkDone
    <3>2. activation \in [Slots -> Activations]
      BY DEF TypeInv, TypeOK
    <3>3. \A g \in Slots : Unprocessed(g)' => Unprocessed(g) /\ activation'[g] = activation[g]
      BY <3>1, <3>2 DEF Unprocessed, Idle
    <3> QED
      BY <1>a, <3>1, <3>3
  <2> QED
    BY <1>3, <2>1, <2>2, <2>3, <2>4 DEF Activation
<1> QED
  BY <1>1, <1>2, <1>3 DEF Next

LEMMA RepliesPushedStep ==
  ASSUME TypeInv, TypeInv', WireInv, RepliesPushed, Next
  PROVE  RepliesPushed'
<1> USE Numbers
<1>0. sendIndex' \in Nat /\ Len(unpushed') \in Nat
  BY Bounds DEF TypeInv, TypeOK
<1>1. CASE OnStreamData
  <2>1. unpushed' = <<>> /\ UNCHANGED <<wire, sendIndex>> /\ delivered' <= Len(wire) /\ delivered' \in Nat
    <3>1. delivered' \in (delivered + 1)..Len(wire)
      BY <1>1 DEF OnStreamData
    <3> QED
      BY <1>1, <3>1 DEF OnStreamData, Quiescent, clientVars, serverVars
  <2>2. Len(unpushed') = 0
    BY <2>1
  <2>3. ASSUME NEW i \in 1..delivered', IsReply(i)' PROVE wire'[i].re <= sendIndex' - Len(unpushed')
    <3>1. i \in 1..Len(wire) /\ IsReply(i)
      BY <2>1, <2>3 DEF IsReply
    <3>2. wire[i].re <= served /\ wire[i].re \in Nat
      BY <3>1, PacketAt DEF WireInv, AnswersServed
    <3> QED
      BY <2>1, <2>2, <3>2, SMTT(30)
  <2> QED
    BY <2>3 DEF RepliesPushed
<1>2. CASE ~OnStreamData
  <2>1. UNCHANGED delivered
    BY <1>2 DEF Next, Perform, PushPromise, Dispose, Activation, RecvGreeting, RecvReply,
         RecvUnexpected, RecvEvent, EventDone, Abort, ChunkDone, PacketDone, OnStreamEnd, Server,
         ServerGreet, ServerAnswer, ServerEvent, ServerStray, ServerClose, linkVars
  <2>2. \A i \in 1..delivered : wire'[i] = wire[i]
    <3>1. wire' = wire \/ \E p : wire' = Append(wire, p)
      BY DEF Next, Perform, PushPromise, Dispose, OnStreamData, Activation, RecvGreeting,
         RecvReply, RecvUnexpected, RecvEvent, EventDone, Abort, ChunkDone, OnStreamEnd, Server,
         ServerGreet, ServerAnswer, ServerEvent, ServerStray, ServerClose, serverVars, Write
    <3>2. wire \in Seq(Packets)
      BY DEF TypeInv, TypeOK
    <3> QED
      BY <3>1, <3>2, SMTT(30)
  <2>3. sendIndex - Len(unpushed) <= sendIndex' - Len(unpushed')
    <3>1. ASSUME Send PROVE sendIndex - Len(unpushed) <= sendIndex' - Len(unpushed')
      <4>1. sendIndex' = sendIndex + 1
            /\ (unpushed' = unpushed \/ unpushed' = Append(unpushed, sendIndex + 1))
        BY <3>1 DEF Send
      <4>2. Len(unpushed') <= Len(unpushed) + 1
        BY <4>1, QueueTypes
      <4> QED
        BY <1>0, <4>1, <4>2, SMTT(30)
    <3>2. CASE PushPromise
      <4>1. sendIndex' = sendIndex /\ unpushed # <<>> /\ unpushed' = Tail(unpushed)
        BY <3>2 DEF PushPromise
      <4>2. Len(unpushed') = Len(unpushed) - 1
        BY <4>1, QueueTypes
      <4> QED
        BY <4>1, <4>2
    <3>3. CASE ~Send /\ ~PushPromise
      <4>1. UNCHANGED <<sendIndex, unpushed>>
        BY <3>3 DEF Next, Perform, Dispose, OnStreamData, Activation, RecvGreeting, RecvReply,
         RecvUnexpected, RecvEvent, EventDone, Abort, ChunkDone, OnStreamEnd, Server,
         ServerGreet, ServerAnswer, ServerEvent, ServerStray, ServerClose, clientVars
      <4> QED
        BY <4>1
    <3> QED
      BY <3>1, <3>2, <3>3
  <2>4. ASSUME NEW i \in 1..delivered', IsReply(i)' PROVE wire'[i].re <= sendIndex' - Len(unpushed')
    <3>1. i \in 1..delivered /\ i \in 1..Len(wire) /\ IsReply(i) /\ wire'[i].re = wire[i].re
      BY <2>1, <2>2, <2>4 DEF IsReply
    <3>2. wire[i].re <= sendIndex - Len(unpushed) /\ wire[i].re \in Nat
      BY <3>1, PacketAt DEF RepliesPushed
    <3> QED
      BY <1>0, <2>3, <3>1, <3>2, SMTT(30)
  <2> QED
    BY <2>4 DEF RepliesPushed
<1> QED
  BY <1>1, <1>2

-----------------------------------------------------------------------------
(* The reply at the frontier answers the oldest command of the queue.      *)
LEMMA NextReply ==
  ASSUME TypeInv, QueueInv, CalmInv, state = "connected",
         NEW h \in Slots, Unprocessed(h), IsReply(activation[h].next)
  PROVE  /\ wire[activation[h].next].re = Base + 1
         /\ promises # <<>> /\ timestamps > 0 /\ Base + 1 <= served
<1> DEFINE n == activation[h].next
<1>0. /\ Len(wire) \in Nat /\ served \in Nat /\ delivered \in Nat /\ sendIndex \in Nat
      /\ Len(promises) \in Nat /\ Len(unpushed) \in Nat /\ Base \in Int
  BY Numbers
<1>a. WireInv /\ OneFrontier /\ RepliesPushed /\ PairingInv
  BY DEF CalmInv, OrderInv
<1>b. /\ timestamps = sendIndex - Base
      /\ \A i \in 1..Len(wire) : IsReply(i) => (Processed(i) <=> wire[i].re <= Base)
  BY <1>a DEF PairingInv
<1>1. n \in 1..Len(wire) /\ n <= delivered /\ \A i \in Nat : Processed(i) <=> i < n
  BY <1>a, Frontier
<1> HIDE DEF n
<1>c. IsReply(n) /\ n \in Nat
  BY <1>0, <1>1 DEF n
<1>2. wire[n].re \in Nat /\ wire[n].re <= served /\ wire[n].re > Base
  <2>1. wire[n].re \in Nat
    BY <1>1, PacketAt
  <2>2. wire[n].re <= served
    BY <1>a, <1>1, <1>c DEF WireInv, AnswersServed
  <2>3. ~Processed(n)
    BY <1>1, <1>c
  <2>4. ~(wire[n].re <= Base)
    BY <1>b, <1>c, <1>1, <2>3
  <2> QED
    BY <1>0, <2>1, <2>2, <2>4
<1>3. Base + 1 \in 1..served
  <2>1. Base >= 0
    BY DEF QueueInv
  <2> QED
    BY <1>0, <1>2, <2>1
<1>4. PICK j \in 1..Len(wire) : IsReply(j) /\ wire[j].re = Base + 1
  BY <1>a, <1>3 DEF WireInv, AnswersComplete
<1>5. ~Processed(j)
  BY <1>0, <1>b, <1>4
<1>6. ~(n < j)
  <2>1. n < j => wire[n].re < wire[j].re
    BY <1>a, <1>1, <1>c, <1>4 DEF WireInv, AnswersInOrder
  <2> QED
    BY <1>0, <1>2, <1>4, <2>1
<1>7. j = n
  BY <1>0, <1>1, <1>5, <1>6
<1>8. wire[n].re <= sendIndex - Len(unpushed)
  BY <1>0, <1>a, <1>1, <1>c DEF RepliesPushed
<1>9. Len(promises) >= 1
  <2>1. Base = sendIndex - Len(unpushed) - Len(promises)
    BY DEF Base
  <2> QED
    BY <1>0, <1>2, <1>8, <2>1
<1>10. promises # <<>>
  BY <1>9
<1>11. timestamps > 0
  BY <1>0, <1>b, <1>2, <1>8
<1>12. wire[n].re = Base + 1
  BY <1>4, <1>7
<1> QED
  BY <1>0, <1>3, <1>10, <1>11, <1>12 DEF n

(* Nothing more is claimed of a connection that is done.                   *)
LEMMA PairingDone ==
  ASSUME state' = "disconnected" PROVE PairingInv'
  BY DEF PairingInv

(* A step that moves neither the frontier nor the queue's base.            *)
LEMMA PairingKept ==
  ASSUME TypeInv, PairingInv, state' = state, Base' = Base,
         UNCHANGED <<wire, served>>,
         sendIndex' \in Nat, timestamps' \in Nat,
         sendIndex' - timestamps' = sendIndex - timestamps,
         \A i \in Nat : Processed(i)' <=> Processed(i),
         \A g \in Slots : Awaiting(g)' => Awaiting(g),
         \A g \in Slots : Unprocessed(g)' /\ Awaiting(g)' =>
             Unprocessed(g) /\ activation'[g].await = activation[g].await
  PROVE  PairingInv'
<1> USE Numbers
<1>1. Processed(1)' <=> Processed(1)
  OBVIOUS
<1>2. \A i \in 1..Len(wire) : (IsReply(i)' <=> IsReply(i)) /\ (Processed(i)' <=> Processed(i))
  BY DEF IsReply
<1>3. ASSUME state = "connected"
      PROVE  /\ wire' # <<>> /\ timestamps' = sendIndex' - Base' /\ Base' <= served'
             /\ \A i \in 1..Len(wire') : IsReply(i)' => (Processed(i)' <=> wire'[i].re <= Base')
             /\ \A h \in Slots : Unprocessed(h)' /\ Awaiting(h)' => activation'[h].await > Base'
  <2>1. wire' # <<>> /\ timestamps' = sendIndex' - Base' /\ Base' <= served'
    BY <1>3, SMTT(30) DEF PairingInv
  <2>2. \A i \in 1..Len(wire') : IsReply(i)' => (Processed(i)' <=> wire'[i].re <= Base')
    BY <1>2, <1>3 DEF PairingInv
  <2>3. \A h \in Slots : Unprocessed(h)' /\ Awaiting(h)' => activation'[h].await > Base'
    BY <1>3 DEF PairingInv
  <2> QED
    BY <2>1, <2>2, <2>3
<1>4. ~Processed(1)' /\ state' = "initializing" => Base' = 0 /\ timestamps' = sendIndex'
  BY <1>1 DEF PairingInv
<1>5. ~Processed(1)' => state' # "connected"
  BY <1>1 DEF PairingInv
<1>6. state' = "initializing" => \A h \in Slots : ~Awaiting(h)'
  BY DEF PairingInv
<1> QED
  BY <1>3, <1>4, <1>5, <1>6 DEF PairingInv

(* The server's writing leaves the pairing as it is.                       *)
LEMMA PairingServer ==
  ASSUME TypeInv, TypeInv', WireInv, PairingInv, Server, Calm, Calm'
  PROVE  PairingInv'
<1> USE Numbers
<1>1. UNCHANGED <<clientVars, linkVars>>
  BY DEF Server, ServerGreet, ServerAnswer, ServerEvent, ServerStray, ServerClose
<1>2. UNCHANGED <<state, Base, timestamps, sendIndex, activation, delivered>>
  BY <1>1 DEF clientVars, linkVars, Base
<1>3. \A i : Processed(i)' <=> Processed(i)
  BY <1>2 DEF Processed, Unprocessed
<1>4. \A h \in Slots : (Unprocessed(h)' <=> Unprocessed(h)) /\ (Awaiting(h)' <=> Awaiting(h))
  BY <1>2 DEF Unprocessed, Awaiting
<1>5. ASSUME state = "connected"
      PROVE  /\ wire' # <<>> /\ served <= served' /\ served' \in Nat
             /\ \A i \in 1..Len(wire') : IsReply(i)' => (Processed(i)' <=> wire'[i].re <= Base)
  <2>1. wire # <<>> /\ greeted /\ Base <= served
    BY <1>5 DEF PairingInv, WireInv, GreetingFirst
  <2>2. CASE UNCHANGED <<wire, served>>
    BY <1>3, <1>5, <2>1, <2>2 DEF PairingInv, IsReply
  <2>3. ASSUME NEW p \in Packets, wire' = Append(wire, p),
               p.type \in ReplyTypes => p.re \in Int /\ p.re > Base
        PROVE  wire' # <<>> /\ \A i \in 1..Len(wire') : IsReply(i)' => (Processed(i)' <=> wire'[i].re <= Base)
    <3>1. /\ wire' # <<>> /\ Len(wire') = Len(wire) + 1
          /\ \A i \in 1..Len(wire) : wire'[i] = wire[i]
          /\ wire'[Len(wire) + 1] = p
      BY <2>3, Written
    <3>2. ASSUME NEW i \in 1..Len(wire), IsReply(i)' PROVE Processed(i)' <=> wire'[i].re <= Base
      <4>1. IsReply(i) /\ wire'[i].re = wire[i].re
        BY <3>1, <3>2 DEF IsReply
      <4> QED
        BY <1>3, <1>5, <4>1 DEF PairingInv
    <3>3. ASSUME NEW i \in 1..Len(wire'), i = Len(wire) + 1, IsReply(i)'
          PROVE  Processed(i)' <=> wire'[i].re <= Base
      <4>1. ~Processed(i)
        BY <3>3 DEF Processed
      <4>2. p.type \in ReplyTypes /\ wire'[i].re = p.re
        BY <3>1, <3>3 DEF IsReply
      <4> QED
        BY <1>3, <2>3, <4>1, <4>2
    <3>4. \A i \in 1..Len(wire') : i \in 1..Len(wire) \/ i = Len(wire) + 1
      BY <3>1
    <3> QED
      BY <3>1, <3>2, <3>3, <3>4
  <2>4. CASE ServerAnswer
    <3>1. PICK type \in ReplyTypes : wire' = Append(wire, Packet(type, served + 1, 0))
      BY <2>4 DEF ServerAnswer, Write
    <3>2. Packet(type, served + 1, 0) \in Packets /\ Packet(type, served + 1, 0).re = served + 1
      BY <2>4 DEF ServerAnswer, Packet, Packets, PacketTypes, ReplyTypes
    <3>3. served' = served + 1
      BY <2>4 DEF ServerAnswer
    <3> QED
      BY <2>1, <2>3, <3>1, <3>2, <3>3, SMTT(30)
  <2>5. CASE ServerEvent
    <3>1. wire' = Append(wire, Packet("event", 0, 0)) /\ served' = served
      BY <2>5 DEF ServerEvent, Write
    <3>2. Packet("event", 0, 0) \in Packets /\ Packet("event", 0, 0).type \notin ReplyTypes
      BY Bounds DEF Packet, Packets, PacketTypes, ReplyTypes
    <3> QED
      BY <2>3, <3>1, <3>2
  <2>6. ~ServerGreet /\ ~ServerStray
    BY <2>1, ConnectionAssumption DEF ServerGreet, ServerStray, Calm, TypeInv, TypeOK
  <2> QED
    BY <2>2, <2>4, <2>5, <2>6 DEF Server, ServerClose
<1>6. state = "connected" =>
         /\ wire' # <<>>
         /\ timestamps' = sendIndex' - Base'
         /\ Base' <= served'
         /\ \A i \in 1..Len(wire') : IsReply(i)' => (Processed(i)' <=> wire'[i].re <= Base')
         /\ \A h \in Slots : Unprocessed(h)' /\ Awaiting(h)' => activation'[h].await > Base'
  BY <1>2, <1>4, <1>5 DEF PairingInv
<1> QED
  BY <1>2, <1>3, <1>4, <1>6 DEF PairingInv

(* What a step that takes one packet off the frontier does to it.          *)
LEMMA PacketTaken ==
  ASSUME TypeInv, OneFrontier, NEW h \in Slots, Receiving(h), PacketDone(h)
  PROVE  /\ activation[h].next \in 1..Len(wire)
         /\ CurrentPacket(h) = wire[activation[h].next]
         /\ \A i \in Nat : Processed(i) <=> i < activation[h].next
         /\ \A i \in Nat : Processed(i)' <=> i <= activation[h].next
         /\ \A g \in Slots : ~(Unprocessed(g)' /\ Awaiting(g)')
         /\ \A g \in Slots : Awaiting(g)' => Awaiting(g)
<1>1. Unprocessed(h) /\ UNCHANGED delivered
      /\ activation' = [activation EXCEPT ![h] = Busy(activation[h].next + 1, activation[h].last, 0)]
  BY DEF Receiving, PacketDone
<1>2. activation \in [Slots -> Activations]
  BY DEF TypeInv, TypeOK
<1>3. ~Awaiting(h)' /\ \A g \in Slots : g # h => activation'[g] = activation[g]
  BY <1>1, <1>2 DEF Awaiting, Busy
<1>4. \A g \in Slots : Unprocessed(g)' => g = h
  BY <1>1, FrontierMoves
<1>5. \A i \in Nat : Processed(i)' <=> i <= activation[h].next
  BY <1>1, FrontierMoves
<1>6. \A g \in Slots : Awaiting(g)' => Awaiting(g)
  BY <1>3 DEF Awaiting
<1> QED
  BY <1>1, <1>3, <1>4, <1>5, <1>6, Frontier DEF CurrentPacket

LEMMA PairingGreeting ==
  ASSUME TypeInv, QueueInv, CalmInv, NEW h \in Slots, RecvGreeting(h)
  PROVE  PairingInv'
<1> USE Numbers DEF CalmInv, OrderInv
<1> DEFINE n == activation[h].next
<1>1. Receiving(h) /\ PacketDone(h) /\ TraceRecv(h) /\ state = "initializing"
      /\ CurrentPacket(h).type = "greeting" /\ UNCHANGED <<wire, served, sendIndex, unpushed>>
  BY DEF RecvGreeting, serverVars
<1>2. /\ n \in 1..Len(wire) /\ CurrentPacket(h) = wire[n]
      /\ \A i \in Nat : Processed(i) <=> i < n
      /\ \A i \in Nat : Processed(i)' <=> i <= n
      /\ \A g \in Slots : ~(Unprocessed(g)' /\ Awaiting(g)')
      /\ \A g \in Slots : Awaiting(g)' => Awaiting(g)
  BY <1>1, PacketTaken
<1>3. n = 1
  BY <1>1, <1>2 DEF WireInv, GreetingFirst
<1>4. ~Processed(1) /\ Processed(1)' /\ Base = 0 /\ timestamps = sendIndex
  BY <1>1, <1>2, <1>3 DEF PairingInv
<1>5. \A g \in Slots : ~Awaiting(g)'
  BY <1>1, <1>2 DEF PairingInv
<1>6. CASE state' = "connected" /\ UNCHANGED promises
  <2>1. Base' = 0 /\ timestamps' = timestamps
    BY <1>1, <1>4, <1>6 DEF Base, TraceRecv, ReplyTypes
  <2>2. wire' # <<>>
    BY <1>1, <1>2, <1>3
  <2>3. ASSUME NEW i \in 1..Len(wire'), IsReply(i)' PROVE Processed(i)' <=> wire'[i].re <= 0
    <3>1. i \in 1..Len(wire) /\ IsReply(i) /\ wire'[i].re = wire[i].re
      BY <1>1, <2>3 DEF IsReply
    <3>2. i # 1
      BY <1>1, <1>2, <1>3, <3>1 DEF IsReply, ReplyTypes
    <3>3. wire[i].re >= 1 /\ wire[i].re \in Nat
      BY <3>1, PacketAt DEF WireInv, AnswersServed
    <3> QED
      BY <1>2, <1>3, <3>1, <3>2, <3>3, SMTT(30)
  <2> QED
    BY <1>1, <1>4, <1>5, <1>6, <2>1, <2>2, <2>3 DEF PairingInv
<1>7. CASE state' = state
  BY <1>1, <1>4, <1>5, <1>7 DEF PairingInv
<1> QED
  BY <1>6, <1>7 DEF RecvGreeting

LEMMA PairingReply ==
  ASSUME TypeInv, QueueInv, CalmInv, NEW h \in Slots, RecvReply(h)
  PROVE  PairingInv' /\ ReplyMatches'
<1> USE Numbers DEF CalmInv, OrderInv
<1> DEFINE n == activation[h].next
<1>1. Receiving(h) /\ PacketDone(h) /\ TraceRecv(h) /\ state = "connected" /\ state' = state
      /\ CurrentPacket(h).type \in ReplyTypes /\ UNCHANGED <<wire, served, sendIndex, unpushed>>
  BY DEF RecvReply, serverVars
<1>2. /\ n \in 1..Len(wire) /\ CurrentPacket(h) = wire[n]
      /\ \A i \in Nat : Processed(i) <=> i < n
      /\ \A i \in Nat : Processed(i)' <=> i <= n
      /\ \A g \in Slots : ~(Unprocessed(g)' /\ Awaiting(g)')
  BY <1>1, PacketTaken
<1>3. IsReply(n) /\ Unprocessed(h)
  BY <1>1, <1>2 DEF IsReply, Receiving
<1>4. wire[n].re = Base + 1 /\ timestamps > 0 /\ Base + 1 <= served
  BY <1>1, <1>3, NextReply
<1>5. Base' = Base + 1 /\ Head(promises) = Base + 1
  BY ReplyQueue
<1>6. timestamps' = timestamps - 1
  BY <1>1, <1>4 DEF TraceRecv
<1>7. ASSUME NEW i \in 1..Len(wire'), IsReply(i)' PROVE Processed(i)' <=> wire'[i].re <= Base + 1
  <2>1. i \in 1..Len(wire) /\ IsReply(i) /\ wire'[i].re = wire[i].re /\ wire[i].re \in Nat
    BY <1>1, <1>7, PacketAt DEF IsReply
  <2>2. CASE i < n
    <3>1. i \in Nat /\ n \in Nat /\ i <= n
      BY <1>2, <2>1, <2>2, SMTT(30)
    <3>2. Processed(i) /\ Processed(i)'
      BY <1>2, <2>2, <3>1
    <3>3. wire[i].re <= Base
      BY <1>1, <2>1, <3>2 DEF PairingInv
    <3> QED
      BY <2>1, <3>2, <3>3, SMTT(30)
  <2>3. CASE i = n
    BY <1>2, <1>4, <2>1, <2>3
  <2>4. CASE i > n
    <3>1. wire[n].re < wire[i].re
      BY <1>2, <1>3, <2>1, <2>4 DEF WireInv, AnswersInOrder
    <3> QED
      BY <1>2, <1>4, <2>1, <2>4, <3>1, SMTT(30)
  <2> QED
    BY <1>2, <2>1, <2>2, <2>3, <2>4, SMTT(30)
<1>8. PairingInv'
  <2>1. Processed(1)'
    BY <1>2
  <2>2. wire' # <<>> /\ timestamps' = sendIndex' - Base' /\ Base' <= served'
    BY <1>1, <1>4, <1>5, <1>6 DEF PairingInv
  <2> QED
    BY <1>1, <1>2, <1>5, <1>7, <2>1, <2>2 DEF PairingInv
<1>9. ReplyMatches'
  <2>1. Base + 1 \in Ids
    BY <1>4 DEF QueueInv, Ids
  <2>2. settledBy' = [settledBy EXCEPT ![Base + 1] = Base + 1]
    BY <1>2, <1>4, <1>5 DEF RecvReply
  <2>3. \A id \in Ids : id # Base + 1 => outcome'[id] = outcome[id]
    BY <1>5, QueueTypes DEF RecvReply
  <2>4. settledBy \in [Ids -> 0..MaxId]
    BY DEF TypeInv, TypeOK
  <2> QED
    BY <2>1, <2>2, <2>3, <2>4 DEF ReplyMatches, Replied
<1> QED
  BY <1>8, <1>9

LEMMA PairingUnexpected ==
  ASSUME TypeInv, QueueInv, CalmInv, NEW h \in Slots, RecvUnexpected(h)
  PROVE  PairingInv'
<1> USE Numbers DEF CalmInv, OrderInv
<1> DEFINE n == activation[h].next
<1>1. Receiving(h) /\ PacketDone(h) /\ ~Expected(h) /\ state' = state
  BY DEF RecvUnexpected
<1>2. /\ n \in 1..Len(wire) /\ CurrentPacket(h) = wire[n]
      /\ \A i \in Nat : Processed(i) <=> i < n
      /\ \A i \in Nat : Processed(i)' <=> i <= n
      /\ \A g \in Slots : Awaiting(g)' => Awaiting(g)
  BY <1>1, PacketTaken
<1>3. state # "connected"
  <2> SUFFICES ASSUME state = "connected" PROVE FALSE
    OBVIOUS
  <2>1. Unprocessed(h) /\ wire[n].type # "junk" /\ wire[n] \in Packets
    BY <1>1, <1>2, PacketAt DEF Receiving, WireInv, WellFormed
  <2>2. CASE IsReply(n)
    <3>1. promises # <<>>
      BY <2>1, <2>2, NextReply
    <3> QED
      BY <1>1, <1>2, <2>2, <3>1 DEF Expected, IsReply
  <2>3. CASE wire[n].type = "greeting"
    <3>1. n = 1 /\ ~Processed(1)
      BY <1>2, <2>3, SMTT(30) DEF WireInv, GreetingFirst
    <3> QED
      BY <3>1 DEF PairingInv
  <2>4. CASE wire[n].type = "event"
    BY <1>1, <1>2, <2>4 DEF Expected
  <2> QED
    BY <2>1, <2>2, <2>3, <2>4 DEF IsReply, Packets, PacketTypes, ReplyTypes
<1>4. Processed(1)'
  BY <1>2
<1>5. state = "initializing" => \A g \in Slots : ~Awaiting(g)'
  BY <1>2 DEF PairingInv
<1> QED
  BY <1>1, <1>3, <1>4, <1>5 DEF PairingInv

LEMMA PairingEvent ==
  ASSUME TypeInv, TypeInv', QueueInv, CalmInv, NEW h \in Slots, RecvEvent(h)
  PROVE  PairingInv'
<1> USE Numbers DEF CalmInv, OrderInv
<1> DEFINE n == activation[h].next
<1>1. /\ Receiving(h) /\ Send /\ state = "connected" /\ state' = state
      /\ CurrentPacket(h).type = "event" /\ UNCHANGED <<wire, served, delivered, promises>>
      /\ activation' = [activation EXCEPT ![h] = Busy(n + 1, activation[h].last, sendIndex + 1)]
  BY DEF RecvEvent, serverVars
<1>2. Unprocessed(h) /\ sendIndex + 1 \in Nat
  BY <1>1 DEF Receiving
<1>3. n \in 1..Len(wire) /\ \A i \in Nat : Processed(i) <=> i < n
  BY <1>2, Frontier
<1>4. /\ \A i \in Nat : Processed(i)' <=> i <= n
      /\ \A g \in Slots : Unprocessed(g)' => g = h
  BY <1>1, <1>2, FrontierMoves
<1>5. activation'[h].await = sendIndex + 1
  <2>1. activation \in [Slots -> Activations]
    BY DEF TypeInv, TypeOK
  <2> QED
    BY <1>1, <2>1 DEF Busy
<1>6. sendIndex' = sendIndex + 1 /\ timestamps' = timestamps + 1 /\ Base' = Base /\ Base <= sendIndex
  <2>1. sendIndex' = sendIndex + 1 /\ timestamps' = timestamps + 1
        /\ unpushed' = Append(unpushed, sendIndex + 1)
    BY <1>1 DEF Send
  <2>2. Len(unpushed') = Len(unpushed) + 1
    BY <2>1, QueueTypes
  <2> QED
    BY <1>1, <2>1, <2>2, SMTT(30) DEF Base
<1>7. ASSUME NEW i \in 1..Len(wire'), IsReply(i)' PROVE Processed(i)' <=> wire'[i].re <= Base
  <2>1. i \in 1..Len(wire) /\ IsReply(i) /\ wire'[i].re = wire[i].re
    BY <1>1, <1>7 DEF IsReply
  <2>2. i # n
    BY <1>1, <2>1 DEF IsReply, ReplyTypes, CurrentPacket
  <2>3. Processed(i)' <=> Processed(i)
    BY <1>3, <1>4, <2>1, <2>2, SMTT(30)
  <2> QED
    BY <1>1, <2>1, <2>3 DEF PairingInv
<1>8. Processed(1)'
  BY <1>3, <1>4
<1>9. wire' # <<>> /\ timestamps' = sendIndex' - Base' /\ Base' <= served'
  BY <1>1, <1>6 DEF PairingInv
<1>10. \A g \in Slots : Unprocessed(g)' /\ Awaiting(g)' => activation'[g].await > Base'
  BY <1>4, <1>5, <1>6
<1> QED
  BY <1>1, <1>6, <1>7, <1>8, <1>9, <1>10 DEF PairingInv

(* The rest of a chunk is dropped only where it no longer matters.         *)
LEMMA PairingAbort ==
  ASSUME TypeInv, QueueInv, CalmInv, NEW h \in Slots, Abort(h), Unprocessed(h)
  PROVE  PairingInv'
<1> USE Numbers DEF CalmInv, OrderInv
<1> DEFINE n == activation[h].next
<1>1. /\ RecvThrows(h) /\ UNCHANGED <<state, delivered>>
      /\ activation' = [activation EXCEPT ![h] = Idle]
  BY DEF Abort, clientVars
<1>2. n \in 1..Len(wire) /\ \A i \in Nat : Processed(i) <=> i < n
  BY Frontier
<1>3. wire[n].type # "junk"
  BY <1>2 DEF WireInv, WellFormed
<1>4. activation \in [Slots -> Activations]
  BY DEF TypeInv, TypeOK
<1>5. \A g \in Slots : Unprocessed(g)' \/ Awaiting(g)' => activation'[g] = activation[g]
  BY <1>1, <1>4 DEF Unprocessed, Awaiting, Idle
<1>6. state # "connected"
  <2> SUFFICES ASSUME state = "connected" PROVE FALSE
    OBVIOUS
  <2>1. CASE Awaiting(h)
    <3>1. activation[h].await > Base /\ activation[h].await \in Ids
      BY <2>1, <1>4 DEF PairingInv, Awaiting, Activations, Ids
    <3>2. ~Settled(activation[h].await)
      BY <3>1 DEF QueueInv, Ids
    <3> QED
      BY <1>1, <2>1, <3>2 DEF RecvThrows, Settled, Awaiting, Running
  <2>2. CASE ~Awaiting(h)
    <3>1. Running(h) /\ ~Receiving(h)
      BY <1>1, <2>2 DEF RecvThrows
    <3>2. wire[n].type = "response" /\ timestamps = 0
      BY <1>3, <3>1 DEF Receiving, CurrentPacket
    <3>3. IsReply(n)
      BY <3>2 DEF IsReply, ReplyTypes
    <3>4. timestamps > 0
      BY <3>3, NextReply
    <3> QED
      BY <3>2, <3>4
  <2> QED
    BY <2>1, <2>2
<1>7. CASE state = "initializing"
  <2>1. Running(h) /\ ~Receiving(h)
    BY <1>1, <1>7 DEF RecvThrows, PairingInv
  <2>2. wire[n].type = "response"
    BY <1>3, <2>1 DEF Receiving, CurrentPacket
  <2>3. n # 1
    BY <1>2, <2>2 DEF WireInv, GreetingFirst
  <2>4. Processed(1)
    BY <1>2, <2>3
  <2>5. Processed(1)'
    BY <1>1, <1>5, <2>4 DEF Processed, Unprocessed
  <2>6. \A g \in Slots : ~Awaiting(g)'
    BY <1>5, <1>7 DEF PairingInv, Awaiting
  <2> QED
    BY <1>1, <1>7, <2>5, <2>6 DEF PairingInv
<1>8. CASE state = "disconnected"
  BY <1>1, <1>8, PairingDone
<1> QED
  BY <1>6, <1>7, <1>8 DEF TypeInv, TypeOK

LEMMA PairingStep ==
  ASSUME TypeInv, TypeInv', QueueInv, CalmInv, Next, Calm, Calm'
  PROVE  PairingInv' /\ ReplyMatches'
<1> USE DEF CalmInv, OrderInv
<1>0. sendIndex' \in Nat /\ timestamps' \in Nat
  BY Bounds DEF TypeInv, TypeOK
<1>a. ASSUME RejectPromises, UNCHANGED settledBy PROVE ReplyMatches'
  BY <1>a DEF RejectPromises, ReplyMatches, Replied
<1>b. ASSUME UNCHANGED <<outcome, settledBy>> PROVE ReplyMatches'
  BY <1>b DEF ReplyMatches, Replied
<1>c. ASSUME Send, UNCHANGED settledBy PROVE ReplyMatches'
  <2>1. outcome' = outcome \/ outcome' = [outcome EXCEPT ![sendIndex + 1] = "rejected"]
    BY <1>c DEF Send
  <2>2. outcome \in [Ids -> Outcomes]
    BY QueueTypes
  <2> QED
    BY <1>c, <2>1, <2>2 DEF ReplyMatches, Replied
<1>d. ASSUME SameFrontier
      PROVE  /\ \A i \in Nat : Processed(i)' <=> Processed(i)
             /\ \A g \in Slots : Awaiting(g)' => Awaiting(g)
             /\ \A g \in Slots : Unprocessed(g)' /\ Awaiting(g)' =>
                  Unprocessed(g) /\ activation'[g].await = activation[g].await
  BY <1>d DEF SameFrontier
<1>1. CASE Perform
  <2>1. Send /\ UNCHANGED <<state, promises, settledBy, activation, delivered, wire, served>>
    BY <1>1 DEF Perform, linkVars, serverVars
  <2>2. SameFrontier
    BY <2>1, FrontierStays
  <2>3. CASE state = "disconnected"
    BY <1>c, <2>1, <2>3, PairingDone
  <2>4. CASE state # "disconnected"
    <3>1. sendIndex' = sendIndex + 1 /\ timestamps' = timestamps + 1
          /\ unpushed' = Append(unpushed, sendIndex + 1)
      BY <2>1, <2>4 DEF Send
    <3>2. Len(unpushed') = Len(unpushed) + 1
      BY <3>1, QueueTypes
    <3>3. Base' = Base
      BY <2>1, <3>1, <3>2, Numbers DEF Base
    <3>4. sendIndex' - timestamps' = sendIndex - timestamps
      BY <3>1, Numbers, SMTT(30)
    <3>5. PairingInv'
      BY <1>0, <1>d, <2>1, <2>2, <3>3, <3>4, PairingKept
    <3> QED
      BY <1>c, <2>1, <3>5
  <2> QED
    BY <2>3, <2>4
<1>2. CASE PushPromise
  <2>1. UNCHANGED <<state, sendIndex, timestamps, outcome, settledBy, activation, delivered, wire, served>>
        /\ promises' = Append(promises, Head(unpushed)) /\ unpushed' = Tail(unpushed) /\ unpushed # <<>>
    BY <1>2 DEF PushPromise, linkVars, serverVars
  <2>2. Len(promises') = Len(promises) + 1 /\ Len(unpushed') = Len(unpushed) - 1
    BY <2>1, QueueTypes
  <2>s. sendIndex' = sendIndex
    BY <2>1
  <2>3. Base' = Base
    BY <2>2, <2>s, Numbers, SMTT(30) DEF Base
  <2>4. SameFrontier
    BY <2>1, FrontierStays
  <2>5. PairingInv'
    BY <1>0, <1>d, <2>1, <2>3, <2>4, PairingKept
  <2> QED
    BY <1>b, <2>1, <2>5
<1>e. ASSUME UNCHANGED <<clientVars, wire, served>>, SameFrontier
      PROVE  PairingInv' /\ ReplyMatches'
  <2>1. UNCHANGED <<state, Base, sendIndex, timestamps, outcome, settledBy>>
    BY <1>e DEF clientVars, Base
  <2>2. PairingInv'
    BY <1>0, <1>d, <1>e, <2>1, PairingKept
  <2> QED
    BY <1>b, <2>1, <2>2
<1>3. CASE Dispose
  <2>1. UNCHANGED <<activation, delivered, clientVars, wire, served>>
    BY <1>3 DEF Dispose, serverVars
  <2> QED
    BY <1>e, <2>1, FrontierStays
<1>4. CASE OnStreamData
  <2>1. /\ \A i \in Nat : Processed(i)' <=> Processed(i)
        /\ \A g \in Slots : ~(Unprocessed(g)' /\ Awaiting(g)')
    BY <1>4, ChunkDelivered DEF Calm
  <2>2. UNCHANGED <<state, Base, sendIndex, timestamps, outcome, settledBy, wire, served>>
    BY <1>4 DEF OnStreamData, clientVars, serverVars, Base
  <2>3. \A g \in Slots : Awaiting(g)' => Awaiting(g)
    <3>1. PICK last \in (delivered + 1)..Len(wire), h \in Slots :
            activation' = [activation EXCEPT ![h] = Busy(delivered + 1, last, 0)]
      BY <1>4 DEF OnStreamData
    <3>2. activation \in [Slots -> Activations]
      BY DEF TypeInv, TypeOK
    <3> QED
      BY <3>1, <3>2 DEF Awaiting, Busy
  <2>4. PairingInv'
    BY <1>0, <2>1, <2>2, <2>3, PairingKept
  <2> QED
    BY <1>b, <2>2, <2>4
<1>5. ASSUME NEW h \in Slots, Activation(h) PROVE PairingInv' /\ ReplyMatches'
  <2>1. CASE RecvGreeting(h)
    <3>1. UNCHANGED settledBy /\ (RejectPromises \/ UNCHANGED outcome)
      BY <2>1 DEF RecvGreeting
    <3> QED
      BY <1>a, <1>b, <2>1, <3>1, PairingGreeting
  <2>2. CASE RecvReply(h)
    BY <2>2, PairingReply
  <2>3. CASE RecvUnexpected(h)
    BY <1>a, <2>3, PairingUnexpected DEF RecvUnexpected
  <2>4. CASE RecvEvent(h)
    BY <1>c, <2>4, PairingEvent DEF RecvEvent
  <2>5. CASE EventDone(h) \/ ChunkDone(h) \/ (Abort(h) /\ ~Unprocessed(h))
    <3>1. UNCHANGED <<clientVars, wire, served, delivered>>
      BY <2>5 DEF EventDone, ChunkDone, Abort, serverVars
    <3> QED
      BY <1>e, <2>5, <3>1, FrontierStays
  <2>6. CASE Abort(h) /\ Unprocessed(h)
    <3>1. UNCHANGED <<outcome, settledBy>>
      BY <2>6 DEF Abort, clientVars
    <3> QED
      BY <1>b, <2>6, <3>1, PairingAbort
  <2> QED
    BY <1>5, <2>1, <2>2, <2>3, <2>4, <2>5, <2>6 DEF Activation
<1>6. CASE OnStreamEnd
  BY <1>a, <1>6, PairingDone DEF OnStreamEnd
<1>7. CASE Server
  <2>1. UNCHANGED <<outcome, settledBy>>
    BY <1>7 DEF Server, ServerGreet, ServerAnswer, ServerEvent, ServerStray, ServerClose, clientVars
  <2> QED
    BY <1>b, <1>7, <2>1, PairingServer
<1> QED
  BY <1>1, <1>2, <1>3, <1>4, <1>5, <1>6, <1>7 DEF Next

LEMMA PairInvStep == PairInv /\ [Next]_vars => PairInv'
<1> SUFFICES ASSUME PairInv, [Next]_vars PROVE PairInv'
  OBVIOUS
<1>1. TypeInv' /\ QueueInv'
  BY TypeStep, QueueStep DEF PairInv
<1>2. CASE Next
  <2> SUFFICES ASSUME Calm' PROVE CalmInv'
    BY <1>1 DEF PairInv
  <2>1. Calm /\ CalmInv /\ ~overtaken'
    BY <1>2, CalmBackwards DEF PairInv, Calm
  <2>2. WireInv'
    BY <1>2, <2>1, WireStep DEF PairInv, CalmInv
  <2>3. OrderInv'
    BY <1>1, <1>2, <2>1, OneFrontierStep, RepliesPushedStep DEF PairInv, CalmInv, OrderInv
  <2>4. PairingInv' /\ ReplyMatches'
    BY <1>1, <1>2, <2>1, PairingStep DEF PairInv
  <2> QED
    BY <2>2, <2>3, <2>4 DEF CalmInv
<1>3. CASE UNCHANGED vars
  <2>1. Calm' <=> Calm
    BY <1>3 DEF vars, linkVars, serverVars, Calm
  <2>2. CalmInv => CalmInv'
    BY <1>3 DEF vars, clientVars, linkVars, serverVars, CalmInv, WireInv, GreetingFirst, WellFormed,
         AnswersServed, AnswersInOrder, AnswersComplete, OrderInv, OneFrontier, RepliesPushed,
         PairingInv, ReplyMatches, Replied, Processed, Unprocessed, Awaiting, IsReply, Base
  <2> QED
    BY <1>1, <2>1, <2>2 DEF PairInv
<1> QED
  BY <1>2, <1>3

(* As long as the server keeps to the protocol and no chunk overtakes an   *)
(* earlier one, every promise that a reply settles gets the reply to its   *)
(* own command, whatever the number of commands, events and activations.   *)
THEOREM RepliesPaired == Spec => []CalmReplyMatches
<1>1. Init => PairInv
  BY PairInit
<1>2. PairInv /\ [Next]_vars => PairInv'
  BY PairInvStep
<1>3. PairInv => CalmReplyMatches
  BY DEF PairInv, CalmInv, CalmReplyMatches
<1> QED
  BY <1>1, <1>2, <1>3, PTL DEF Spec

-----------------------------------------------------------------------------
(* The timestamps outside a connection that is up.  While initializing, a  *)
(* reply takes a timestamp off the list as one does when connected; once   *)
(* disconnected no packet is looked at any more.                           *)
ElapsedInv ==
    /\ state = "initializing" =>
         /\ sendIndex - timestamps <= served
         /\ \A i \in 1..Len(wire) :
               IsReply(i) => (Processed(i) <=> wire[i].re <= sendIndex - timestamps)
    /\ state = "disconnected" =>
         /\ stream # "open"
         /\ \A h \in Slots : Unprocessed(h) =>
               Awaiting(h) /\ outcome[activation[h].await] # "resolved"

(* When the replies to the d oldest commands have been processed, the      *)
(* reply at the frontier answers the next one.                             *)
LEMMA FrontierAnswer ==
  ASSUME TypeInv, WireInv, OneFrontier, NEW d \in Nat,
         \A i \in 1..Len(wire) : IsReply(i) => (Processed(i) <=> wire[i].re <= d),
         NEW h \in Slots, Unprocessed(h), IsReply(activation[h].next)
  PROVE  wire[activation[h].next].re = d + 1 /\ d + 1 <= served
<1> DEFINE n == activation[h].next
<1>0. Len(wire) \in Nat /\ served \in Nat /\ delivered \in Nat
  BY Numbers
<1>1. n \in 1..Len(wire) /\ IsReply(n) /\ \A i \in Nat : Processed(i) <=> i < n
  BY Frontier
<1> HIDE DEF n
<1>2. wire[n].re \in Nat /\ wire[n].re <= served
  BY <1>1, PacketAt DEF WireInv, AnswersServed
<1>3. wire[n].re > d
  <2>1. ~Processed(n)
    BY <1>0, <1>1
  <2>2. ~(wire[n].re <= d)
    BY <1>1, <2>1
  <2> QED
    BY <1>2, <2>2
<1>4. d + 1 \in 1..served
  BY <1>0, <1>2, <1>3
<1>5. PICK j \in 1..Len(wire) : IsReply(j) /\ wire[j].re = d + 1
  BY <1>4 DEF WireInv, AnswersComplete
<1>6. ~Processed(j)
  BY <1>5
<1>7. ~(n < j)
  <2>1. n < j => wire[n].re < wire[j].re
    BY <1>1, <1>5 DEF WireInv, AnswersInOrder
  <2> QED
    BY <1>2, <1>3, <1>5, <2>1
<1>8. j = n
  BY <1>0, <1>1, <1>6, <1>7
<1> QED
  BY <1>4, <1>5, <1>8 DEF n

(* While initializing, the list of timestamps starts at the command whose  *)
(* reply is at the frontier.                                               *)
LEMMA FrontierElapsed ==
  ASSUME TypeInv, WireInv, OneFrontier, ElapsedInv, state = "initializing",
         NEW h \in Slots, Unprocessed(h), IsReply(activation[h].next)
  PROVE  /\ wire[activation[h].next].re = sendIndex - timestamps + 1
         /\ timestamps > 0 /\ sendIndex - timestamps + 1 <= served
<1>1. sendIndex - timestamps \in Nat
  BY Bounds DEF TypeInv, TypeOK
<1>2. \A i \in 1..Len(wire) : IsReply(i) => (Processed(i) <=> wire[i].re <= sendIndex - timestamps)
  BY DEF ElapsedInv
<1>3. wire[activation[h].next].re = sendIndex - timestamps + 1 /\ sendIndex - timestamps + 1 <= served
  BY <1>1, <1>2, FrontierAnswer
<1>4. timestamps > 0
  <2>1. /\ served \in Nat /\ sent \in Nat /\ sendIndex \in Nat /\ timestamps \in Nat
        /\ served <= sent /\ sent <= sendIndex
    BY Numbers
  <2>2. sendIndex - timestamps + 1 <= served
    BY <1>3
  <2> QED
    BY <2>1, <2>2
<1> QED
  BY <1>3, <1>4

LEMMA ElapsedInit == Init => ElapsedInv
<1> SUFFICES ASSUME Init PROVE ElapsedInv
  OBVIOUS
<1>1. state = "initializing" /\ sendIndex - timestamps <= served /\ Len(wire) = 0
  BY DEF Init
<1> QED
  BY <1>1 DEF ElapsedInv

(* A step of the initializing connection that moves neither the frontier   *)
(* nor the list's start.                                                   *)
LEMMA ElapsedKept ==
  ASSUME TypeInv, ElapsedInv, state = "initializing", state' = state, UNCHANGED <<wire, served>>,
         sendIndex' - timestamps' = sendIndex - timestamps,
         \A i \in 1..Len(wire) : IsReply(i) => (Processed(i)' <=> Processed(i))
  PROVE  ElapsedInv'
<1>1. \A i \in 1..Len(wire) : IsReply(i)' <=> IsReply(i)
  BY DEF IsReply
<1> QED
  BY <1>1 DEF ElapsedInv

LEMMA ElapsedServer ==
  ASSUME TypeInv, WireInv, ElapsedInv, Server, Calm, Calm', state = "initializing"
  PROVE  ElapsedInv'
<1> DEFINE d == sendIndex - timestamps
           n == Len(wire)
<1>1. UNCHANGED <<clientVars, linkVars>>
  BY DEF Server, ServerGreet, ServerAnswer, ServerEvent, ServerStray, ServerClose
<1>2. UNCHANGED <<state, timestamps, sendIndex, activation, delivered>>
  BY <1>1 DEF clientVars, linkVars
<1>3. \A i : Processed(i)' <=> Processed(i)
  BY <1>2 DEF Processed, Unprocessed
<1>4. d \in Int /\ n \in Nat /\ served \in Nat /\ delivered \in Nat /\ delivered <= n /\ d <= served
  BY Numbers DEF ElapsedInv
<1>5. \A i \in 1..n : IsReply(i) => (Processed(i) <=> wire[i].re <= d)
  BY DEF ElapsedInv
<1>6. d' = d
  BY <1>2
<1> HIDE DEF d, n
<1>7. ASSUME NEW p \in Packets, wire' = Append(wire, p), served' \in Nat, served <= served',
             p.type \in ReplyTypes => p.re \in Int /\ p.re > served
      PROVE  ElapsedInv'
  <2>1. /\ Len(wire') = n + 1
        /\ \A i \in 1..n : wire'[i] = wire[i]
        /\ wire'[n + 1] = p
    BY <1>7, Written DEF n
  <2>2. ASSUME NEW i \in 1..n, IsReply(i)' PROVE Processed(i)' <=> wire'[i].re <= d
    <3>1. IsReply(i) /\ wire'[i].re = wire[i].re
      BY <2>1, <2>2 DEF IsReply
    <3> QED
      BY <1>3, <1>5, <3>1
  <2>3. ASSUME NEW i \in 1..Len(wire'), i = n + 1, IsReply(i)'
        PROVE  Processed(i)' <=> wire'[i].re <= d
    <3>1. ~Processed(i)
      BY <1>4, <2>3 DEF Processed
    <3>2. p.type \in ReplyTypes /\ wire'[i].re = p.re
      BY <2>1, <2>3 DEF IsReply
    <3> QED
      BY <1>3, <1>4, <1>7, <3>1, <3>2
  <2>4. \A i \in 1..(n + 1) : i \in 1..n \/ i = n + 1
    BY <1>4
  <2>5. \A i \in 1..Len(wire') : IsReply(i)' => (Processed(i)' <=> wire'[i].re <= d')
    BY <1>6, <2>1, <2>2, <2>3, <2>4
  <2>6. d' <= served'
    BY <1>4, <1>6, <1>7
  <2> QED
    BY <1>2, <2>5, <2>6 DEF ElapsedInv, d
<1>8. CASE ServerGreet
  <2>1. PICK v \in Versions : wire' = Append(wire, Packet("greeting", 0, v))
    BY <1>8 DEF ServerGreet, Write
  <2>2. Packet("greeting", 0, v) \in Packets /\ Packet("greeting", 0, v).type \notin ReplyTypes
    BY Bounds, ConnectionAssumption DEF Packet, Packets, PacketTypes, ReplyTypes
  <2> QED
    BY <1>4, <1>7, <1>8, <2>1, <2>2 DEF ServerGreet
<1>9. CASE ServerAnswer
  <2>1. PICK type \in ReplyTypes : wire' = Append(wire, Packet(type, served + 1, 0))
    BY <1>9 DEF ServerAnswer, Write
  <2>3. served' = served + 1
    BY <1>9 DEF ServerAnswer
  <2>0. served + 1 \in 0..MaxId
    <3>1. /\ served \in Nat /\ sent \in Nat /\ sendIndex \in Nat /\ MaxId \in Nat
          /\ served < sent /\ sent <= sendIndex /\ sendIndex <= MaxId
      BY <1>9, Numbers DEF ServerAnswer
    <3> QED
      BY <3>1
  <2>2. Packet(type, served + 1, 0) \in Packets /\ Packet(type, served + 1, 0).re = served + 1
    BY <2>0 DEF Packet, Packets, PacketTypes, ReplyTypes
  <2>4. served' \in Nat /\ served <= served' /\ served + 1 > served /\ served + 1 \in Int
    BY <1>4, <2>3
  <2> QED
    BY <1>7, <2>1, <2>2, <2>4
<1>10. CASE ServerEvent
  <2>1. wire' = Append(wire, Packet("event", 0, 0)) /\ served' = served
    BY <1>10 DEF ServerEvent, Write
  <2>2. Packet("event", 0, 0) \in Packets /\ Packet("event", 0, 0).type \notin ReplyTypes
    BY Bounds DEF Packet, Packets, PacketTypes, ReplyTypes
  <2> QED
    BY <1>4, <1>7, <2>1, <2>2
<1>11. CASE ServerClose
  <2>1. UNCHANGED <<wire, served>>
    BY <1>11 DEF ServerClose
  <2> QED
    BY <1>2, <1>3, <2>1, ElapsedKept
<1>12. ~ServerStray
  BY ConnectionAssumption DEF ServerStray, Calm, TypeInv, TypeOK
<1> QED
  BY <1>8, <1>9, <1>10, <1>11, <1>12 DEF Server

(* The initializing connection processes a packet, or gives up on it.      *)
LEMMA ElapsedPacket ==
  ASSUME TypeInv, CalmInv, ElapsedInv, NEW h \in Slots, Activation(h), state = "initializing",
         state' # "connected"
  PROVE  ElapsedInv'
<1> USE DEF CalmInv, OrderInv
<1> DEFINE n == activation[h].next
<1>1. CASE RecvGreeting(h) \/ RecvUnexpected(h)
  <2>1. Receiving(h) /\ PacketDone(h) /\ TraceRecv(h) /\ UNCHANGED <<wire, served, sendIndex>>
        /\ state' = state
    BY <1>1 DEF RecvGreeting, RecvUnexpected, serverVars
  <2>2. /\ n \in 1..Len(wire) /\ CurrentPacket(h) = wire[n]
        /\ \A i \in Nat : Processed(i) <=> i < n
        /\ \A i \in Nat : Processed(i)' <=> i <= n
    BY <2>1, PacketTaken
  <2>3. Unprocessed(h) /\ Len(wire) \in Nat /\ timestamps \in Nat /\ sendIndex \in Nat /\ served \in Nat
    BY <2>1, Numbers DEF Receiving
  <2>4. CASE ~IsReply(n)
    <3>1. timestamps' = timestamps
      BY <2>1, <2>2, <2>4 DEF TraceRecv, IsReply
    <3>2. ASSUME NEW i \in 1..Len(wire), IsReply(i) PROVE Processed(i)' <=> Processed(i)
      <4>1. i # n /\ i \in Nat /\ n \in Nat
        BY <2>2, <2>3, <2>4, <3>2
      <4> QED
        BY <2>2, <4>1
    <3> QED
      BY <2>1, <3>1, <3>2, ElapsedKept
  <2>5. CASE IsReply(n)
    <3> DEFINE d == sendIndex - timestamps
    <3>1. wire[n].re = d + 1 /\ timestamps > 0 /\ d + 1 <= served
      BY <2>3, <2>5, FrontierElapsed
    <3>2. timestamps' = timestamps - 1 /\ sendIndex' = sendIndex
      BY <2>1, <2>2, <2>5, <3>1 DEF TraceRecv, IsReply
    <3>3. d' = d + 1 /\ d \in Int
      BY <2>3, <3>2
    <3> HIDE DEF d, n
    <3>4. ASSUME NEW i \in 1..Len(wire), IsReply(i) PROVE Processed(i)' <=> wire[i].re <= d + 1
      <4>1. wire[i].re \in Nat /\ i \in Nat /\ n \in Nat
        BY <2>2, <2>3, PacketAt
      <4>2. CASE i < n
        <5>1. Processed(i) /\ Processed(i)'
          BY <2>2, <4>1, <4>2
        <5>2. wire[i].re <= d
          BY <3>4, <5>1 DEF ElapsedInv, d
        <5> QED
          BY <3>3, <4>1, <5>1, <5>2
      <4>3. CASE i = n
        BY <2>2, <3>1, <3>3, <4>1, <4>3
      <4>4. CASE i > n
        <5>1. wire[n].re < wire[i].re
          BY <2>2, <2>5, <3>4, <4>4 DEF WireInv, AnswersInOrder
        <5>2. ~Processed(i)'
          BY <2>2, <4>1, <4>4
        <5> QED
          BY <3>1, <3>3, <4>1, <5>1, <5>2
      <4> QED
        BY <4>1, <4>2, <4>3, <4>4
    <3>5. \A i \in 1..Len(wire') : IsReply(i)' => (Processed(i)' <=> wire'[i].re <= d')
      BY <2>1, <3>3, <3>4 DEF IsReply
    <3>6. d' <= served'
      BY <2>1, <3>1, <3>3
    <3> QED
      BY <2>1, <3>5, <3>6 DEF ElapsedInv, d
  <2> QED
    BY <2>4, <2>5
<1>2. CASE RecvReply(h) \/ RecvEvent(h) \/ EventDone(h)
  BY <1>2 DEF RecvReply, RecvEvent, EventDone, PairingInv
<1>3. CASE Abort(h) /\ Unprocessed(h)
  <2>1. Running(h) /\ ~Receiving(h)
    BY <1>3 DEF Abort, RecvThrows, PairingInv
  <2>2. n \in 1..Len(wire)
    BY <1>3, Frontier
  <2>3. wire[n].type = "response" /\ timestamps = 0
    BY <1>3, <2>1, <2>2 DEF Receiving, CurrentPacket, WireInv, WellFormed
  <2>4. timestamps > 0
    BY <1>3, <2>3, FrontierElapsed DEF IsReply, ReplyTypes
  <2> QED
    BY <2>3, <2>4
<1>4. CASE ChunkDone(h) \/ (Abort(h) /\ ~Unprocessed(h))
  <2>1. UNCHANGED <<state, sendIndex, timestamps, wire, served, delivered>>
    BY <1>4 DEF ChunkDone, Abort, clientVars, serverVars
  <2>2. \A i \in Nat : Processed(i)' <=> Processed(i)
    BY <1>4, <2>1, FrontierStays DEF SameFrontier
  <2>3. \A i \in 1..Len(wire) : i \in Nat
    BY Numbers
  <2> QED
    BY <2>1, <2>2, <2>3, ElapsedKept
<1> QED
  BY <1>1, <1>2, <1>3, <1>4 DEF Activation

(* The link is done: no activation has packets to look at.                 *)
LEMMA ElapsedDone ==
  ASSUME TypeInv, QueueInv, ElapsedInv, Next, state = "disconnected"
  PROVE  ElapsedInv'
<1>0. activation \in [Slots -> Activations] /\ stream # "open" /\ promises = <<>>
  BY DEF TypeInv, TypeOK, ElapsedInv, QueueInv
<1>a. \A h \in Slots : Unprocessed(h) => Awaiting(h) /\ outcome[activation[h].await] # "resolved"
  BY DEF ElapsedInv
<1>b. \A h \in Slots : Unprocessed(h) => activation[h].await \in Ids
  BY <1>0, <1>a, Bounds DEF Awaiting, Activations, Ids
<1>c. ASSUME state' = state, stream' # "open",
             \A g \in Slots : Unprocessed(g)' => activation'[g] = activation[g],
             \A id \in Ids : outcome'[id] = "resolved" => outcome[id] = "resolved"
      PROVE  ElapsedInv'
  <2>1. ASSUME NEW g \in Slots, Unprocessed(g)'
        PROVE  Awaiting(g)' /\ outcome'[activation'[g].await] # "resolved"
    <3>1. activation'[g] = activation[g] /\ Unprocessed(g)
      BY <1>c, <2>1 DEF Unprocessed
    <3> QED
      BY <1>a, <1>b, <1>c, <3>1 DEF Awaiting
  <2> QED
    BY <1>c, <2>1 DEF ElapsedInv
<1>1. CASE Perform
  <2>1. Send /\ UNCHANGED <<state, stream, activation>>
    BY <1>1 DEF Perform, linkVars
  <2>2. outcome' = [outcome EXCEPT ![sendIndex + 1] = "rejected"] /\ outcome \in [Ids -> Outcomes]
    BY <2>1, QueueTypes DEF Send
  <2>3. \A id \in Ids : outcome'[id] = "resolved" => outcome[id] = "resolved"
    BY <2>2
  <2> QED
    BY <1>0, <1>c, <2>1, <2>3
<1>2. CASE Dispose \/ PushPromise \/ Server
  <2>1. UNCHANGED <<state, outcome, activation>> /\ stream' # "open"
    BY <1>0, <1>2 DEF Dispose, PushPromise, Server, ServerGreet, ServerAnswer, ServerEvent,
         ServerStray, ServerClose, clientVars, linkVars
  <2> QED
    BY <1>c, <2>1
<1>3. ASSUME NEW h \in Slots, Activation(h) PROVE ElapsedInv'
  <2>1. ~Receiving(h)
    BY <1>a DEF Receiving, Running, Awaiting
  <2>2. EventDone(h) \/ Abort(h) \/ ChunkDone(h)
    BY <1>3, <2>1 DEF Activation, RecvGreeting, RecvReply, RecvUnexpected, RecvEvent
  <2>3. UNCHANGED <<state, outcome, stream>>
    BY <2>2 DEF EventDone, Abort, ChunkDone, clientVars
  <2>4. CASE EventDone(h)
    <3>1. ~Unprocessed(h) /\ activation' = [activation EXCEPT ![h] = Busy(@.next, @.last, 0)]
          /\ activation[h].busy
      BY <1>a, <2>4 DEF EventDone, Awaiting
    <3>2. ~Unprocessed(h)' /\ \A g \in Slots : g # h => activation'[g] = activation[g]
      BY <1>0, <3>1 DEF Unprocessed, Busy
    <3> QED
      BY <1>0, <1>c, <2>3, <3>2
  <2>5. CASE Abort(h) \/ ChunkDone(h)
    <3>1. activation' = [activation EXCEPT ![h] = Idle]
      BY <2>5 DEF Abort, ChunkDone
    <3>2. ~Unprocessed(h)' /\ \A g \in Slots : g # h => activation'[g] = activation[g]
      BY <1>0, <3>1 DEF Unprocessed, Idle
    <3> QED
      BY <1>0, <1>c, <2>3, <3>2
  <2> QED
    BY <2>2, <2>4, <2>5
<1>4. ~OnStreamData /\ ~OnStreamEnd
  BY <1>0 DEF OnStreamData, OnStreamEnd
<1> QED
  BY <1>1, <1>2, <1>3, <1>4 DEF Next

(* When the link ends every activation that has packets left waits.        *)
LEMMA ElapsedEnd ==
  ASSUME TypeInv, OnStreamEnd
  PROVE  ElapsedInv'
<1>1. \A h \in Slots : Unprocessed(h) => Awaiting(h) /\ outcome[activation[h].await] = "none"
  BY DEF OnStreamEnd, Quiescent, Runnable, Running, Awaiting, Unprocessed, Settled
<1>2. \A h \in Slots : Unprocessed(h) => activation[h].await \in Ids
  BY <1>1, Bounds DEF Awaiting, TypeInv, TypeOK, Activations, Ids
<1>3. /\ state' = "disconnected" /\ stream' = "ended" /\ UNCHANGED activation
      /\ \A id \in Ids : outcome'[id] = "rejected" \/ outcome'[id] = outcome[id]
  BY DEF OnStreamEnd, RejectPromises
<1>4. ASSUME NEW g \in Slots, Unprocessed(g)'
      PROVE  Awaiting(g)' /\ outcome'[activation'[g].await] # "resolved"
  BY <1>1, <1>2, <1>3, <1>4 DEF Unprocessed, Awaiting
<1> QED
  BY <1>3, <1>4 DEF ElapsedInv

LEMMA ElapsedStep ==
  ASSUME TypeInv, QueueInv, CalmInv, ElapsedInv, Next, Calm, Calm'
  PROVE  ElapsedInv'
<1>1. CASE OnStreamEnd
  BY <1>1, ElapsedEnd
<1>2. CASE state = "disconnected"
  BY <1>2, ElapsedDone
<1>3. CASE ~OnStreamEnd /\ state = "connected"
  <2>1. state' = state
    BY <1>3 DEF Next, Perform, PushPromise, Dispose, OnStreamData, Activation, RecvGreeting,
         RecvReply, RecvUnexpected, RecvEvent, EventDone, Abort, ChunkDone, Server, ServerGreet,
         ServerAnswer, ServerEvent, ServerStray, ServerClose, clientVars
  <2> QED
    BY <1>3, <2>1 DEF ElapsedInv
<1>4. CASE ~OnStreamEnd /\ state = "initializing"
  <2>0. /\ timestamps \in Nat /\ sendIndex \in Nat /\ Len(wire) \in Nat
        /\ \A i \in 1..Len(wire) : i \in Nat
    BY Numbers
  <2>a. ASSUME UNCHANGED <<state, wire, served>>, \A i \in Nat : Processed(i)' <=> Processed(i),
               sendIndex' - timestamps' = sendIndex - timestamps
        PROVE  ElapsedInv'
    BY <1>4, <2>0, <2>a, ElapsedKept
  <2>1. CASE Perform
    <3>1. UNCHANGED <<state, wire, served, activation, delivered>>
          /\ sendIndex' = sendIndex + 1 /\ timestamps' = timestamps + 1
      BY <2>1 DEF Perform, Send, linkVars, serverVars
    <3>2. \A i \in Nat : Processed(i)' <=> Processed(i)
      BY <3>1, FrontierStays DEF SameFrontier
    <3>3. sendIndex' - timestamps' = sendIndex - timestamps
      BY <2>0, <3>1
    <3> QED
      BY <2>a, <3>1, <3>2, <3>3
  <2>2. CASE PushPromise \/ Dispose
    <3>1. UNCHANGED <<state, wire, served, activation, delivered, sendIndex, timestamps>>
      BY <2>2 DEF PushPromise, Dispose, clientVars, linkVars, serverVars
    <3>2. \A i \in Nat : Processed(i)' <=> Processed(i)
      BY <3>1, FrontierStays DEF SameFrontier
    <3> QED
      BY <2>a, <3>1, <3>2
  <2>3. CASE OnStreamData
    <3>1. UNCHANGED <<state, wire, served, sendIndex, timestamps>>
      BY <2>3 DEF OnStreamData, clientVars, serverVars
    <3>2. \A i \in Nat : Processed(i)' <=> Processed(i)
      BY <2>3, ChunkDelivered DEF Calm
    <3> QED
      BY <2>a, <3>1, <3>2
  <2>4. ASSUME NEW h \in Slots, Activation(h) PROVE ElapsedInv'
    <3>1. CASE state' = "connected"
      BY <3>1 DEF ElapsedInv
    <3> QED
      BY <1>4, <2>4, <3>1, ElapsedPacket
  <2>5. CASE Server
    BY <1>4, <2>5, ElapsedServer DEF CalmInv
  <2> QED
    BY <1>4, <2>1, <2>2, <2>3, <2>4, <2>5 DEF Next
<1> QED
  BY <1>1, <1>2, <1>3, <1>4 DEF TypeInv, TypeOK

(* A reply is at the frontier of a connection that is not done, and its    *)
(* command is the one the list of timestamps starts with.                  *)
LEMMA ElapsedMatches ==
  ASSUME TypeInv, QueueInv, CalmInv, ElapsedInv, NEW h \in Slots, Running(h), Unprocessed(h),
         CurrentPacket(h).type \in ReplyTypes
  PROVE  CurrentPacket(h).re = sendIndex - timestamps + 1
<1>1. IsReply(activation[h].next)
  BY DEF IsReply, CurrentPacket
<1>2. CASE state = "connected"
  <2>1. wire[activation[h].next].re = Base + 1
    BY <1>1, <1>2, NextReply
  <2>2. timestamps = sendIndex - Base
    BY <1>2 DEF CalmInv, PairingInv
  <2>3. Base + 1 = sendIndex - timestamps + 1
    <3>1. Base \in Int /\ sendIndex \in Nat
      BY Numbers
    <3> QED
      BY <2>2, <3>1
  <2> QED
    BY <2>1, <2>3 DEF CurrentPacket
<1>3. CASE state = "initializing"
  BY <1>1, <1>3, FrontierElapsed DEF CalmInv, OrderInv, CurrentPacket
<1>4. CASE state = "disconnected"
  BY <1>4 DEF ElapsedInv, Running, Awaiting
<1> QED
  BY <1>2, <1>3, <1>4 DEF TypeInv, TypeOK

(* As long as the server keeps to the protocol and no chunk overtakes an   *)
(* earlier one, traceRecv() takes the time of the reply's own command off  *)
(* the list, in every state of the connection.                             *)
THEOREM ElapsedMeasured == Spec => []ElapsedIsOwn
<1> DEFINE Inv == PairInv /\ (Calm => ElapsedInv)
<1>1. Init => Inv
  BY PairInit, ElapsedInit
<1>2. Inv /\ [Next]_vars => Inv'
  <2> SUFFICES ASSUME Inv, [Next]_vars PROVE Inv'
    OBVIOUS
  <2>1. PairInv'
    BY PairInvStep
  <2>2. CASE Next
    <3> SUFFICES ASSUME Calm' PROVE ElapsedInv'
      BY <2>1
    <3>1. Calm
      BY <2>2, CalmBackwards DEF PairInv
    <3> QED
      BY <2>2, <3>1, ElapsedStep DEF PairInv
  <2>3. CASE UNCHANGED vars
    BY <2>1, <2>3 DEF vars, clientVars, linkVars, serverVars, Calm, ElapsedInv, IsReply, Processed,
         Unprocessed, Awaiting
  <2> QED
    BY <2>2, <2>3
<1>3. Inv => ElapsedIsOwn
  BY ElapsedMatches DEF PairInv, ElapsedIsOwn
<1> QED
  BY <1>1, <1>2, <1>3, PTL DEF Spec

-----------------------------------------------------------------------------
(***************************************************************************)
(* Proof that the link, the connection and the session's event callback    *)
(* implement CommandQueue as long as the server keeps to the protocol and  *)
(* no chunk overtakes an earlier one.                                      *)
(***************************************************************************)

(* The values the mapping gives to the variables of CommandQueue.          *)
waiting == promises \o unpushed

answers == [id \in Ids |-> AnswerOf(id)]

-----------------------------------------------------------------------------
(* Two consecutive runs of commands are one run.                           *)
LEMMA RunsJoin ==
  ASSUME NEW s \in Seq(Ids), NEW t \in Seq(Ids), NEW b \in Int,
         \A k \in 1..Len(s) : s[k] = b + k,
         \A k \in 1..Len(t) : t[k] = b + Len(s) + k
  PROVE  /\ s \o t \in Seq(Ids) /\ Len(s \o t) = Len(s) + Len(t)
         /\ \A k \in 1..Len(s \o t) : (s \o t)[k] = b + k
<1>0. Len(s) \in Nat /\ Len(t) \in Nat
  OBVIOUS
<1>1. /\ s \o t \in Seq(Ids)
      /\ Len(s \o t) = Len(s) + Len(t)
      /\ \A i \in 1..Len(s) + Len(t) : (s \o t)[i] = IF i <= Len(s) THEN s[i] ELSE t[i - Len(s)]
  BY ConcatProperties
<1>2. ASSUME NEW k \in 1..Len(s) + Len(t) PROVE (s \o t)[k] = b + k
  <2>1. CASE k <= Len(s)
    BY <1>0, <1>1, <2>1
  <2>2. CASE k > Len(s)
    <3>1. k - Len(s) \in 1..Len(t) /\ b + Len(s) + (k - Len(s)) = b + k
      BY <1>0, <2>2
    <3> QED
      BY <1>0, <1>1, <2>2, <3>1
  <2> QED
    BY <1>0, <2>1, <2>2
<1> QED
  BY <1>1, <1>2

(* The commands that wait are the newest ones, in the order of sending.    *)
WaitingInv ==
    /\ waiting \in Seq(Ids) /\ Len(waiting) = sendIndex - Base /\ Len(waiting) \in Nat
    /\ Base + Len(promises) + Len(unpushed) = sendIndex
    /\ \A k \in 1..Len(waiting) : waiting[k] = Base + k

LEMMA WaitingNow ==
  ASSUME TypeInv, QueueInv PROVE WaitingInv
<1>1. /\ promises \in Seq(Ids) /\ unpushed \in Seq(Ids) /\ Base \in Int /\ sendIndex \in Nat
      /\ Len(promises) \in Nat /\ Len(unpushed) \in Nat
  BY QueueTypes
<1>2. Base + Len(promises) + Len(unpushed) = sendIndex
  BY <1>1 DEF Base
<1>3. /\ \A k \in 1..Len(promises) : promises[k] = Base + k
      /\ \A k \in 1..Len(unpushed) : unpushed[k] = Base + Len(promises) + k
  BY DEF QueueInv
<1>4. /\ waiting \in Seq(Ids) /\ Len(waiting) = Len(promises) + Len(unpushed)
      /\ \A k \in 1..Len(waiting) : waiting[k] = Base + k
  BY <1>1, <1>3, RunsJoin DEF waiting
<1>5. Len(waiting) = sendIndex - Base /\ Len(waiting) \in Nat
  BY <1>1, <1>2, <1>4
<1> QED
  BY <1>2, <1>4, <1>5 DEF WaitingInv

LEMMA WaitingNext == TypeInv' /\ QueueInv' => WaitingInv'
<1>1. TypeInv /\ QueueInv => WaitingInv
  BY WaitingNow
<1> QED
  BY <1>1, PTL

(* Two runs of consecutive commands are equal when their ends are.         *)
LEMMA SameRun ==
  ASSUME NEW s \in Seq(Ids), NEW t \in Seq(Ids), NEW b \in Int, Len(s) = Len(t),
         \A k \in 1..Len(s) : s[k] = b + k,
         \A k \in 1..Len(t) : t[k] = b + k
  PROVE  s = t
  BY SeqEqual

(* The queue starts empty and unanswered.                                  *)
LEMMA RefinesInit == Init => Queue!Init
<1> SUFFICES ASSUME Init PROVE Queue!Init
  OBVIOUS
<1>1. promises \o unpushed = <<>>
  BY DEF Init
<1>2. ASSUME NEW id \in Ids PROVE AnswerOf(id) = "none"
  BY DEF Init, AnswerOf
<1>3. [id \in Ids |-> AnswerOf(id)] = [id \in Ids |-> "none"]
  BY <1>2
<1> QED
  BY <1>1, <1>3 DEF Init, Queue!Init

-----------------------------------------------------------------------------
(* The answers on the wire.                                                *)
(* A command has an answer once the server has served it.                  *)
LEMMA AnsweredIsServed ==
  ASSUME TypeInv, WireInv, NEW id \in Ids
  PROVE  AnswerOf(id) # "none" <=> id <= served
<1>0. served \in Nat /\ id \in Nat /\ id >= 1
  BY Numbers DEF Ids
<1>1. ASSUME AnswerOf(id) # "none" PROVE id <= served
  <2>1. PICK i \in 1..Len(wire) : wire[i].re = id /\ wire[i].type \in ReplyTypes
    BY <1>1 DEF AnswerOf, ReplyTypes
  <2> QED
    BY <2>1 DEF WireInv, AnswersServed, IsReply
<1>2. ASSUME id <= served PROVE AnswerOf(id) # "none"
  <2>1. id \in 1..served
    BY <1>0, <1>2
  <2>2. PICK i \in 1..Len(wire) : IsReply(i) /\ wire[i].re = id
    BY <2>1 DEF WireInv, AnswersComplete
  <2> QED
    BY <2>2 DEF AnswerOf, IsReply, ReplyTypes
<1> QED
  BY <1>1, <1>2

(* The reply to a command is its only answer.                              *)
LEMMA AnswerIsReply ==
  ASSUME TypeInv, WireInv, NEW i \in 1..Len(wire), IsReply(i)
  PROVE  AnswerOf(wire[i].re) = IF wire[i].type = "response" THEN "resolved" ELSE "failed"
<1>1. ASSUME NEW j \in 1..Len(wire), wire[j].re = wire[i].re, IsReply(j) PROVE j = i
  <2>1. ~(i < j) /\ ~(j < i)
    BY <1>1, PacketAt DEF WireInv, AnswersInOrder
  <2> QED
    BY <2>1, Numbers
<1>2. CASE wire[i].type = "response"
  BY <1>2 DEF AnswerOf
<1>3. CASE wire[i].type = "error"
  <2>1. ASSUME NEW j \in 1..Len(wire), wire[j].re = wire[i].re, wire[j].type = "response"
        PROVE  FALSE
    BY <1>1, <1>3, <2>1 DEF IsReply, ReplyTypes
  <2> QED
    BY <1>3, <2>1 DEF AnswerOf
<1> QED
  BY <1>2, <1>3 DEF IsReply, ReplyTypes

(* A packet that is no reply leaves the answers as they are.               *)
LEMMA AnswersKept ==
  ASSUME TypeInv, NEW p \in Packets, wire' = Append(wire, p), p.type \notin ReplyTypes
  PROVE  answers' = answers
<1>1. /\ Len(wire) \in Nat /\ Len(wire') = Len(wire) + 1
      /\ \A i \in 1..Len(wire) : wire'[i] = wire[i]
      /\ wire'[Len(wire) + 1] = p
  BY Written
<1>2. ASSUME NEW id, NEW type \in ReplyTypes
      PROVE  (\E i \in 1..Len(wire') : wire'[i].re = id /\ wire'[i].type = type)
               <=> (\E i \in 1..Len(wire) : wire[i].re = id /\ wire[i].type = type)
  <2>1. ASSUME NEW i \in 1..Len(wire'), wire'[i].re = id, wire'[i].type = type
        PROVE  i \in 1..Len(wire) /\ wire[i].re = id /\ wire[i].type = type
    <3>1. i # Len(wire) + 1
      BY <1>1, <2>1
    <3> QED
      BY <1>1, <2>1, <3>1
  <2>2. ASSUME NEW i \in 1..Len(wire), wire[i].re = id, wire[i].type = type
        PROVE  i \in 1..Len(wire') /\ wire'[i].re = id /\ wire'[i].type = type
    BY <1>1, <2>2
  <2> QED
    BY <2>1, <2>2
<1>3. "response" \in ReplyTypes /\ "error" \in ReplyTypes
  BY DEF ReplyTypes
<1>4. ASSUME NEW id \in Ids PROVE AnswerOf(id)' = AnswerOf(id)
  <2>1. (\E i \in 1..Len(wire') : wire'[i].re = id /\ wire'[i].type = "response")
          <=> (\E i \in 1..Len(wire) : wire[i].re = id /\ wire[i].type = "response")
    BY <1>2, <1>3
  <2>2. (\E i \in 1..Len(wire') : wire'[i].re = id /\ wire'[i].type = "error")
          <=> (\E i \in 1..Len(wire) : wire[i].re = id /\ wire[i].type = "error")
    BY <1>2, <1>3
  <2> QED
    BY <2>1, <2>2, Zenon DEF AnswerOf
<1> QED
  BY <1>4 DEF answers

(* The server's next reply answers the oldest command without an answer.   *)
LEMMA RefinesAnswer ==
  ASSUME TypeInv, TypeInv', WireInv, WireInv', ServerAnswer
  PROVE  Queue!Answer
<1>1. PICK type \in ReplyTypes : wire' = Append(wire, Packet(type, served + 1, 0))
  BY DEF ServerAnswer, Write
<1>2. served' = served + 1 /\ UNCHANGED <<sendIndex, promises, unpushed, outcome, state>>
  BY DEF ServerAnswer, clientVars
<1>3. /\ served \in Nat /\ sent \in Nat /\ sendIndex \in Nat /\ MaxId \in Nat
      /\ served < sent /\ sent <= sendIndex /\ sendIndex <= MaxId
  BY Numbers DEF ServerAnswer
<1> DEFINE p == Packet(type, served + 1, 0)
           a == IF type = "response" THEN "resolved" ELSE "failed"
<1>4. served + 1 \in 1..sendIndex /\ served + 1 \in Ids /\ served + 1 \in 0..MaxId
  BY <1>3 DEF Ids
<1>5. p \in Packets /\ p.re = served + 1 /\ p.type = type
  BY <1>4 DEF Packet, Packets, PacketTypes, ReplyTypes
<1>6. /\ Len(wire) \in Nat /\ Len(wire') = Len(wire) + 1
      /\ \A i \in 1..Len(wire) : wire'[i] = wire[i]
      /\ wire'[Len(wire) + 1] = p
  BY <1>1, <1>5, Written
<1> HIDE DEF p
<1>7. AnswerOf(served + 1) = "none"
  BY <1>3, <1>4, AnsweredIsServed
<1>8. \A older \in 1..served : AnswerOf(older) # "none"
  BY <1>3, AnsweredIsServed DEF Ids
<1>9. ASSUME NEW id \in Ids, id # served + 1 PROVE AnswerOf(id)' = AnswerOf(id)
  <2>1. \A i \in 1..Len(wire') : i \in 1..Len(wire) \/ wire'[i].re # id
    BY <1>5, <1>6, <1>9
  <2>2. \A i \in 1..Len(wire) : i \in 1..Len(wire')
    BY <1>6
  <2>3. (\E i \in 1..Len(wire') : wire'[i].re = id /\ wire'[i].type = "response")
          <=> (\E i \in 1..Len(wire) : wire[i].re = id /\ wire[i].type = "response")
    BY <1>6, <2>1, <2>2
  <2>4. (\E i \in 1..Len(wire') : wire'[i].re = id /\ wire'[i].type = "error")
          <=> (\E i \in 1..Len(wire) : wire[i].re = id /\ wire[i].type = "error")
    BY <1>6, <2>1, <2>2
  <2> QED
    BY <2>3, <2>4, Zenon DEF AnswerOf
<1>10. \A id \in Ids : id = served + 1 => AnswerOf(id)' = a
  <2> SUFFICES ASSUME NEW id \in Ids, id = served + 1 PROVE AnswerOf(id)' = a
    OBVIOUS
  <2>1. ASSUME NEW i \in 1..Len(wire'), wire'[i].re = id, wire'[i].type \in ReplyTypes
        PROVE  i = Len(wire) + 1
    <3>1. ASSUME i \in 1..Len(wire) PROVE FALSE
      <4>1. IsReply(i) /\ wire[i].re = served + 1
        BY <1>6, <2>1, <3>1 DEF IsReply
      <4> QED
        BY <1>3, <3>1, <4>1 DEF WireInv, AnswersServed
    <3> QED
      BY <1>6, <3>1
  <2>2. PICK n \in 1..Len(wire') : n = Len(wire) + 1
    BY <1>6
  <2>3. wire'[n].re = id /\ wire'[n].type = type
    BY <1>5, <1>6, <2>2
  <2>4. CASE type = "response"
    BY <2>3, <2>4 DEF AnswerOf
  <2>5. CASE type = "error"
    <3>1. ~\E i \in 1..Len(wire') : wire'[i].re = id /\ wire'[i].type = "response"
      BY <2>1, <2>2, <2>3, <2>5 DEF ReplyTypes
    <3> QED
      BY <2>3, <2>5, <3>1 DEF AnswerOf
  <2> QED
    BY <2>4, <2>5 DEF ReplyTypes
<1>11. answers' = [answers EXCEPT ![served + 1] = a]
  BY <1>9, <1>10 DEF answers
<1>12. a \in {"resolved", "failed"} /\ (served + 1) - 1 = served
  BY <1>3
<1> QED
  <2> HIDE DEF a
  <2>1. answers[served + 1] = "none" /\ \A older \in 1..((served + 1) - 1) : answers[older] # "none"
    <3>1. \A older \in 1..served : older \in Ids
      BY <1>3 DEF Ids
    <3> QED
      BY <1>4, <1>7, <1>8, <1>12, <3>1 DEF answers
  <2>2. UNCHANGED <<sendIndex, waiting, outcome, state = "disconnected">>
    BY <1>2 DEF waiting
  <2> QED
    BY <1>4, <1>11, <1>12, <2>1, <2>2 DEF Queue!Answer, Queue!Answers, answers, waiting

-----------------------------------------------------------------------------
(* perform() is a call: it joins the queue, or is rejected when closed.    *)
LEMMA RefinesCall ==
  ASSUME TypeInv, TypeInv', QueueInv, QueueInv', Send, sendIndex < MaxId,
         UNCHANGED <<state, promises, wire>>
  PROVE  Queue!Call
<1>1. sendIndex + 1 \in Ids /\ sendIndex' = sendIndex + 1
  BY SendType DEF TypeInv
<1>2. answers' = answers /\ UNCHANGED (state = "disconnected")
  BY DEF answers, AnswerOf
<1>3. CASE state = "disconnected"
  <2>1. outcome' = [outcome EXCEPT ![sendIndex + 1] = "rejected"] /\ waiting' = waiting
    BY <1>3 DEF Send, waiting
  <2> QED
    BY <1>1, <1>2, <1>3, <2>1 DEF Queue!Call, answers, waiting
<1>4. CASE state # "disconnected"
  <2>1. outcome' = outcome /\ unpushed' = Append(unpushed, sendIndex + 1)
    BY <1>4 DEF Send
  <2>2. promises \o Append(unpushed, sendIndex + 1) = Append(promises \o unpushed, sendIndex + 1)
    <3>1. promises \in Seq(Ids) /\ unpushed \in Seq(Ids)
      BY QueueTypes
    <3>2. Append(unpushed, sendIndex + 1) = unpushed \o <<sendIndex + 1>>
      BY <1>1, <3>1, AppendIsConcat
    <3>3. Append(promises \o unpushed, sendIndex + 1) = (promises \o unpushed) \o <<sendIndex + 1>>
      BY <1>1, <3>1, AppendIsConcat, ConcatProperties
    <3>4. <<sendIndex + 1>> \in Seq(Ids)
      BY <1>1
    <3> QED
      BY <3>1, <3>2, <3>3, <3>4, ConcatAssociative
  <2>3. waiting' = Append(waiting, sendIndex + 1)
    BY <2>1, <2>2 DEF waiting
  <2> QED
    BY <1>1, <1>2, <1>4, <2>1, <2>3 DEF Queue!Call, answers, waiting
<1> QED
  BY <1>3, <1>4

(* The continuation of perform() moves a promise within the queue.         *)
LEMMA RefinesPush ==
  ASSUME TypeInv, TypeInv', QueueInv, QueueInv', PushPromise
  PROVE  UNCHANGED Queue!queueVars
<1>1. UNCHANGED <<sendIndex, outcome, state, wire>>
  BY DEF PushPromise, serverVars
<1>2. promises' = Append(promises, Head(unpushed)) /\ unpushed' = Tail(unpushed) /\ unpushed # <<>>
  BY DEF PushPromise
<1>3. Base' = Base
  <2>1. Len(promises') = Len(promises) + 1 /\ Len(unpushed') = Len(unpushed) - 1
    BY <1>2, QueueTypes
  <2>2. sendIndex' = sendIndex
    BY <1>1
  <2>3. Len(promises) \in Nat /\ Len(unpushed) \in Nat /\ sendIndex \in Nat
    BY QueueTypes
  <2> QED
    BY <2>1, <2>2, <2>3 DEF Base
<1>4. /\ waiting \in Seq(Ids) /\ Len(waiting) = sendIndex - Base /\ Base \in Int
      /\ \A k \in 1..Len(waiting) : waiting[k] = Base + k
  BY WaitingNow, QueueTypes DEF WaitingInv
<1>5. /\ waiting' \in Seq(Ids) /\ Len(waiting') = sendIndex - Base
      /\ \A k \in 1..Len(waiting') : waiting'[k] = Base + k
  BY <1>1, <1>3, WaitingNext DEF WaitingInv
<1>6. waiting' = waiting
  BY <1>4, <1>5, SameRun
<1> QED
  BY <1>1, <1>6 DEF Queue!queueVars, waiting, AnswerOf

(* A reply settles the oldest call with the server's answer to it.         *)
LEMMA RefinesSettle ==
  ASSUME TypeInv, TypeInv', QueueInv, QueueInv', CalmInv, NEW h \in Slots, RecvReply(h)
  PROVE  Queue!Settle
<1> DEFINE n == activation[h].next
<1>1. /\ state = "connected" /\ UNCHANGED <<state, sendIndex, unpushed, wire>>
      /\ promises # <<>> /\ promises' = Tail(promises)
      /\ Unprocessed(h) /\ CurrentPacket(h).type \in ReplyTypes
      /\ outcome' = [outcome EXCEPT ![Head(promises)] =
            IF CurrentPacket(h).type = "response" THEN "resolved" ELSE "failed"]
  BY DEF RecvReply, Receiving, serverVars
<1>2. n \in 1..Len(wire) /\ IsReply(n) /\ CurrentPacket(h) = wire[n]
  BY <1>1, Frontier DEF CalmInv, OrderInv, IsReply, CurrentPacket
<1>3. wire[n].re = Base + 1
  BY <1>1, <1>2, NextReply
<1>4. Base' = Base + 1 /\ Head(promises) = Base + 1
  BY ReplyQueue
<1>5. Base + 1 \in Ids
  <2>1. Head(promises) \in Ids
    BY <1>1, QueueTypes
  <2> QED
    BY <1>4, <2>1
<1>6. AnswerOf(Base + 1) = IF wire[n].type = "response" THEN "resolved" ELSE "failed"
  BY <1>2, <1>3, AnswerIsReply DEF CalmInv
<1> HIDE DEF n
<1>7. answers[Base + 1] = AnswerOf(Base + 1) /\ answers[Base + 1] # "none"
  BY <1>5, <1>6 DEF answers
<1>8. /\ waiting \in Seq(Ids) /\ Len(waiting) = sendIndex - Base /\ Len(waiting) \in Nat
      /\ Base + Len(promises) + Len(unpushed) = sendIndex
      /\ \A k \in 1..Len(waiting) : waiting[k] = Base + k
  BY WaitingNow DEF WaitingInv
<1>9. /\ waiting' \in Seq(Ids) /\ Len(waiting') = sendIndex - (Base + 1)
      /\ \A k \in 1..Len(waiting') : waiting'[k] = (Base + 1) + k
  BY <1>1, <1>4, WaitingNext DEF WaitingInv
<1>10. Base \in Int /\ sendIndex \in Int /\ Len(promises) \in Nat /\ Len(unpushed) \in Nat
  BY QueueTypes
<1>11. Len(promises) >= 1
  BY <1>1, QueueTypes
<1>12. Len(waiting) >= 1
  BY <1>8, <1>10, <1>11
<1>13. waiting # <<>> /\ Head(waiting) = Base + 1
  BY <1>8, <1>12
<1>14. Tail(waiting) = waiting'
  <2>1. /\ Tail(waiting) \in Seq(Ids) /\ Len(Tail(waiting)) = Len(waiting) - 1
        /\ \A k \in 1..Len(Tail(waiting)) : Tail(waiting)[k] = waiting[k + 1]
    BY <1>8, <1>13, HeadTailProperties
  <2>2. Len(Tail(waiting)) = Len(waiting')
    BY <1>8, <1>9, <1>10, <2>1
  <2>3. ASSUME NEW k \in 1..Len(Tail(waiting)) PROVE Tail(waiting)[k] = (Base + 1) + k
    <3>1. k + 1 \in 1..Len(waiting) /\ k \in Int
      BY <1>8, <2>1
    <3>2. waiting[k + 1] = Base + (k + 1)
      BY <1>8, <3>1
    <3> QED
      BY <1>10, <2>1, <3>1, <3>2
  <2>4. Base + 1 \in Int
    BY <1>10
  <2> QED
    BY <1>9, <2>1, <2>2, <2>3, <2>4, SameRun
<1>15. outcome' = [outcome EXCEPT ![Head(waiting)] = answers[Head(waiting)]]
  BY <1>1, <1>2, <1>4, <1>6, <1>7, <1>13
<1>16. answers' = answers /\ UNCHANGED (state = "disconnected")
  BY <1>1 DEF answers, AnswerOf
<1>17. answers[Head(waiting)] # "none" /\ UNCHANGED sendIndex
  BY <1>1, <1>7, <1>13
<1> QED
  BY <1>1, <1>13, <1>14, <1>15, <1>16, <1>17 DEF Queue!Settle, answers, waiting

(* rejectPromises() rejects the calls whose promises were pushed, which    *)
(* are the oldest ones.                                                    *)
LEMMA RefinesReject ==
  ASSUME TypeInv, TypeInv', QueueInv, QueueInv', RejectPromises,
         UNCHANGED <<sendIndex, unpushed, wire>>,
         state' = "disconnected" => unpushed = <<>>,
         state = "disconnected" => state' = "disconnected"
  PROVE  Queue!Reject
<1> DEFINE n == Len(promises)
<1>1. /\ promises \in Seq(Ids) /\ unpushed \in Seq(Ids) /\ n \in Nat /\ Len(unpushed) \in Nat
      /\ Len(waiting) = n + Len(unpushed) /\ waiting \in Seq(Ids)
  BY QueueTypes, ConcatProperties DEF waiting
<1>2. n \in 0..Len(waiting)
  BY <1>1
<1>3. SubSeq(waiting, 1, n) = promises
  <2>1. \A k \in 1..n : waiting[k] = promises[k] /\ waiting[k] \in Ids
    BY <1>1, ConcatProperties DEF waiting
  <2>2. /\ SubSeq(waiting, 1, n) \in Seq(Ids) /\ Len(SubSeq(waiting, 1, n)) = n
        /\ \A k \in 1..n : SubSeq(waiting, 1, n)[k] = waiting[k]
    BY <1>1, <1>2, <2>1, SubSeqProperties
  <2> QED
    BY <1>1, <2>1, <2>2, SeqEqual
<1>4. SubSeq(waiting, n + 1, Len(waiting)) = unpushed
  <2>1. \A k \in (n + 1)..Len(waiting) : waiting[k] = unpushed[k - n] /\ waiting[k] \in Ids
    BY <1>1, ConcatProperties DEF waiting
  <2> DEFINE t == SubSeq(waiting, n + 1, Len(waiting))
  <2>2. /\ t \in Seq(Ids) /\ Len(t) = Len(unpushed)
        /\ \A k \in 1..Len(unpushed) : t[k] = waiting[n + k]
    BY <1>1, <2>1, SubSeqProperties
  <2>3. ASSUME NEW k \in 1..Len(t) PROVE t[k] = unpushed[k]
    <3>1. n + k \in (n + 1)..Len(waiting) /\ (n + k) - n = k
      BY <1>1, <2>2
    <3> QED
      BY <2>1, <2>2, <3>1
  <2> HIDE DEF t
  <2>4. t = unpushed
    BY <1>1, <2>2, <2>3, SeqEqual
  <2> QED
    BY <2>4 DEF t
<1>5. waiting' = unpushed
  BY <1>1 DEF RejectPromises, waiting
<1>6. outcome' = [id \in Ids |->
         IF id \in Range(SubSeq(waiting, 1, n)) THEN "rejected" ELSE outcome[id]]
  BY <1>3 DEF RejectPromises
<1>7. answers' = answers /\ sendIndex' = sendIndex
  BY DEF answers, AnswerOf
<1>8. state' = "disconnected" => waiting' = <<>>
  BY <1>5
<1>9. waiting' = SubSeq(waiting, n + 1, Len(waiting))
  BY <1>4, <1>5
<1>10. (state' = "disconnected") \in {state = "disconnected", TRUE}
  OBVIOUS
<1> HIDE DEF n
<1> QED
  BY <1>2, <1>6, <1>7, <1>8, <1>9, <1>10 DEF Queue!Reject, Queue!Range, Range, answers, waiting

-----------------------------------------------------------------------------
(* Every calm step is a step of the queue or leaves it unchanged.          *)
LEMMA RefinesStep ==
  ASSUME TypeInv, TypeInv', QueueInv, QueueInv', CalmInv, CalmInv', Next, Calm, Calm'
  PROVE  [Queue!Next]_(Queue!queueVars)
<1>a. ASSUME UNCHANGED <<sendIndex, promises, unpushed, outcome>>, answers' = answers,
             (state = "disconnected")' <=> (state = "disconnected")
      PROVE  UNCHANGED Queue!queueVars
  BY <1>a DEF Queue!queueVars, answers
<1>b. ASSUME UNCHANGED wire PROVE answers' = answers
  BY <1>b DEF answers, AnswerOf
<1>c. ASSUME UNCHANGED <<clientVars, wire>> PROVE UNCHANGED Queue!queueVars
  BY <1>a, <1>b, <1>c DEF clientVars
<1>1. CASE Perform
  <2>1. Send /\ UNCHANGED <<state, promises, wire>> /\ sendIndex < MaxCommands
    BY <1>1 DEF Perform, serverVars
  <2>2. sendIndex < MaxId
    <3>1. sendIndex \in Nat
      BY Numbers
    <3> QED
      BY <2>1, <3>1, Bounds
  <2> QED
    BY <2>1, <2>2, RefinesCall DEF Queue!Next
<1>2. CASE PushPromise
  BY <1>2, RefinesPush
<1>3. CASE Dispose \/ OnStreamData
  <2>1. UNCHANGED <<clientVars, wire>>
    BY <1>3 DEF Dispose, OnStreamData, serverVars
  <2> QED
    BY <1>c, <2>1
<1>4. ASSUME NEW h \in Slots, Activation(h) PROVE [Queue!Next]_(Queue!queueVars)
  <2>1. CASE RecvGreeting(h)
    <3>1. UNCHANGED <<unpushed, sendIndex, wire>> /\ state = "initializing"
      BY <2>1 DEF RecvGreeting, serverVars
    <3>2. CASE state' = "connected" /\ UNCHANGED <<outcome, promises>>
      BY <1>a, <1>b, <3>1, <3>2
    <3>3. CASE RejectPromises /\ UNCHANGED state
      BY <3>1, <3>3, RefinesReject DEF Queue!Next
    <3> QED
      BY <2>1, <3>2, <3>3 DEF RecvGreeting
  <2>2. CASE RecvReply(h)
    BY <2>2, RefinesSettle DEF Queue!Next
  <2>3. CASE RecvUnexpected(h)
    <3>1. UNCHANGED <<unpushed, sendIndex, wire, state>> /\ RejectPromises
      BY <2>3 DEF RecvUnexpected, serverVars
    <3>2. state' = "disconnected" => unpushed = <<>>
      BY <3>1 DEF QueueInv
    <3> QED
      BY <3>1, <3>2, RefinesReject DEF Queue!Next
  <2>4. CASE RecvEvent(h)
    <3>1. Send /\ UNCHANGED <<state, promises, wire>> /\ sendIndex < MaxId
      BY <2>4 DEF RecvEvent, serverVars
    <3> QED
      BY <3>1, RefinesCall DEF Queue!Next
  <2>5. CASE EventDone(h) \/ Abort(h) \/ ChunkDone(h)
    <3>1. UNCHANGED <<clientVars, wire>>
      BY <2>5 DEF EventDone, Abort, ChunkDone, serverVars
    <3> QED
      BY <1>c, <3>1
  <2> QED
    BY <1>4, <2>1, <2>2, <2>3, <2>4, <2>5 DEF Activation
<1>5. CASE OnStreamEnd
  <2>1. UNCHANGED <<unpushed, sendIndex, wire>> /\ RejectPromises /\ state' = "disconnected"
        /\ unpushed = <<>>
    BY <1>5 DEF OnStreamEnd, Quiescent, serverVars
  <2> QED
    BY <2>1, RefinesReject DEF Queue!Next
<1>6. CASE Server
  <2>1. UNCHANGED clientVars
    BY <1>6 DEF Server, ServerGreet, ServerAnswer, ServerEvent, ServerStray, ServerClose
  <2>2. CASE ServerAnswer
    BY <2>2, RefinesAnswer DEF Queue!Next, CalmInv
  <2>3. ASSUME NEW p \in Packets, wire' = Append(wire, p), p.type \notin ReplyTypes
        PROVE  UNCHANGED Queue!queueVars
    BY <1>a, <2>1, <2>3, AnswersKept DEF clientVars
  <2>4. CASE ServerGreet
    <3>1. PICK v \in Versions : wire' = Append(wire, Packet("greeting", 0, v))
      BY <2>4 DEF ServerGreet, Write
    <3>2. Packet("greeting", 0, v) \in Packets /\ Packet("greeting", 0, v).type \notin ReplyTypes
      BY Bounds, ConnectionAssumption DEF Packet, Packets, PacketTypes, ReplyTypes
    <3> QED
      BY <2>3, <3>1, <3>2
  <2>5. CASE ServerEvent
    <3>1. wire' = Append(wire, Packet("event", 0, 0))
      BY <2>5 DEF ServerEvent, Write
    <3>2. Packet("event", 0, 0) \in Packets /\ Packet("event", 0, 0).type \notin ReplyTypes
      BY Bounds DEF Packet, Packets, PacketTypes, ReplyTypes
    <3> QED
      BY <2>3, <3>1, <3>2
  <2>6. CASE ServerClose
    BY <1>c, <2>1, <2>6 DEF ServerClose
  <2>7. ~ServerStray
    BY ConnectionAssumption DEF ServerStray, Calm, TypeInv, TypeOK
  <2> QED
    BY <1>6, <2>2, <2>4, <2>5, <2>6, <2>7 DEF Server
<1> QED
  BY <1>1, <1>2, <1>3, <1>4, <1>5, <1>6 DEF Next

(* Calm behaviours stay calm and keep the pairing.                         *)
LEMMA CalmInvariant == CalmSpec => [](PairInv /\ Calm)
<1>1. Init => PairInv /\ Calm
  BY PairInit DEF Init, Calm
<1>2. PairInv /\ Calm /\ [Next /\ Calm']_vars => (PairInv /\ Calm)'
  <2> SUFFICES ASSUME PairInv, Calm, [Next /\ Calm']_vars PROVE (PairInv /\ Calm)'
    OBVIOUS
  <2>1. [Next]_vars
    OBVIOUS
  <2>2. PairInv'
    BY <2>1, PairInvStep
  <2>3. Calm'
    BY DEF vars, linkVars, serverVars, Calm
  <2> QED
    BY <2>2, <2>3
<1> QED
  BY <1>1, <1>2, PTL DEF CalmSpec

(* As long as the server keeps to the protocol and no chunk overtakes an   *)
(* earlier one, what the rest of the extension sees of the connection is   *)
(* the command queue: every promise is settled once, in order, by the      *)
(* answer to its own command or by a rejection of the oldest ones.         *)
THEOREM RefinesQueue == CalmSpec => ImplementsQueue
<1>1. Init => Queue!Init
  BY RefinesInit
<1>2. (PairInv /\ Calm) /\ (PairInv /\ Calm)' /\ [Next /\ Calm']_vars
        => [Queue!Next]_(Queue!queueVars)
  <2> SUFFICES ASSUME PairInv, Calm, PairInv', Calm', [Next /\ Calm']_vars
               PROVE  [Queue!Next]_(Queue!queueVars)
    OBVIOUS
  <2>1. CASE Next
    BY <2>1, RefinesStep DEF PairInv
  <2>2. CASE UNCHANGED vars
    BY <2>2 DEF vars, clientVars, serverVars, Queue!queueVars, AnswerOf
  <2> QED
    BY <2>1, <2>2
<1> QED
  BY <1>1, <1>2, CalmInvariant, PTL DEF CalmSpec, ImplementsQueue, Queue!Spec
=============================================================================
