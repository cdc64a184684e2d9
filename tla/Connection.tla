----------------------------- MODULE Connection -----------------------------
(***************************************************************************)
(* The CXXRTL connection: the packet loop of NodeStreamLink (link.ts), the *)
(* command queue of Connection (client.ts) and the event callback Session  *)
(* installs on it (session.ts:26-30), with the server at the other end.    *)
(*                                                                         *)
(* Commands are numbered by the order in which they are sent.  The server  *)
(* answers them in that order; a reply carries the number of the command   *)
(* it answers in `re', which the protocol does not transmit: the client    *)
(* pairs replies with commands by position only.                           *)
(*                                                                         *)
(* One step is one run of JavaScript between two suspension points.  A     *)
(* 'data' or 'end' event is a macrotask: it fires only when no microtask   *)
(* (a continuation of an await) is left to run, which is Quiescent.        *)
(***************************************************************************)
EXTENDS Integers, Sequences, Functions

CONSTANTS
    MaxCommands,      \* bound: commands the extension performs by itself
    MaxEvents,        \* bound: events the server emits
    MaxStray,         \* bound: packets the server should not have sent
    Versions,         \* protocol versions a server may announce
    ServerMayClose,   \* the server may close its end of the stream
    ClientMayDispose  \* the extension may dispose of the connection

ASSUME ConnectionAssumption ==
    /\ MaxCommands \in Nat
    /\ MaxEvents \in Nat
    /\ MaxStray \in Nat
    /\ Versions \subseteq Nat
    /\ Versions # {}
    /\ ServerMayClose \in BOOLEAN
    /\ ClientMayDispose \in BOOLEAN

MaxId == MaxCommands + MaxEvents + MaxStray

Ids == 1..MaxId

(* Simultaneous activations of the async function onStreamData: all but    *)
(* the newest wait for the status query of an event of their own.          *)
Slots == 1..(MaxEvents + MaxStray + 1)

VARIABLES
    state,       \* Connection._state
    promises,    \* Connection.promises: the commands waiting for a reply
    unpushed,    \* sent by perform(), its promise not pushed yet (client.ts:123-125)
    timestamps,  \* Connection.timestamps.length
    sendIndex,   \* Connection.sendIndex
    outcome,     \* how the promise of each command was settled
    settledBy,   \* history: the command whose reply settled it
    stream,      \* the socket: "open", "ended" ('end' emitted) or "destroyed"
    flowing,     \* the stream's flowing mode, set by pause() and resume()
    activation,  \* activations of onStreamData
    delivered,   \* packets handed to onStreamData so far
    wire,        \* history of the packets the server has written
    greeted,     \* server: greeting sent
    sent,        \* commands written to the socket
    served,      \* server: commands answered
    events,      \* server: events emitted
    strays,      \* server: packets it should not have sent
    eof,         \* server: closed its end
    aborted,     \* history: onStreamData returned through an error path
    overtaken    \* history: a chunk was delivered while an earlier chunk
                 \* still had packets to process

clientVars == <<state, promises, unpushed, timestamps, sendIndex, outcome, settledBy>>
linkVars == <<stream, flowing, activation, delivered, aborted, overtaken>>
serverVars == <<wire, greeted, served, events, strays, eof>>
vars == <<clientVars, linkVars, serverVars, sent>>

PacketTypes == {"greeting", "response", "error", "event", "junk"}
ReplyTypes == {"response", "error"}

Packet(type, re, version) == [type |-> type, re |-> re, version |-> version]

Packets == [type : PacketTypes, re : 0..MaxId, version : Nat]

Idle == [busy |-> FALSE, next |-> 1, last |-> 0, await |-> 0]

(* Packets next..last of the chunk are to be processed; await is the       *)
(* command an event's status query waits for, if not 0.                    *)
Busy(next, last, await) == [busy |-> TRUE, next |-> next, last |-> last, await |-> await]

Activations == [busy : BOOLEAN, next : Nat, last : Nat, await : 0..MaxId]

Outcomes == {"none", "resolved", "failed", "rejected"}

Init ==
    /\ state = "initializing"
    /\ promises = <<>>
    /\ unpushed = <<>>
    /\ timestamps = 0
    /\ sendIndex = 0
    /\ outcome = [id \in Ids |-> "none"]
    /\ settledBy = [id \in Ids |-> 0]
    /\ stream = "open"
    /\ flowing = TRUE
    /\ activation = [h \in Slots |-> Idle]
    /\ delivered = 0
    /\ wire = <<>>
    /\ greeted = FALSE
    /\ sent = 0
    /\ served = 0
    /\ events = 0
    /\ strays = 0
    /\ eof = FALSE
    /\ aborted = FALSE
    /\ overtaken = FALSE

-----------------------------------------------------------------------------
Settled(id) == outcome[id] # "none"

Running(h) == activation[h].busy /\ activation[h].await = 0

Awaiting(h) == activation[h].busy /\ activation[h].await # 0

Runnable(h) == Running(h) \/ (Awaiting(h) /\ Settled(activation[h].await))

(* Packets of its chunk that an activation has not looked at yet.          *)
Unprocessed(h) == activation[h].busy /\ activation[h].next <= activation[h].last

Quiescent == unpushed = <<>> /\ \A h \in Slots : ~Runnable(h)

CurrentPacket(h) == wire[activation[h].next]

-----------------------------------------------------------------------------
(* Mutant: send() does not look at the state.                              *)
SendUnchecked ==
    /\ sendIndex' = sendIndex + 1
    /\ timestamps' = timestamps + 1
    /\ unpushed' = Append(unpushed, sendIndex + 1)
    /\ sent' = IF stream = "open" THEN sent + 1 ELSE sent
    /\ UNCHANGED outcome

(* Mutant: a command is given its number only when the link is up.         *)
SendNumbersLate ==
    /\ timestamps' = timestamps + 1
    /\ IF state = "disconnected"
         THEN /\ outcome' = [outcome EXCEPT ![sendIndex + 1] = "rejected"]
              /\ UNCHANGED <<unpushed, sendIndex, sent>>
         ELSE /\ sendIndex' = sendIndex + 1
              /\ unpushed' = Append(unpushed, sendIndex + 1)
              /\ sent' = IF stream = "open" THEN sent + 1 ELSE sent
              /\ UNCHANGED outcome

(* The commands: send() and traceSend(), up to the await in perform().     *)
Send ==
    /\ sendIndex' = sendIndex + 1
    /\ timestamps' = timestamps + 1
    /\ IF state = "disconnected"
         THEN /\ outcome' = [outcome EXCEPT ![sendIndex + 1] = "rejected"]
              /\ UNCHANGED <<unpushed, sent>>
         ELSE /\ unpushed' = Append(unpushed, sendIndex + 1)
              /\ sent' = IF stream = "open" THEN sent + 1 ELSE sent
              /\ UNCHANGED outcome

Perform ==
    /\ sendIndex < MaxCommands
    /\ Send
    /\ UNCHANGED <<state, promises, settledBy, linkVars, serverVars>>

(* perform() continues in a microtask and pushes its promise.              *)
PushPromise ==
    /\ unpushed # <<>>
    /\ promises' = Append(promises, Head(unpushed))
    /\ unpushed' = Tail(unpushed)
    /\ UNCHANGED <<state, timestamps, sendIndex, outcome, settledBy,
                   linkVars, serverVars, sent>>

(* Mutant: the rejected promises stay in the queue.                        *)
RejectPromisesKeepsQueue ==
    /\ outcome' = [id \in Ids |-> IF id \in Range(promises) THEN "rejected" ELSE outcome[id]]
    /\ promises' = promises

RejectPromises ==
    /\ outcome' = [id \in Ids |-> IF id \in Range(promises) THEN "rejected" ELSE outcome[id]]
    /\ promises' = <<>>

(* dispose() destroys the socket: no 'data' and no 'end' after it.         *)
Dispose ==
    /\ ClientMayDispose
    /\ stream # "destroyed"
    /\ stream' = "destroyed"
    /\ UNCHANGED <<clientVars, flowing, activation, delivered, aborted, overtaken,
                   serverVars, sent>>

-----------------------------------------------------------------------------
(* NodeStreamLink.onStreamData: a chunk holds any number of the packets    *)
(* that were written and not delivered; Framing models how chunks of text  *)
(* become packets.  The stream is paused before the first is looked at.    *)
OnStreamData ==
    /\ stream = "open"
    /\ flowing
    /\ Quiescent
    /\ \E last \in (delivered + 1)..Len(wire), h \in Slots :
         /\ ~activation[h].busy
         /\ \A g \in Slots : g < h => activation[g].busy
         /\ activation' = [activation EXCEPT ![h] = Busy(delivered + 1, last, 0)]
         /\ delivered' = last
    /\ flowing' = FALSE
    /\ overtaken' = (overtaken \/ \E h \in Slots : Unprocessed(h))
    /\ UNCHANGED <<clientVars, stream, aborted, serverVars, sent>>

(* The packet parses and traceRecv() gets past it.                         *)
Receiving(h) ==
    /\ Running(h)
    /\ Unprocessed(h)
    /\ CurrentPacket(h).type # "junk"
    /\ ~(CurrentPacket(h).type = "response" /\ timestamps = 0)

(* Mutant: an error leaves its timestamp.                                  *)
TraceRecvResponsesOnly(h) ==
    timestamps' = IF CurrentPacket(h).type = "response" THEN timestamps - 1 ELSE timestamps

TraceRecv(h) ==
    timestamps' = IF CurrentPacket(h).type \in ReplyTypes /\ timestamps > 0
                    THEN timestamps - 1 ELSE timestamps

(* onRecv returned: the loop resumes the stream and goes on.               *)
PacketDone(h) ==
    /\ activation' = [activation EXCEPT ![h] = Busy(@.next + 1, @.last, 0)]
    /\ flowing' = TRUE
    /\ UNCHANGED <<stream, delivered, aborted, overtaken>>

RecvGreeting(h) ==
    /\ Receiving(h)
    /\ TraceRecv(h)
    /\ state = "initializing"
    /\ CurrentPacket(h).type = "greeting"
    /\ \/ /\ CurrentPacket(h).version = 0
          /\ state' = "connected"
          /\ UNCHANGED <<outcome, promises>>
       \/ /\ CurrentPacket(h).version # 0
          /\ RejectPromises
          /\ UNCHANGED state
    /\ PacketDone(h)
    /\ UNCHANGED <<unpushed, sendIndex, settledBy, serverVars, sent>>

(* Mutant: a reply settles the newest command, pop() in place of shift().  *)
RecvReplyNewest(h) ==
    /\ Receiving(h)
    /\ TraceRecv(h)
    /\ state = "connected"
    /\ CurrentPacket(h).type \in ReplyTypes
    /\ promises # <<>>
    /\ outcome' = [outcome EXCEPT ![promises[Len(promises)]] =
            IF CurrentPacket(h).type = "response" THEN "resolved" ELSE "failed"]
    /\ settledBy' = [settledBy EXCEPT ![promises[Len(promises)]] = CurrentPacket(h).re]
    /\ promises' = SubSeq(promises, 1, Len(promises) - 1)
    /\ PacketDone(h)
    /\ UNCHANGED <<state, unpushed, sendIndex, serverVars, sent>>

RecvReply(h) ==
    /\ Receiving(h)
    /\ TraceRecv(h)
    /\ state = "connected"
    /\ CurrentPacket(h).type \in ReplyTypes
    /\ promises # <<>>
    /\ outcome' = [outcome EXCEPT ![Head(promises)] =
            IF CurrentPacket(h).type = "response" THEN "resolved" ELSE "failed"]
    /\ settledBy' = [settledBy EXCEPT ![Head(promises)] = CurrentPacket(h).re]
    /\ promises' = Tail(promises)
    /\ PacketDone(h)
    /\ UNCHANGED <<state, unpushed, sendIndex, serverVars, sent>>

(* The branches of onLinkRecv that are not a complaint.                     *)
Expected(h) ==
    \/ state = "initializing" /\ CurrentPacket(h).type = "greeting"
    \/ state = "connected" /\ CurrentPacket(h).type \in ReplyTypes /\ promises # <<>>
    \/ state = "connected" /\ CurrentPacket(h).type = "event"

RecvUnexpected(h) ==
    /\ Receiving(h)
    /\ TraceRecv(h)
    /\ ~Expected(h)
    /\ RejectPromises
    /\ PacketDone(h)
    /\ UNCHANGED <<state, unpushed, sendIndex, settledBy, serverVars, sent>>

(* Session's onEvent awaits a status query: the activation is suspended    *)
(* with the stream as the packets before the event left it.                *)
RecvEvent(h) ==
    /\ Receiving(h)
    /\ state = "connected"
    /\ CurrentPacket(h).type = "event"
    /\ sendIndex < MaxId
    /\ Send
    /\ activation' = [activation EXCEPT ![h] = Busy(@.next + 1, @.last, sendIndex + 1)]
    /\ UNCHANGED <<state, promises, settledBy,
                   stream, flowing, delivered, aborted, overtaken, serverVars>>

EventDone(h) ==
    /\ Awaiting(h)
    /\ outcome[activation[h].await] = "resolved"
    /\ activation' = [activation EXCEPT ![h] = Busy(@.next, @.last, 0)]
    /\ flowing' = TRUE
    /\ UNCHANGED <<clientVars, stream, delivered, aborted, overtaken, serverVars, sent>>

(* An error path of onStreamData: JSON.parse, traceRecv() or the awaited   *)
(* status query threw.  The rest of the chunk is dropped and the stream is *)
(* left as it is.                                                          *)
RecvThrows(h) ==
    \/ /\ Running(h)
       /\ Unprocessed(h)
       /\ ~Receiving(h)
    \/ /\ Awaiting(h)
       /\ outcome[activation[h].await] \in {"failed", "rejected"}

Abort(h) ==
    /\ RecvThrows(h)
    /\ activation' = [activation EXCEPT ![h] = Idle]
    /\ aborted' = TRUE
    /\ UNCHANGED <<clientVars, stream, flowing, delivered, overtaken, serverVars, sent>>

(* The loop is over: the final resume().                                   *)
ChunkDone(h) ==
    /\ Running(h)
    /\ ~Unprocessed(h)
    /\ activation' = [activation EXCEPT ![h] = Idle]
    /\ flowing' = TRUE
    /\ UNCHANGED <<clientVars, stream, delivered, aborted, overtaken, serverVars, sent>>

(* Mutant: the end of the link does not reject what is waiting.            *)
OnStreamEndSilent ==
    /\ stream = "open"
    /\ eof
    /\ delivered = Len(wire)
    /\ Quiescent
    /\ stream' = "ended"
    /\ state' = "disconnected"
    /\ UNCHANGED <<outcome, promises, unpushed, timestamps, sendIndex, settledBy,
                   flowing, activation, delivered, aborted, overtaken, serverVars, sent>>

(* 'end' needs an empty read buffer, not a flowing stream.                 *)
OnStreamEnd ==
    /\ stream = "open"
    /\ eof
    /\ delivered = Len(wire)
    /\ Quiescent
    /\ stream' = "ended"
    /\ RejectPromises
    /\ state' = "disconnected"
    /\ UNCHANGED <<unpushed, timestamps, sendIndex, settledBy,
                   flowing, activation, delivered, aborted, overtaken, serverVars, sent>>

-----------------------------------------------------------------------------
(* The server.  It greets, answers the commands in order and emits events; *)
(* a stray packet is one a correct server does not send.                   *)
Write(p) == wire' = Append(wire, p)

ServerGreet ==
    /\ ~greeted
    /\ ~eof
    /\ greeted' = TRUE
    /\ \E v \in Versions : Write(Packet("greeting", 0, v))
    /\ UNCHANGED <<clientVars, linkVars, served, events, strays, eof, sent>>

ServerAnswer ==
    /\ greeted
    /\ ~eof
    /\ served < sent
    /\ served' = served + 1
    /\ \E type \in ReplyTypes : Write(Packet(type, served + 1, 0))
    /\ UNCHANGED <<clientVars, linkVars, greeted, events, strays, eof, sent>>

ServerEvent ==
    /\ greeted
    /\ ~eof
    /\ events < MaxEvents
    /\ events' = events + 1
    /\ Write(Packet("event", 0, 0))
    /\ UNCHANGED <<clientVars, linkVars, greeted, served, strays, eof, sent>>

ServerStray ==
    /\ ~eof
    /\ strays < MaxStray
    /\ strays' = strays + 1
    /\ \E type \in PacketTypes : Write(Packet(type, 0, 0))
    /\ UNCHANGED <<clientVars, linkVars, greeted, served, events, eof, sent>>

ServerClose ==
    /\ ServerMayClose
    /\ ~eof
    /\ eof' = TRUE
    /\ UNCHANGED <<clientVars, linkVars, wire, greeted, served, events, strays, sent>>

-----------------------------------------------------------------------------
Activation(h) ==
    \/ RecvGreeting(h)
    \/ RecvReply(h)
    \/ RecvUnexpected(h)
    \/ RecvEvent(h)
    \/ EventDone(h)
    \/ Abort(h)
    \/ ChunkDone(h)

Server == ServerGreet \/ ServerAnswer \/ ServerEvent \/ ServerStray \/ ServerClose

Next ==
    \/ Perform
    \/ PushPromise
    \/ Dispose
    \/ OnStreamData
    \/ \E h \in Slots : Activation(h)
    \/ OnStreamEnd
    \/ Server

Spec == Init /\ [][Next]_vars

(* Microtasks run, available data is delivered while the stream flows, and *)
(* the server answers; events, strays, commands, the server's closing and  *)
(* dispose() need never happen.                                            *)
Microtasks ==
    /\ WF_vars(PushPromise)
    /\ \A h \in Slots : WF_vars(Activation(h))
    /\ WF_vars(OnStreamEnd)

Answering ==
    /\ WF_vars(ServerGreet)
    /\ WF_vars(ServerAnswer)

FairSpec == Spec /\ Microtasks /\ Answering /\ WF_vars(OnStreamData)

-----------------------------------------------------------------------------
TypeOK ==
    /\ state \in {"initializing", "connected", "disconnected"}
    /\ promises \in Seq(Ids)
    /\ unpushed \in Seq(Ids)
    /\ timestamps \in 0..sendIndex
    /\ sendIndex \in 0..MaxId
    /\ outcome \in [Ids -> Outcomes]
    /\ settledBy \in [Ids -> 0..MaxId]
    /\ stream \in {"open", "ended", "destroyed"}
    /\ flowing \in BOOLEAN
    /\ activation \in [Slots -> Activations]
    /\ delivered \in 0..Len(wire)
    /\ wire \in Seq(Packets)
    /\ greeted \in BOOLEAN
    /\ sent \in 0..sendIndex
    /\ served \in 0..sent
    /\ events \in 0..MaxEvents
    /\ strays \in 0..MaxStray
    /\ eof \in BOOLEAN
    /\ aborted \in BOOLEAN
    /\ overtaken \in BOOLEAN

(* The server kept to the protocol and no chunk overtook an earlier one.   *)
Calm == strays = 0 /\ ~overtaken

(* The behaviours that stay calm, with the same fairness: a chunk is       *)
(* delivered as long as it overtakes nothing.                              *)
CalmSpec == Init /\ [][Next /\ Calm']_vars

FairCalmSpec == CalmSpec /\ Microtasks /\ Answering /\ WF_vars(OnStreamData /\ Calm')

Replied(id) == outcome[id] \in {"resolved", "failed"}

(* Every promise that a reply settled was settled by the reply to its own  *)
(* command: what the casts of client.ts:151-177 take for granted.          *)
ReplyMatches == \A id \in Ids : Replied(id) => settledBy[id] = id

(* As long as the server keeps to the protocol and no chunk is delivered   *)
(* before the earlier ones are processed, pairing replies with promises by *)
(* position (client.ts:93) is right.                                       *)
CalmReplyMatches == Calm => ReplyMatches

(* No promise is lost: a command that was sent and is not settled is still *)
(* known to the connection, in the queue or about to be pushed to it, at   *)
(* most once (client.ts:93, 117, 125).                                     *)
NoOrphan ==
    /\ \A id \in 1..sendIndex :
         ~Settled(id) <=> id \in Range(promises) \cup Range(unpushed)
    /\ IsInjective(promises \o unpushed)

(* Once the link is done no command is left waiting, the ones performed    *)
(* afterwards included (client.ts:72-73, 111-112).                         *)
DisconnectedSettlesAll ==
    state = "disconnected" => \A id \in 1..sendIndex : Settled(id)

(* traceRecv() measures a reply against the time its own command was sent, *)
(* and so never finds the list of timestamps empty (client.ts:51, 60, 63). *)
ElapsedIsOwn ==
    Calm => \A h \in Slots :
        Running(h) /\ Unprocessed(h) /\ CurrentPacket(h).type \in ReplyTypes
            => CurrentPacket(h).re = sendIndex - timestamps + 1

(* A promise is settled at most once, and a reply settles the oldest       *)
(* waiting command only.                                                   *)
SettledInOrder ==
    [][\A id \in Ids :
        /\ Settled(id) => outcome'[id] = outcome[id]
        /\ ~Replied(id) /\ Replied(id)' => \A older \in 1..(id - 1) : Settled(older)]_vars

(* Every command is eventually settled, by a reply, a rejection or the end *)
(* of the link, unless an event holds up the packet loop or dispose()      *)
(* destroys the stream (client.ts:91-120).                                 *)
EveryCommandSettles ==
    \A id \in Ids : (sendIndex >= id) ~> (Settled(id) \/ events > 0 \/ stream = "destroyed")

(* "the stream is paused so that this event handler isn't re-entered"      *)
(* (link.ts:83-84): a chunk is never delivered to onStreamData while an    *)
(* activation of it is still busy.                                         *)
NotReentered ==
    [][OnStreamData => \A h \in Slots : ~activation[h].busy]_vars

(* A paused stream is resumed (link.ts:91, 101) unless an error path left  *)
(* it paused: a pause by itself never lasts.                               *)
PauseEnds == ~flowing ~> (flowing \/ aborted \/ stream # "open")

-----------------------------------------------------------------------------
(* The answers the server has written, by command.                         *)
AnswerOf(id) ==
    IF \E i \in 1..Len(wire) : wire[i].re = id /\ wire[i].type = "response" THEN "resolved"
    ELSE IF \E i \in 1..Len(wire) : wire[i].re = id /\ wire[i].type = "error" THEN "failed"
    ELSE "none"

Queue == INSTANCE CommandQueue WITH
    issued <- sendIndex,
    queue <- promises \o unpushed,
    answer <- [id \in Ids |-> AnswerOf(id)],
    closed <- (state = "disconnected")

(* While calm, the link, the connection and the session's event            *)
(* callback implement the command queue the typed wrappers of              *)
(* client.ts:151-177 rely on.                                              *)
ImplementsQueue == Queue!Spec
=============================================================================
