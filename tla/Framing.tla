------------------------------- MODULE Framing -------------------------------
(***************************************************************************)
(* The first half of NodeStreamLink.onStreamData (link.ts:66-80): chunks   *)
(* of text, cut anywhere, become the packets that Connection counts.       *)
(* A text is a sequence of characters, NUL ends a packet.                  *)
(***************************************************************************)
EXTENDS Integers, Sequences, SequencesExt

CONSTANTS
    Characters,  \* what packets are made of
    NUL,         \* the terminator '\0'
    MaxLength    \* bound: characters received in all

ASSUME FramingAssumption ==
    /\ NUL \notin Characters
    /\ MaxLength \in Nat

VARIABLES
    received,    \* history: the characters of all chunks so far
    recvBuffer,  \* NodeStreamLink.recvBuffer: fragments of an unfinished packet
    packets      \* history: the packet texts handed to the second half

vars == <<received, recvBuffer, packets>>

Init ==
    /\ received = <<>>
    /\ recvBuffer = <<>>
    /\ packets = <<>>

(* recvBuffer.join(''), packet texts put back to back.                     *)
Join(texts) == FlattenSeq(texts)

(* chunk.split('\0'), character by character: a terminator begins a piece, *)
(* any other character goes to the last one.  There is one piece more than *)
(* there are terminators.                                                  *)
Split(chunk) ==
    LET pieces[i \in 0..Len(chunk)] ==
            IF i = 0 THEN << <<>> >>
            ELSE IF chunk[i] = NUL THEN Append(pieces[i - 1], <<>>)
            ELSE Append(Front(pieces[i - 1]), Append(Last(pieces[i - 1]), chunk[i]))
    IN  pieces[Len(chunk)]

(* Mutant: the buffer keeps its fragments after a packet is complete.      *)
OnStreamDataKeepsBuffer(chunk) ==
    LET first == Head(Split(chunk))
        rest == Tail(Split(chunk))
        buffer == Append(recvBuffer, first)
    IN  /\ received' = received \o chunk
        /\ IF rest = <<>>
             THEN recvBuffer' = buffer /\ UNCHANGED packets
             ELSE /\ packets' = packets \o <<Join(buffer)>> \o Front(rest)
                  /\ recvBuffer' = Append(buffer, Last(rest))

OnStreamData(chunk) ==
    LET first == Head(Split(chunk))
        rest == Tail(Split(chunk))
        buffer == Append(recvBuffer, first)
    IN  /\ received' = received \o chunk
        /\ IF rest = <<>>
             THEN recvBuffer' = buffer /\ UNCHANGED packets
             ELSE /\ packets' = packets \o <<Join(buffer)>> \o Front(rest)
                  /\ recvBuffer' = <<Last(rest)>>

Next ==
    \E n \in 1..(MaxLength - Len(received)) :
        \E chunk \in [1..n -> Characters \cup {NUL}] : OnStreamData(chunk)

Spec == Init /\ [][Next]_vars

-----------------------------------------------------------------------------
Terminated(text) == Append(text, NUL)

(* Whatever the chunk boundaries, the packets with their terminators,      *)
(* followed by the buffered fragments, are the text received, and no       *)
(* terminator is left inside a packet or in the buffer: the reader is      *)
(* never "desynchronized from the protocol" (link.ts:67-68).               *)
Synchronized ==
    /\ Join([k \in 1..Len(packets) |-> Terminated(packets[k])]) \o Join(recvBuffer) = received
    /\ \A k \in 1..Len(packets) : \A i \in 1..Len(packets[k]) : packets[k][i] # NUL
    /\ \A i \in 1..Len(Join(recvBuffer)) : Join(recvBuffer)[i] # NUL
=============================================================================
