---------------------------- MODULE CommandQueue ----------------------------
(***************************************************************************)
(* What Connection promises to the rest of the extension: commands are     *)
(* calls, answered by the server in the order they were issued; each       *)
(* promise is settled once, either by the server's answer to its own call  *)
(* or by a rejection of the oldest calls, and nothing waits once closed.   *)
(***************************************************************************)
EXTENDS Integers, Sequences, Functions

CONSTANT Ids  \* 1..n: the calls, in the order they are issued

VARIABLES
    issued,   \* calls made so far
    queue,    \* the calls that wait, oldest first
    answer,   \* what the server answered to each call
    outcome,  \* how each call was settled
    closed    \* no call is accepted any more

queueVars == <<issued, queue, answer, outcome, closed>>

Answers == {"resolved", "failed"}

Init ==
    /\ issued = 0
    /\ queue = <<>>
    /\ answer = [id \in Ids |-> "none"]
    /\ outcome = [id \in Ids |-> "none"]
    /\ closed = FALSE

Call ==
    /\ issued + 1 \in Ids
    /\ issued' = issued + 1
    /\ \/ /\ ~closed
          /\ queue' = Append(queue, issued + 1)
          /\ UNCHANGED outcome
       \/ /\ closed
          /\ outcome' = [outcome EXCEPT ![issued + 1] = "rejected"]
          /\ UNCHANGED queue
    /\ UNCHANGED <<answer, closed>>

(* The server answers in the order of the calls.                           *)
Answer ==
    /\ \E id \in 1..issued, a \in Answers :
         /\ \A older \in 1..(id - 1) : answer[older] # "none"
         /\ answer[id] = "none"
         /\ answer' = [answer EXCEPT ![id] = a]
    /\ UNCHANGED <<issued, queue, outcome, closed>>

Settle ==
    /\ queue # <<>>
    /\ ~closed
    /\ answer[Head(queue)] # "none"
    /\ outcome' = [outcome EXCEPT ![Head(queue)] = answer[Head(queue)]]
    /\ queue' = Tail(queue)
    /\ UNCHANGED <<issued, answer, closed>>

(* The n oldest waiting calls are rejected; a closed queue keeps none.     *)
Reject ==
    /\ \E n \in 0..Len(queue) :
         /\ outcome' = [id \in Ids |->
                IF id \in Range(SubSeq(queue, 1, n)) THEN "rejected" ELSE outcome[id]]
         /\ queue' = SubSeq(queue, n + 1, Len(queue))
    /\ closed' \in {closed, TRUE}
    /\ closed' => queue' = <<>>
    /\ UNCHANGED <<issued, answer>>

Next == Call \/ Answer \/ Settle \/ Reject

Spec == Init /\ [][Next]_queueVars
=============================================================================
