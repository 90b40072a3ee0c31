---------------------------- MODULE BoundedQueue ----------------------------
(***************************************************************************)
(* What SafeQueue promises its users: a bounded first-in first-out queue   *)
(* whose operations take effect at one instant.  A failed operation        *)
(* changes nothing, and a taker gets the item that leaves the queue.       *)
(***************************************************************************)
EXTENDS Integers, Sequences

CONSTANTS Threads, Values, QueueSize

VARIABLES queue, result

Init ==
    /\ queue = <<>>
    /\ result = [t \in Threads |-> "true"]

Put(t) ==
    /\ Len(queue) < QueueSize
    /\ \E v \in Values : queue' = Append(queue, v)
    /\ result' = [result EXCEPT ![t] = "true"]

\* Push refused, or Pop timed out.
Fail(t) ==
    /\ result' = [result EXCEPT ![t] = "false"]
    /\ UNCHANGED queue

Take(t) ==
    /\ queue # <<>>
    /\ queue' = Tail(queue)
    /\ result' = [result EXCEPT ![t] = Head(queue)]

\* Clear drops the items from the head, one by one, and then returns.
Drop ==
    /\ queue # <<>>
    /\ queue' = Tail(queue)
    /\ UNCHANGED result

Cleared(t) ==
    /\ queue = <<>>
    /\ result' = [result EXCEPT ![t] = "true"]
    /\ UNCHANGED queue

Next ==
    \/ Drop
    \/ \E t \in Threads : Put(t) \/ Fail(t) \/ Take(t) \/ Cleared(t)

Spec == Init /\ [][Next]_<<queue, result>>
=============================================================================
