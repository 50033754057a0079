------------------------------ MODULE UniqueFifo ------------------------------
(* What UniqueQueue<T> promises (src/src/Utils/UniqueQueue.h:21-39): a     *)
(* queue without duplicates in which a value that is added again moves to  *)
(* the end.                                                                *)
EXTENDS SequencesExt

CONSTANT Values

VARIABLE queue

Init == queue = << >>

Push(v) == queue' = Append(RemoveFirst(queue, v), v)

Pop == queue # << >> /\ queue' = Tail(queue)

Erase(v) == queue' = RemoveFirst(queue, v)

Next == Pop \/ \E v \in Values : Push(v) \/ Erase(v)

Spec == Init /\ [][Next]_queue

=============================================================================
