-------------------------------- MODULE Fifo --------------------------------
(***************************************************************************)
(* What a queue promises its users: elements leave it in the order they    *)
(* entered, each of them once.  The concrete queues of this project        *)
(* (RingQueue, MessageQueue) are checked against this module.              *)
(***************************************************************************)
EXTENDS Sequences

CONSTANTS Item,      \* what the queue holds
          NoItem     \* the result before anything was removed

VARIABLES queue,     \* the elements not yet removed, oldest first
          taken      \* the element the last removal returned

vars == <<queue, taken>>

Init == queue = <<>> /\ taken = NoItem

Put(m) == queue' = Append(queue, m) /\ UNCHANGED taken

Take == /\ queue # <<>>
        /\ taken' = Head(queue)
        /\ queue' = Tail(queue)

Next == Take \/ \E m \in Item : Put(m)

Spec == Init /\ [][Next]_vars
=============================================================================
