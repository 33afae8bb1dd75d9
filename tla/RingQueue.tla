----------------------------- MODULE RingQueue ------------------------------
(***************************************************************************)
(* One Queue<T> used by one thread: any sequence of add and remove.  The   *)
(* module asks when the circular array behaves as a queue.  MessageQueue   *)
(* has the same queue, and lets several threads at it.                     *)
(***************************************************************************)
EXTENDS Queue

CONSTANTS Limit,     \* bound: an element is added only below this many
          NoItem     \* taken, before anything is

ASSUME RingAssumption == /\ Limit \in Nat
                         /\ NoItem \notin Item \cup {Garbage}

VARIABLES ring,      \* the queue
          taken,     \* what the last remove() returned
          asserts,   \* assert() is compiled in
          aborted    \* an assertion failed and ended the program

ringVars == <<ring, taken, asserts, aborted>>

RingInit == /\ ring = NewQueue
            /\ taken = NoItem
            /\ asserts \in BOOLEAN
            /\ aborted = FALSE

Add(m) == /\ ~aborted
          /\ ring.size_ < Limit
          /\ ring' = add(ring, m)
          /\ UNCHANGED <<taken, asserts, aborted>>

\* Queue::remove.
Take == /\ ~aborted
        /\ ring.size_ > 0
        /\ UNCHANGED asserts
        /\ IF asserts /\ RemoveAborts(ring)
           THEN aborted' = TRUE /\ UNCHANGED <<ring, taken>>
           ELSE /\ taken' = Removed(ring)
                /\ ring' = remove(ring)
                /\ UNCHANGED aborted

RingNext == Take \/ \E m \in Item : Add(m)

RingSpec == RingInit /\ [][RingNext]_ringVars
-----------------------------------------------------------------------------
(* The fields of the queue stay consistent through any sequence of calls.  *)
RingTypeOK == /\ IsQueue(ring)
              /\ taken \in Item \cup {Garbage, NoItem}
              /\ asserts \in BOOLEAN
              /\ aborted \in BOOLEAN

(* Implementation of the abstract queue: elements leave in the order they  *)
(* entered.  It holds as long as the array never grows, and then of any    *)
(* interleaving of a MessageQueue too: a message is put in when its        *)
(* producer adds it, and taken when the popper removes it.                 *)
AsFifo == INSTANCE Fifo WITH queue <- Contents(ring)

FifoSpec == AsFifo!Spec

(* Growing a full array whose head is not at slot 0.                       *)
WrappedGrowth == /\ ring.size_ = ring.memory_size_
                 /\ ring.firstIndex_ # 0
                 /\ ring'.memory_size_ # ring.memory_size_

(* Every step of add or remove is a step of the abstract queue, whatever   *)
(* the position of the head and the size of the array, except a growth at  *)
(* a head that has moved: incrementSize is the one place that tears it.    *)
FifoStep == \/ /\ ring.size_ > 0
               /\ taken' = Head(Contents(ring))
               /\ Contents(ring') = Tail(Contents(ring))
            \/ \E m \in Item : /\ Contents(ring') = Append(Contents(ring), m)
                               /\ taken' = taken

FifoUnlessWrappedGrowth == [][WrappedGrowth \/ FifoStep]_<<ring, taken>>

(* Queue::clone gives a queue with the same elements in the same order     *)
(* although it lays them out anew, and may have to grow while it does.     *)
CloneEquals == equals(clone(ring), ring)
=============================================================================
