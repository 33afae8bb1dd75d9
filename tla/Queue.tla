------------------------------- MODULE Queue --------------------------------
(***************************************************************************)
(* Queue<T> of src/utils/queue.h: a queue kept in a circular array that    *)
(* doubles when it is full.  A queue is a record with the fields of the    *)
(* class; an operator returns what a method returns or leaves behind.      *)
(*                                                                         *)
(* The array comes from new T*[n], which leaves its slots unwritten:       *)
(* Garbage stands for whatever pointer such a slot holds, and for what a   *)
(* read past the end of the array finds.                                   *)
(*                                                                         *)
(* The Makefile of the repository does not define NDEBUG, so the program   *)
(* it builds has its assertions.  The modules that use a queue have a      *)
(* variable asserts for that, and model the build under -DNDEBUG as well.  *)
(***************************************************************************)
EXTENDS Integers, SequencesExt

CONSTANTS Item,            \* the elements (pointers to messages)
          Garbage,         \* an unwritten slot
          InitialMemory    \* the slots of a new queue; 16 in the code

ASSUME QueueAssumption == /\ InitialMemory \in Nat \ {0}
                          /\ Garbage \notin Item

\* The fields of a queue agree: the array has memory_size_ slots, the head
\* lies in it, and no more elements are counted than there are slots.
IsQueue(r) ==
  /\ r.memory_size_ \in Nat \ {0}
  /\ r \in [arr_         : [0 .. r.memory_size_ - 1 -> Item \cup {Garbage}],
            size_        : 0 .. r.memory_size_,
            memory_size_ : Nat \ {0},
            firstIndex_  : 0 .. r.memory_size_ - 1]

NewQueue == [arr_         |-> [i \in 0 .. InitialMemory - 1 |-> Garbage],
             size_        |-> 0,
             memory_size_ |-> InitialMemory,
             firstIndex_  |-> 0]

get_index_at(r, e) == (r.firstIndex_ + e) % r.memory_size_

\* For e < size_; the code asserts it.
get_el_at(r, e) == r.arr_[get_index_at(r, e)]

\* The elements, oldest first, as a reader of the queue finds them.
Contents(r) == [i \in 1 .. r.size_ |-> get_el_at(r, i - 1)]

\* Mutant: the copy stops one element short.
incrementSize_Short(r) ==
  [arr_         |-> [i \in 0 .. 2 * r.memory_size_ - 1 |->
                       IF i < r.size_ - 1 THEN r.arr_[get_index_at(r, i)] ELSE Garbage],
   size_        |-> r.size_,
   memory_size_ |-> 2 * r.memory_size_,
   firstIndex_  |-> 0]

\* The code doubles memory_size_ before it copies, so the index of an element
\* is taken modulo the new size and may lie outside the old array.  It also
\* copies one slot more than the queue holds.
incrementSize(r) ==
  LET n      == 2 * r.memory_size_
      old(i) == (r.firstIndex_ + i) % n
  IN  [arr_         |-> [i \in 0 .. n - 1 |->
                           IF i <= r.size_ /\ old(i) < r.memory_size_
                           THEN r.arr_[old(i)] ELSE Garbage],
       size_        |-> r.size_,
       memory_size_ |-> n,
       firstIndex_  |-> 0]

MakeRoom(r) == IF r.size_ = r.memory_size_ THEN incrementSize(r) ELSE r

add(r, m) ==
  LET s == MakeRoom(r)
  IN  [arr_         |-> [s.arr_ EXCEPT ![get_index_at(s, s.size_)] = m],
       size_        |-> s.size_ + 1,
       memory_size_ |-> s.memory_size_,
       firstIndex_  |-> s.firstIndex_]

\* Mutant: the assertion the author probably meant.
RemoveAborts_OnEmpty(r) == r.size_ = 0

\* remove() begins with assert(size_ == 0), and its only caller,
\* MessageQueue::pop, calls it on a queue that is not empty.
RemoveAborts(r) == r.size_ # 0

\* Mutant: the slot is read after the head has moved.
Removed_HeadMoved(r) == r.arr_[(r.firstIndex_ + 1) % r.memory_size_]

\* The element remove() returns, and the queue it leaves.
Removed(r) == r.arr_[r.firstIndex_]

\* Mutant: the head does not start over at the end of the array.
remove_NoWrap(r) == [arr_         |-> r.arr_,
                     size_        |-> r.size_ - 1,
                     memory_size_ |-> r.memory_size_,
                     firstIndex_  |-> r.firstIndex_ + 1]

remove(r) ==
  [arr_         |-> r.arr_,
   size_        |-> r.size_ - 1,
   memory_size_ |-> r.memory_size_,
   firstIndex_  |-> IF r.firstIndex_ = r.memory_size_ - 1
                    THEN 0 ELSE r.firstIndex_ + 1]

\* Mutant: the copy takes the slots of the array from the first one on.
clone_FromSlotZero(r) ==
  FoldLeft(add, NewQueue, [i \in 1 .. r.size_ |-> r.arr_[i - 1]])

\* A copy starts from a new queue and adds the elements in order.
clone(r) == FoldLeft(add, NewQueue, Contents(r))

equals(r, s) == Contents(r) = Contents(s)
=============================================================================
