----------------------------- MODULE FastArray ------------------------------
(***************************************************************************)
(* FastArray (src/utils/array.h): an array in chunks of arr_size_, so that *)
(* growth copies pointers to chunks and no element.                        *)
(***************************************************************************)
EXTENDS Integers, SequencesExt

CONSTANTS ArrSize,         \* arr_size_, 16 in the code
          Memory,          \* memory_ of a new array, 16 in the code
          Garbage          \* the content of memory that was not written

ASSUME FastArrayAssumption == ArrSize \in Nat \ {0} /\ Memory \in Nat \ {0}

\* FastArray().  arr_fill_ is the length of arr_.
EmptyArray == [arr_ |-> <<>>, memory_ |-> Memory, size_ |-> 0]

Chunk == [k \in 0 .. ArrSize - 1 |-> Garbage]

\* Mutant: doubling allocates the chunks anew.
grow_Fresh(a) ==
  LET full == Len(a.arr_) = a.memory_
  IN  [a EXCEPT !.memory_ = IF full THEN 2 * @ ELSE @,
                !.arr_ = Append(IF full THEN [k \in DOMAIN @ |-> Chunk] ELSE @,
                                Chunk)]

grow(a) == [a EXCEPT !.memory_ = IF Len(a.arr_) = @ THEN 2 * @ ELSE @,
                     !.arr_ = Append(@, Chunk)]

get(a, idx) == a.arr_[(idx \div ArrSize) + 1][idx % ArrSize]

set(a, idx, t) == [a EXCEPT !.arr_[(idx \div ArrSize) + 1][idx % ArrSize] = t]

push_back(a, t) ==
  LET room == IF a.size_ + 1 > Len(a.arr_) * ArrSize THEN grow(a) ELSE a
  IN  [set(room, a.size_, t) EXCEPT !.size_ = @ + 1]

ArrayOf(elements) == FoldLeft(push_back, EmptyArray, elements)

Elements(a) == [k \in 1 .. a.size_ |-> get(a, k - 1)]

\* The copying constructor, and clone.
copy(a) == ArrayOf(Elements(a))

\* outOfBounds, which compares with size_ - 1, a large number if size_ is 0:
\* get and set then meet a null pointer instead of the assertion.
Access(a, idx) == IF a.size_ = 0 THEN "crashed"
                  ELSE IF idx > a.size_ - 1 THEN "aborted" ELSE "ok"
=============================================================================
