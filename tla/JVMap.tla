------------------------------- MODULE JVMap --------------------------------
(***************************************************************************)
(* JVMap and SIMap (src/utils/map.h): a map by chaining, in which a bucket *)
(* is two Arrays (src/utils/array.h) of a fixed capacity, one of keys and  *)
(* one of values; and Adder (src/app/wordcounter.h), which counts words in *)
(* it.                                                                     *)
(***************************************************************************)
EXTENDS Integers, SequencesExt, SortedSets

CONSTANTS Key,
          Num,             \* the values: numbers
          Null,            \* nullptr
          Wild,            \* a pointer in memory that was not written
          Hashes,          \* the functions that hash() may be
          BucketSize,      \* the capacity of the arrays, 8 in the code
          Capacity         \* capacity_ of a new map, 10 in the code

ASSUME JVMapAssumption ==
  /\ Hashes \subseteq [Key -> Nat]
  /\ Num \subseteq Nat
  /\ {Null, Wild} \cap Key = {} /\ Null # Wild
  /\ BucketSize \in Nat \ {0} /\ Capacity \in Nat \ {0}

VARIABLES hash, capacity_, size_, items_,
          program          \* "going", "aborted", "crashed" or "stuck"

mapVars == <<hash, capacity_, size_, items_, program>>

Buckets(cap) == 0 .. cap - 1

EmptyItems(cap) == [b \in Buckets(cap) |-> [keys_ |-> <<>>, vals_ |-> <<>>]]

MapInit == /\ hash \in Hashes
           /\ capacity_ = Capacity
           /\ size_ = 0
           /\ items_ = EmptyItems(Capacity)
           /\ program = "going"

off_(k) == hash[k] % capacity_

\* Where the loops over the keys of a bucket end for k: at k, at a wild pointer,
\* which equals follows, or nowhere.
At(item, k) == {n \in DOMAIN item.keys_ : item.keys_[n] \in {k, Wild}}

Found(item, k)   == At(item, k) # {} /\ item.keys_[Min(At(item, k))] = k
Crashes(item, k) == At(item, k) # {} /\ item.keys_[Min(At(item, k))] = Wild

\* set_, of a bucket with room: put, or push_back of both.
set_(item, k, v) ==
  IF Found(item, k) THEN [item EXCEPT !.vals_[Min(At(item, k))] = v]
  ELSE [keys_ |-> Append(item.keys_, k), vals_ |-> Append(item.vals_, v)]

\* Mutant: the keys stay in the buckets of their number.
grow_SameBuckets ==
  [b \in Buckets(2 * capacity_) |->
     IF b < capacity_ THEN items_[b] ELSE [keys_ |-> <<>>, vals_ |-> <<>>]]

\* grow, of a map without pointers that are null or wild: the set of each entry
\* in a map of twice the capacity, which neither grows nor overflows.
grow ==
  LET Put(b, old) ==
        LET at == Ascending({n \in DOMAIN old.keys_ :
                               hash[old.keys_[n]] % (2 * capacity_) = b})
        IN  [keys_ |-> [n \in DOMAIN at |-> old.keys_[at[n]]],
             vals_ |-> [n \in DOMAIN at |-> old.vals_[at[n]]]]
  IN  [b \in Buckets(2 * capacity_) |-> Put(b, items_[b % capacity_])]

\* What is in an array behind its keys, when one was erased.
NoKey == {Null, Wild}

HasNoKey == \E b \in Buckets(capacity_) : NoKey \cap Range(items_[b].keys_) # {}

\* set: the growth, in which the hash of what is no key is taken, comes first,
\* also if the key is there.
Set(k, v) ==
  LET full  == size_ >= capacity_
      cap   == IF full THEN 2 * capacity_ ELSE capacity_
      items == IF full THEN grow ELSE items_
      b     == hash[k] % cap
  IN  /\ IF (full /\ HasNoKey) \/ (~full /\ Crashes(items_[off_(k)], k))
         THEN program' = "crashed" /\ UNCHANGED <<capacity_, size_, items_>>
         ELSE IF ~Found(items[b], k) /\ Len(items[b].keys_) = BucketSize
         THEN program' = "aborted" /\ UNCHANGED <<capacity_, size_, items_>>
         ELSE /\ items_' = [items EXCEPT ![b] = set_(@, k, v)]
              /\ size_' = IF Found(items[b], k) THEN size_ ELSE size_ + 1
              /\ capacity_' = cap
              /\ UNCHANGED program
      /\ UNCHANGED hash

\* erase_ of an array: it keeps its length, and its last element is what the
\* new memory holds.
erase_(array, n, last) ==
  [m \in DOMAIN array |-> CASE m < n -> array[m]
                            [] m >= n /\ m < Len(array) -> array[m + 1]
                            [] OTHER -> last]

Erase(k) ==
  LET b == off_(k)
      n == Min(At(items_[b], k))
  IN  /\ CASE Crashes(items_[b], k) ->
                program' = "crashed" /\ UNCHANGED <<size_, items_>>
           [] Found(items_[b], k) ->
                /\ \E last \in NoKey :
                     items_' = [items_ EXCEPT
                                  ![b] = [keys_ |-> erase_(@.keys_, n, last),
                                          vals_ |-> erase_(@.vals_, n, last)]]
                /\ size_' = size_ - 1
                /\ UNCHANGED program
           [] OTHER -> UNCHANGED <<program, size_, items_>>
      /\ UNCHANGED <<hash, capacity_>>

\* contains and get_ change nothing, unless they meet a wild pointer.
Lookup(k) == /\ Crashes(items_[off_(k)], k)
             /\ program' = "crashed"
             /\ UNCHANGED <<hash, capacity_, size_, items_>>

\* visit of Adder: the number is counted up in place, or a new one is made, and
\* then SIMap::set calls itself without end.
Count(k) ==
  LET b == off_(k)
  IN  /\ ~Crashes(items_[b], k)
      /\ items_' = IF Found(items_[b], k)
                   THEN [items_ EXCEPT ![b].vals_[Min(At(items_[b], k))] = @ + 1]
                   ELSE items_
      /\ program' = "stuck"
      /\ UNCHANGED <<hash, capacity_, size_>>

MapNext == program = "going" /\ \E k \in Key : \/ \E v \in Num : Set(k, v)
                                               \/ Erase(k) \/ Lookup(k) \/ Count(k)
-----------------------------------------------------------------------------
\* The value of a key, from wherever in its bucket it is.
Content(k) ==
  LET item == items_[off_(k)]
      At_  == {n \in DOMAIN item.keys_ : item.keys_[n] = k}
  IN  IF At_ = {} THEN Null ELSE item.vals_[Min(At_)]

D == INSTANCE Dictionary WITH dict  <- [k \in Key |-> Content(k)],
                              Value <- Num \cup {n + 1 : n \in Num}

(* A map keeps the value of every key until it is set again or erased,     *)
(* through collisions, growth, and the shifts that follow an erased key in *)
(* its bucket, up to the call that ends the program (set, grow, erase).    *)
MapSpec == D!ErasingSpec
=============================================================================
