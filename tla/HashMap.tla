------------------------------ MODULE HashMap -------------------------------
(***************************************************************************)
(* Map<T, U> of src/utils/map.h, used by one thread: a table with open     *)
(* addressing and linear probing.  The stores of the nodes are such maps   *)
(* (src/kv-store/kv-store.h), and so is the map from thread ids to nodes.  *)
(*                                                                         *)
(* A step is a call that returns, or one round of the loop of incrementSize*)
(* in a call of add.                                                       *)
(***************************************************************************)
EXTENDS Probing

CONSTANTS Value,
          Null,            \* nullptr; NULL for a map of numbers
          InitialMemory,   \* the slots of a new map; 16 in the code
          MaxAdds,         \* bound: keys added
          Asserts          \* assert() is compiled in

ASSUME HashMapAssumption ==
  /\ Null \notin Key \cup Value
  /\ InitialMemory \in Nat /\ InitialMemory >= 2
  /\ InitialMemory % 2 = 0     \* as MustGrow needs it
  /\ MaxAdds \in Nat
  /\ Asserts \in BOOLEAN

VARIABLES
  key_arr_, val_arr_,    \* the slots; a value means something beside a key
  size_, memory_size_,
  tempKeys, tempVals,    \* the arrays incrementSize fills
  i,                     \* its loop variable: slots copied so far
  adding,                \* the key and value of the add that runs
  pc                     \* "idle", where add is, or how the program ended

table == <<key_arr_, val_arr_, size_, memory_size_>>
temps == <<tempKeys, tempVals, i, adding>>
vars  == <<table, temps, pc>>

Empty(m) == [s \in Slots(m) |-> Null]

Init == /\ key_arr_ = Empty(InitialMemory)
        /\ val_arr_ = Empty(InitialMemory)
        /\ size_ = 0
        /\ memory_size_ = InitialMemory
        /\ tempKeys = Empty(InitialMemory)
        /\ tempVals = Empty(InitialMemory)
        /\ i = 0
        /\ adding = [key |-> Null, val |-> Null]
        /\ pc = "idle"

\* In a table of m slots: those where the loop for k finds k, or no key.
Holding(keys, m, k) == {s \in Reachable(k, m) : keys[s] = k}
Free(keys, m, k)    == {s \in Reachable(k, m) : keys[s] = Null}

Has(keys, m, k) == Holding(keys, m, k) # {}

Get(keys, vals, m, k) ==
  IF Has(keys, m, k) THEN vals[First(k, m, Holding(keys, m, k))] ELSE Null

has(k) == Has(key_arr_, memory_size_, k)
-----------------------------------------------------------------------------
\* Mutant: the array grows only when it is full.
MustGrow_WhenFull == size_ = memory_size_

MustGrow == 2 * size_ = memory_size_

\* add: the assertion, the test for growth, and then the insertion.
Add(k, v) ==
  /\ pc = "idle"
  /\ size_ < MaxAdds
  /\ adding' = [key |-> k, val |-> v]
  /\ IF Asserts /\ has(k)
     THEN pc' = "aborted" /\ UNCHANGED <<table, tempKeys, tempVals, i>>
     ELSE IF MustGrow
     THEN /\ pc' = "grow"
          /\ memory_size_' = 2 * memory_size_
          /\ tempKeys' = Empty(2 * memory_size_)
          /\ tempVals' = Empty(2 * memory_size_)
          /\ i' = 0
          /\ UNCHANGED <<key_arr_, val_arr_, size_>>
     ELSE pc' = "insert" /\ UNCHANGED <<table, tempKeys, tempVals, i>>

\* Mutant: the slots are copied as they are.
GrowCopy_NoRehash ==
  /\ pc = "grow"
  /\ i < size_
  /\ key_arr_[i] # Null
  /\ tempKeys' = [tempKeys EXCEPT ![i] = key_arr_[i]]
  /\ tempVals' = [tempVals EXCEPT ![i] = val_arr_[i]]
  /\ i' = i + 1
  /\ UNCHANGED <<table, adding, pc>>

\* The loop of incrementSize runs over the first size_ slots of the array,
\* though its keys may be anywhere, and takes the hash of each.
GrowCopy ==
  /\ pc = "grow"
  /\ i < size_
  /\ key_arr_[i] # Null
  /\ LET k == key_arr_[i]
         s == First(k, memory_size_, Free(tempKeys, memory_size_, k))
     IN  /\ tempKeys' = [tempKeys EXCEPT ![s] = k]
         /\ tempVals' = [tempVals EXCEPT ![s] = val_arr_[i]]
  /\ i' = i + 1
  /\ UNCHANGED <<table, adding, pc>>

\* The hash of nullptr.
GrowCrash == /\ pc = "grow"
             /\ i < size_
             /\ key_arr_[i] = Null
             /\ pc' = "crashed"
             /\ UNCHANGED <<table, temps>>

\* Mutant: the array of values is not replaced.
GrowEnd_KeysOnly == /\ pc = "grow"
                    /\ i = size_
                    /\ key_arr_' = tempKeys
                    /\ pc' = "insert"
                    /\ UNCHANGED <<val_arr_, size_, memory_size_, temps>>

GrowEnd == /\ pc = "grow"
           /\ i = size_
           /\ key_arr_' = tempKeys
           /\ val_arr_' = tempVals
           /\ pc' = "insert"
           /\ UNCHANGED <<size_, memory_size_, temps>>

Insert ==
  /\ pc = "insert"
  /\ LET k == adding.key
         s == First(k, memory_size_, Free(key_arr_, memory_size_, k))
     IN  /\ Free(key_arr_, memory_size_, k) # {}
         /\ key_arr_' = [key_arr_ EXCEPT ![s] = k]
         /\ val_arr_' = [val_arr_ EXCEPT ![s] = adding.val]
  /\ size_' = size_ + 1
  /\ pc' = "idle"
  /\ UNCHANGED <<memory_size_, temps>>

\* set of a key that is there.
Set(k, v) ==
  /\ pc = "idle"
  /\ has(k)
  /\ LET s == First(k, memory_size_, Holding(key_arr_, memory_size_, k))
     IN  val_arr_' = [val_arr_ EXCEPT ![s] = v]
  /\ UNCHANGED <<key_arr_, size_, memory_size_, temps, pc>>

\* set of a key that is not: the loop of a key whose hash leads to slot 0 ends
\* at the end of the array, any other starts over for ever.
SetAbsent(k) ==
  /\ pc = "idle"
  /\ ~has(k)
  /\ pc' = IF index(k, memory_size_) = 0 THEN "idle" ELSE "looping"
  /\ UNCHANGED <<table, temps>>

Next == \/ \E k \in Key, v \in Value : Add(k, v) \/ Set(k, v)
        \/ GrowCopy
        \/ GrowCrash
        \/ GrowEnd
        \/ Insert
        \/ \E k \in Key : SetAbsent(k)

Spec == Init /\ [][Next]_vars
-----------------------------------------------------------------------------
\* While it grows, the keys are in arrays of half the new size.
ArraySize == IF pc \in {"grow", "crashed"} THEN memory_size_ \div 2
             ELSE memory_size_

(* The values of the variables.                                            *)
TypeOK ==
  /\ memory_size_ \in Nat /\ size_ \in Nat
  /\ key_arr_ \in [Slots(ArraySize) -> Key \cup {Null}]
  /\ val_arr_ \in [Slots(ArraySize) -> Value \cup {Null}]
  /\ i \in Nat
  /\ adding \in [key : Key \cup {Null}, val : Value \cup {Null}]
  /\ pc \in {"idle", "grow", "insert", "aborted", "crashed", "looping"}

(* The map is a dictionary for its user: through collisions, wrapped       *)
(* probes and growth, a key is found with the value it was added or last   *)
(* set with, and no other.                                                 *)
AsDictionary == INSTANCE Dictionary
  WITH dict <- [k \in Key |-> Get(key_arr_, val_arr_, ArraySize, k)]

DictionarySpec == AsDictionary!Spec

(* Adding always finds a slot, although its loop skips slot 0 and would    *)
(* never end if there were none.                                           *)
FindsRoom == pc = "insert" => Free(key_arr_, memory_size_, adding.key) # {}
=============================================================================
