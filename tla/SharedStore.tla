---------------------------- MODULE SharedStore -----------------------------
(***************************************************************************)
(* The store of one node (src/kv-store/kv-store.h, a Map of src/utils/     *)
(* map.h) as its threads use it: the thread of the node, which serves the  *)
(* messages of others, and the application on the node.  Both call the     *)
(* same Map, and nothing locks it.                                         *)
(*                                                                         *)
(* A step is one access to the shared arrays, or a load or store of size_. *)
(* The two threads race only in a build without assertions, so the asserts *)
(* of add are left out; and the array does not grow, for a ninth key ends  *)
(* most programs anyway (HashMap).                                         *)
(***************************************************************************)
EXTENDS Probing, FiniteSets

CONSTANTS Threads,
          MayCall,         \* the operations each thread uses
          Value,
          Null,            \* nullptr
          Garbage,         \* what an unwritten slot of new Value *[16] holds
          MemorySize,      \* memory_size_; 16 in the code
          MaxCalls         \* bound: calls each thread begins

Ops == {"add", "get", "waitAndGet"}

ASSUME SharedStoreAssumption ==
  /\ Key # {}
  /\ MayCall \in [Threads -> SUBSET Ops]
  /\ MemorySize \in Nat \ {0, 1}
  /\ Null \notin Key \cup Value /\ Garbage \notin Value \cup {Null}
  /\ MaxCalls \in [Threads -> Nat]

Adders == {t \in Threads : "add" \in MayCall[t]}

\* At most half of the slots are taken.
ASSUME NoGrowthAssumption ==
  \A t \in Adders : 2 * MaxCalls[t] * Cardinality(Adders) <= MemorySize

VARIABLES
  key_arr_, val_arr_, size_,
  pc,         \* where each thread is in its call
  op,         \* the operation; a waitAndGet is one until has is true, and
              \* then a get
  key, val,   \* its arguments
  i,          \* its loop variable
  reg,        \* size_ as it has loaded it
  calls,      \* how many calls it has begun
  known,      \* history: the value somebody's returned call showed of each key
  sure,       \* history: known[key] when the call began
  got         \* what the last get or waitAndGet returned, with its sure

mem  == <<key_arr_, val_arr_, size_>>
args == <<op, key, val>>
vars == <<mem, pc, args, i, reg, calls, known, sure, got>>

Init == /\ key_arr_ = [s \in Slots(MemorySize) |-> Null]
        /\ val_arr_ = [s \in Slots(MemorySize) |-> Garbage]
        /\ size_ = 0
        /\ pc = [t \in Threads |-> "idle"]
        /\ op = [t \in Threads |-> "get"]
        /\ key = [t \in Threads |-> CHOOSE k \in Key : TRUE]
        /\ val = [t \in Threads |-> Null]
        /\ i = [t \in Threads |-> 0]
        /\ reg = [t \in Threads |-> 0]
        /\ calls = [t \in Threads |-> 0]
        /\ known = [k \in Key |-> Null]
        /\ sure = [t \in Threads |-> Null]
        /\ got = [t \in Threads |-> [val |-> Null, sure |-> Null]]

Goto(t, label) == pc' = [pc EXCEPT ![t] = label]

\* for (size_t i = hash_index; ...
Start(t, k) == /\ Goto(t, "probe")
               /\ i' = [i EXCEPT ![t] = index(k, MemorySize)]

Last == MemorySize - 1

\* Mutant: the loop runs past the end of the array.
Following_NoWrap(s) == s + 1

\* The slot after the one just tested; the loop of a key whose hash leads to
\* slot 0 has none after the last.
Following(s) == IF s = Last THEN 1 ELSE s + 1

\* The loops of get and has end when they have come round; that of add goes on.
Around(k, s) == LET h == index(k, MemorySize)
                IN  \/ h = 0 /\ s = Last
                    \/ h = 1 /\ s = Last
                    \/ h > 1 /\ s = h - 1
-----------------------------------------------------------------------------
Begin(t, o, k, v) ==
  /\ pc[t] = "idle"
  /\ o \in MayCall[t]
  /\ calls[t] < MaxCalls[t]
  /\ calls' = [calls EXCEPT ![t] = @ + 1]
  /\ op' = [op EXCEPT ![t] = o]
  /\ key' = [key EXCEPT ![t] = k]
  /\ val' = [val EXCEPT ![t] = IF o = "add" THEN v ELSE Null]
  /\ sure' = [sure EXCEPT ![t] = known[k]]
  /\ Start(t, k)
  /\ UNCHANGED <<mem, reg, known, got>>

\* Mutant: add takes the slot of a key that is there already.
TakesSlot_OfKey(t) == key_arr_[i[t]] \in {Null, key[t]}

TakesSlot(t) == key_arr_[i[t]] = Null

\* One round of the loop of add.
ProbeAdd(t) ==
  /\ pc[t] = "probe"
  /\ op[t] = "add"
  /\ IF TakesSlot(t) THEN Goto(t, "slot") /\ UNCHANGED i
     ELSE IF index(key[t], MemorySize) = 0 /\ i[t] = Last
     THEN Goto(t, "idle") /\ UNCHANGED i
     ELSE i' = [i EXCEPT ![t] = Following(@)] /\ UNCHANGED pc
  /\ UNCHANGED <<mem, args, reg, calls, known, sure, got>>

\* The slot is written key first in the source; nothing keeps the compiler to
\* that order, and nothing tells other threads.
WriteFirst(t) ==
  /\ pc[t] = "slot"
  /\ \/ /\ key_arr_' = [key_arr_ EXCEPT ![i[t]] = key[t]]
        /\ Goto(t, "value")
        /\ UNCHANGED val_arr_
     \/ /\ val_arr_' = [val_arr_ EXCEPT ![i[t]] = val[t]]
        /\ Goto(t, "key")
        /\ UNCHANGED key_arr_
  /\ UNCHANGED <<size_, args, i, reg, calls, known, sure, got>>

WriteSecond(t) ==
  /\ \/ /\ pc[t] = "value"
        /\ val_arr_' = [val_arr_ EXCEPT ![i[t]] = val[t]]
        /\ UNCHANGED key_arr_
     \/ /\ pc[t] = "key"
        /\ key_arr_' = [key_arr_ EXCEPT ![i[t]] = key[t]]
        /\ UNCHANGED val_arr_
  /\ Goto(t, "load")
  /\ UNCHANGED <<size_, args, i, reg, calls, known, sure, got>>

\* size_++, and the return of add.
LoadSize(t) == /\ pc[t] = "load"
               /\ reg' = [reg EXCEPT ![t] = size_]
               /\ Goto(t, "store")
               /\ UNCHANGED <<mem, args, i, calls, known, sure, got>>

Known(k, v) == known' = [known EXCEPT ![k] = IF @ = Null THEN v ELSE @]

StoreSize(t) == /\ pc[t] = "store"
                /\ size_' = reg[t] + 1
                /\ Goto(t, "idle")
                /\ Known(key[t], val[t])
                /\ UNCHANGED <<key_arr_, val_arr_, args, i, reg, calls, sure, got>>
-----------------------------------------------------------------------------
Returns(t, v) == /\ got' = [got EXCEPT ![t] = [val |-> v, sure |-> sure[t]]]
                 /\ Goto(t, "idle")

\* Mutant: the next poll of waitAndGet goes on where the last one ended.
Restart_Stays(t) == Goto(t, "probe") /\ UNCHANGED i

\* sleep(5000), and has again.
Restart(t) == Start(t, key[t])

\* Mutant: any key that is there is taken for the one that is looked for.
ProbeHit_AnyKey(t) ==
  /\ pc[t] = "probe"
  /\ op[t] # "add"
  /\ key_arr_[i[t]] # Null
  /\ IF op[t] = "get" THEN Goto(t, "read") /\ UNCHANGED <<op, i>>
     ELSE op' = [op EXCEPT ![t] = "get"] /\ Start(t, key[t])
  /\ UNCHANGED <<mem, key, val, reg, calls, known, sure, got>>

\* One round of the loop of has or get: the key is there ...
ProbeHit(t) ==
  /\ pc[t] = "probe"
  /\ op[t] # "add"
  /\ key_arr_[i[t]] = key[t]
  /\ IF op[t] = "get" THEN Goto(t, "read") /\ UNCHANGED <<op, i>>
     ELSE op' = [op EXCEPT ![t] = "get"] /\ Start(t, key[t])
  /\ UNCHANGED <<mem, key, val, reg, calls, known, sure, got>>

\* ... or it is not, and the loop goes on or ends.
ProbeMiss(t) ==
  /\ pc[t] = "probe"
  /\ op[t] # "add"
  /\ key_arr_[i[t]] # key[t]
  /\ \/ /\ ~Around(key[t], i[t])
        /\ i' = [i EXCEPT ![t] = Following(@)]
        /\ UNCHANGED <<pc, got>>
     \/ /\ Around(key[t], i[t])
        /\ op[t] = "get"
        /\ Returns(t, Null)
        /\ UNCHANGED i
     \/ /\ Around(key[t], i[t])
        /\ op[t] = "waitAndGet"
        /\ Restart(t)
        /\ UNCHANGED got
  /\ UNCHANGED <<mem, args, reg, calls, known, sure>>

\* get reads the value after it has found the key.
ReadValue(t) ==
  /\ pc[t] = "read"
  /\ Returns(t, val_arr_[i[t]])
  /\ IF val_arr_[i[t]] = Garbage THEN UNCHANGED known
     ELSE Known(key[t], val_arr_[i[t]])
  /\ UNCHANGED <<mem, args, i, reg, calls, sure>>
-----------------------------------------------------------------------------
Proceed(t) == \/ ProbeAdd(t)
              \/ WriteFirst(t)
              \/ WriteSecond(t)
              \/ LoadSize(t)
              \/ StoreSize(t)
              \/ ProbeHit(t)
              \/ ProbeMiss(t)
              \/ ReadValue(t)

Next == \E t \in Threads :
          \/ \E o \in Ops, k \in Key, v \in Value : Begin(t, o, k, v)
          \/ Proceed(t)

Spec == Init /\ [][Next]_vars

\* The scheduler runs every thread that is in a call.
FairSpec == Spec /\ \A t \in Threads : WF_vars(Proceed(t))
-----------------------------------------------------------------------------
(* The values of the variables.                                            *)
TypeOK ==
  /\ key_arr_ \in [Slots(MemorySize) -> Key \cup {Null}]
  /\ val_arr_ \in [Slots(MemorySize) -> Value \cup {Garbage}]
  /\ size_ \in Nat
  /\ pc \in [Threads -> {"idle", "probe", "slot", "value", "key", "load",
                         "store", "read"}]
  /\ op \in [Threads -> Ops]
  /\ key \in [Threads -> Key]
  /\ val \in [Threads -> Value \cup {Null}]
  /\ i \in [Threads -> Slots(MemorySize)]
  /\ reg \in [Threads -> Nat]
  /\ calls \in [Threads -> Nat]
  /\ known \in [Key -> Value \cup {Null}]
  /\ sure \in [Threads -> Value \cup {Null}]
  /\ got \in [Threads -> [val : Value \cup {Null, Garbage},
                          sure : Value \cup {Null}]]

(* Once a call that has returned showed that a key has a value, be it the  *)
(* add of the key or a get, every call that begins later returns that      *)
(* value, although nothing is locked.  It holds as long as one thread      *)
(* adds; two that add at a time may take the same slot.                    *)
Settled == \A t \in Threads : got[t].sure # Null => got[t].val = got[t].sure

(* When no add runs, size_ counts the slots that hold a key, so the array  *)
(* grows when it has to.  It holds as long as one thread adds.             *)
SizeCounts ==
  (\A t \in Threads : pc[t] = "idle" \/ op[t] # "add")
    => size_ = Cardinality({s \in Slots(MemorySize) : key_arr_[s] # Null})

(* A get or waitAndGet returns a pointer that nobody wrote only while an   *)
(* add of the same key is between its two writes: the key is there before  *)
(* its value, and nothing is locked.                                       *)
TornOnlyInAdd ==
  [][\A t \in Threads :
       (pc[t] = "read" /\ pc'[t] = "idle" /\ got'[t].val = Garbage)
         => \E u \in Threads : pc[u] = "value" /\ key[u] = key[t]]_vars

(* A waitAndGet of a key that has a value returns, although the loops of   *)
(* its polls run while another thread changes the slots they look at.      *)
WaitEnds ==
  \A t \in Threads, k \in Key :
    (pc[t] # "idle" /\ op[t] = "waitAndGet" /\ key[t] = k /\ known[k] # Null)
      ~> (pc[t] = "idle")
=============================================================================
