-------------------------- MODULE SharedStoreProofs --------------------------
(***************************************************************************)
(* Theorems about the store of a node that threads use at once, for any    *)
(* keys, any hashes and any size of the array.  A lookup returns what      *)
(* nobody wrote only while an add of its key is halfway.  When one thread  *)
(* adds and any number look keys up, what a call has shown of a key, every *)
(* later call shows, and size_ counts the keys.                            *)
(***************************************************************************)
EXTENDS SharedStore, FiniteSetTheorems, TLAPS

OneAdder == \A s, t \in Adders : s = t

S == Slots(MemorySize)

\* The slots the loop for k meets before slot s.
Before(k, s) == {r \in Reachable(k, MemorySize) :
                   Distance(k, MemorySize, r) < Distance(k, MemorySize, s)}

\* Where a call is: an add from the choice of its slot to its return, and from
\* the moment its key is there.
Writing == {"slot", "value", "key", "load", "store"}
Written == {"value", "load", "store"}

\* What a call has in its loop.
InLoop ==
  \A t \in Threads :
    /\ op[t] = "add" => t \in Adders /\ val[t] \in Value
    /\ pc[t] \in Writing => op[t] = "add"
    /\ pc[t] = "read" => op[t] # "add"
    /\ pc[t] # "idle" => i[t] \in Reachable(key[t], MemorySize)

SType == TypeOK /\ InLoop

\* Every key lies behind taken slots, in the order its loop meets them.
Chained == \A s \in S : key_arr_[s] # Null =>
  /\ s \in Reachable(key_arr_[s], MemorySize)
  /\ \A r \in Before(key_arr_[s], s) : key_arr_[r] # Null

\* How far the add of a thread has come.
AddOf(t) ==
  /\ op[t] = "add" /\ pc[t] # "idle" =>
       \A r \in Before(key[t], i[t]) : key_arr_[r] # Null
  /\ pc[t] \in {"slot", "key"} => key_arr_[i[t]] = Null
  /\ pc[t] \in Written => key_arr_[i[t]] = key[t]
  /\ pc[t] \in {"key", "load", "store"} => val_arr_[i[t]] = val[t]
  /\ pc[t] \in {"slot", "value"} => val_arr_[i[t]] = Garbage

AddHas == \A t \in Threads : AddOf(t)

\* A slot without a key has no value but that of an add which writes it first.
Unwritten == \A s \in S : key_arr_[s] = Null =>
  \/ val_arr_[s] = Garbage
  \/ \E t \in Threads : pc[t] = "key" /\ i[t] = s

\* A key in the array is known, but for the add that has not returned.
Shown == \A s \in S : key_arr_[s] # Null =>
  \/ known[key_arr_[s]] # Null
  \/ \E t \in Threads : pc[t] \in Written /\ i[t] = s

\* Slot s is the first with key k.
FirstWith(k, s) == /\ s \in Reachable(k, MemorySize)
                   /\ key_arr_[s] = k
                   /\ \A r \in Before(k, s) : key_arr_[r] # k

\* What is known of a key is what lookups find.
KnownThere == \A k \in Key : known[k] # Null =>
  \E s \in S : FirstWith(k, s) /\ val_arr_[s] = known[k]

\* A lookup has not passed the key it is sure of.
LookupOf(t) ==
  /\ pc[t] # "idle" /\ op[t] # "add" /\ sure[t] # Null =>
       /\ known[key[t]] = sure[t]
       /\ \A r \in Before(key[t], i[t]) : key_arr_[r] # key[t]
  /\ pc[t] = "read" => key_arr_[i[t]] = key[t]

LookupHas == \A t \in Threads : LookupOf(t)

StoreInv == /\ SType /\ Chained /\ AddHas /\ Unwritten /\ Shown /\ KnownThere
            /\ LookupHas /\ Settled
-----------------------------------------------------------------------------
\* The loops.

LEMMA IndexSlot ==
  ASSUME NEW k \in Key
  PROVE  /\ index(k, MemorySize) \in S
         /\ index(k, MemorySize) \in Reachable(k, MemorySize)
         /\ Before(k, index(k, MemorySize)) = {}
<1>1. index(k, MemorySize) \in S
  BY ProbingAssumption, SharedStoreAssumption DEF index, Slots, S
<1>2. index(k, MemorySize) \in Reachable(k, MemorySize)
  BY <1>1 DEF Reachable, S
<1>3. \A r \in S : ~(Distance(k, MemorySize, r)
                       < Distance(k, MemorySize, index(k, MemorySize)))
  BY <1>1, SharedStoreAssumption DEF Distance, S, Slots
<1>4. Reachable(k, MemorySize) \subseteq S
  BY DEF Reachable, S
<1> QED
  BY <1>1, <1>2, <1>3, <1>4 DEF Before

\* The slot after s, and that no slot the loop meets is between.
LEMMA FollowingSlot ==
  ASSUME NEW k \in Key, NEW s \in Reachable(k, MemorySize),
         ~(index(k, MemorySize) = 0 /\ s = Last)
  PROVE  /\ Following(s) \in Reachable(k, MemorySize)
         /\ Before(k, Following(s)) \subseteq Before(k, s) \cup {s}
<1>1. index(k, MemorySize) \in S /\ s \in S
  BY IndexSlot DEF Reachable, S
<1>2. Following(s) \in Reachable(k, MemorySize)
  BY <1>1, SharedStoreAssumption DEF Following, Reachable, Last, S, Slots
<1>3. ASSUME NEW r \in Before(k, Following(s)) PROVE r \in Before(k, s) \cup {s}
  BY <1>1, SharedStoreAssumption DEF Following, Reachable, Last, S, Slots, Before,
     Distance
<1> QED
  BY <1>2, <1>3

\* A loop that has come round has met all slots it meets.
LEMMA AroundAll ==
  ASSUME NEW k \in Key, NEW s \in Reachable(k, MemorySize), Around(k, s)
  PROVE  Reachable(k, MemorySize) \subseteq Before(k, s) \cup {s}
<1>1. index(k, MemorySize) \in S /\ s \in S
  BY IndexSlot DEF Reachable, S
<1> SUFFICES ASSUME NEW r \in Reachable(k, MemorySize) PROVE r \in Before(k, s) \cup {s}
  OBVIOUS
<1> QED
  BY <1>1, SharedStoreAssumption DEF Around, Reachable, Last, S, Slots, Before, Distance

\* Of two slots the loop for k meets one before the other.
LEMMA BeforeOrder ==
  ASSUME NEW k \in Key, NEW r \in Reachable(k, MemorySize),
         NEW s \in Reachable(k, MemorySize)
  PROVE  r \in Before(k, s) \/ s \in Before(k, r) \/ r = s
<1>1. index(k, MemorySize) \in S /\ s \in S /\ r \in S
  BY IndexSlot DEF Reachable, S
<1> QED
  BY <1>1, SharedStoreAssumption DEF Reachable, S, Slots, Before, Distance

LEMMA BeforeMonotone ==
  ASSUME NEW k \in Key, NEW r \in Reachable(k, MemorySize),
         NEW s \in Before(k, r)
  PROVE  s # r /\ Before(k, s) \subseteq Before(k, r)
<1>1. index(k, MemorySize) \in S /\ s \in S /\ r \in S
  BY IndexSlot DEF Reachable, S, Before
<1> SUFFICES ASSUME NEW q \in Before(k, s) PROVE q \in Before(k, r) /\ s # r
  BY <1>1, SharedStoreAssumption DEF Before, Distance, S, Slots
<1>2. q \in S
  BY DEF Before, Reachable, S
<1> QED
  BY <1>1, <1>2, SharedStoreAssumption DEF Reachable, S, Slots, Before, Distance
-----------------------------------------------------------------------------
\* The types of the variables, and what each call has in its loop.

LEMMA STypeInit == Init => SType
<1> SUFFICES ASSUME Init PROVE SType
  OBVIOUS
<1>1. (CHOOSE k \in Key : TRUE) \in Key
  BY SharedStoreAssumption
<1>2. 0 \in Slots(MemorySize)
  BY SharedStoreAssumption DEF Slots
<1>3. TypeOK
  BY <1>1, <1>2, SharedStoreAssumption DEF Init, TypeOK, Ops
<1>4. InLoop
  BY DEF Init, InLoop, Writing
<1> QED
  BY <1>3, <1>4 DEF SType

LEMMA STypeBegin ==
  ASSUME SType, NEW t \in Threads, NEW o \in Ops, NEW k \in Key, NEW v \in Value,
         Begin(t, o, k, v)
  PROVE  SType'
<1>1. index(k, MemorySize) \in Slots(MemorySize)
      /\ index(k, MemorySize) \in Reachable(k, MemorySize)
  BY IndexSlot DEF S
<1>2. TypeOK'
  BY <1>1 DEF SType, TypeOK, Begin, Start, Goto, mem
<1>3. InLoop'
  <2> SUFFICES ASSUME NEW u \in Threads
               PROVE  /\ op'[u] = "add" => u \in Adders /\ val'[u] \in Value
                      /\ pc'[u] \in Writing => op'[u] = "add"
                      /\ pc'[u] = "read" => op'[u] # "add"
                      /\ pc'[u] # "idle" => i'[u] \in Reachable(key'[u], MemorySize)
    BY DEF InLoop
  <2>1. CASE u = t
    BY <2>1, <1>1 DEF SType, TypeOK, Begin, Start, Goto, Adders, Writing, InLoop
  <2>2. CASE u # t
    BY <2>2 DEF SType, TypeOK, Begin, Start, Goto, InLoop
  <2> QED
    BY <2>1, <2>2
<1> QED
  BY <1>2, <1>3 DEF SType

\* The next slot of a loop.
LEMMA STypeFollowing ==
  ASSUME SType, NEW t \in Threads, pc[t] # "idle",
         ~(index(key[t], MemorySize) = 0 /\ i[t] = Last)
  PROVE  /\ Following(i[t]) \in Slots(MemorySize)
         /\ Following(i[t]) \in Reachable(key[t], MemorySize)
<1>1. key[t] \in Key /\ i[t] \in Reachable(key[t], MemorySize)
  BY DEF SType, TypeOK, InLoop
<1>2. Following(i[t]) \in Reachable(key[t], MemorySize)
  BY <1>1, FollowingSlot
<1> QED
  BY <1>2 DEF Reachable

\* A loop that has not come round has a next slot.
LEMMA NotAround ==
  ASSUME NEW k, NEW s, ~Around(k, s)
  PROVE  ~(index(k, MemorySize) = 0 /\ s = Last)
BY DEF Around

LEMMA STypeProbeAdd ==
  ASSUME SType, NEW t \in Threads, ProbeAdd(t)
  PROVE  SType'
<1>1. CASE TakesSlot(t) /\ Goto(t, "slot") /\ UNCHANGED i
  BY <1>1 DEF SType, TypeOK, InLoop, ProbeAdd, Goto, Writing, mem, args
<1>2. CASE Goto(t, "idle") /\ UNCHANGED i
  BY <1>2 DEF SType, TypeOK, InLoop, ProbeAdd, Goto, Writing, mem, args
<1>3. CASE /\ ~(index(key[t], MemorySize) = 0 /\ i[t] = Last)
           /\ i' = [i EXCEPT ![t] = Following(@)] /\ UNCHANGED pc
  <2>1. /\ Following(i[t]) \in Slots(MemorySize)
        /\ Following(i[t]) \in Reachable(key[t], MemorySize)
    BY <1>3, STypeFollowing DEF ProbeAdd
  <2>2. TypeOK'
    BY <1>3, <2>1 DEF SType, TypeOK, ProbeAdd, mem, args
  <2>3. InLoop'
    BY <1>3, <2>1 DEF SType, TypeOK, InLoop, ProbeAdd, mem, args
  <2> QED
    BY <2>2, <2>3 DEF SType
<1> QED
  BY <1>1, <1>2, <1>3 DEF ProbeAdd

LEMMA STypeWriteFirst ==
  ASSUME SType, NEW t \in Threads, WriteFirst(t)
  PROVE  SType'
<1>1. op[t] = "add" /\ val[t] \in Value /\ key[t] \in Key
  BY DEF SType, TypeOK, InLoop, WriteFirst, Writing
<1>2. TypeOK'
  BY <1>1 DEF SType, TypeOK, WriteFirst, Goto, args
<1>3. InLoop'
  BY <1>1 DEF SType, TypeOK, InLoop, WriteFirst, Goto, Writing, args
<1> QED
  BY <1>2, <1>3 DEF SType

LEMMA STypeWriteSecond ==
  ASSUME SType, NEW t \in Threads, WriteSecond(t)
  PROVE  SType'
<1>1. op[t] = "add" /\ val[t] \in Value /\ key[t] \in Key
  BY DEF SType, TypeOK, InLoop, WriteSecond, Writing
<1>2. TypeOK'
  BY <1>1 DEF SType, TypeOK, WriteSecond, Goto, args
<1>3. InLoop'
  BY <1>1 DEF SType, TypeOK, InLoop, WriteSecond, Goto, Writing, args
<1> QED
  BY <1>2, <1>3 DEF SType

LEMMA STypeSize ==
  ASSUME SType, NEW t \in Threads, LoadSize(t) \/ StoreSize(t)
  PROVE  SType'
<1>1. op[t] = "add" /\ val[t] \in Value /\ key[t] \in Key /\ reg[t] + 1 \in Nat
  BY DEF SType, TypeOK, InLoop, LoadSize, StoreSize, Writing
<1>2. TypeOK'
  BY <1>1 DEF SType, TypeOK, LoadSize, StoreSize, Known, Goto, args, mem
<1>3. InLoop'
  BY <1>1 DEF SType, TypeOK, InLoop, LoadSize, StoreSize, Goto, Writing, args, mem
<1> QED
  BY <1>2, <1>3 DEF SType

LEMMA STypeProbeHit ==
  ASSUME SType, NEW t \in Threads, ProbeHit(t)
  PROVE  SType'
<1>1. key[t] \in Key /\ op[t] # "add"
  BY DEF SType, TypeOK, ProbeHit
<1>2. /\ index(key[t], MemorySize) \in Slots(MemorySize)
      /\ index(key[t], MemorySize) \in Reachable(key[t], MemorySize)
  BY <1>1, IndexSlot DEF S
<1>3. TypeOK'
  BY <1>1, <1>2 DEF SType, TypeOK, ProbeHit, Start, Goto, mem, Ops
<1>4. InLoop'
  BY <1>1, <1>2 DEF SType, TypeOK, InLoop, ProbeHit, Start, Goto, Writing, mem
<1> QED
  BY <1>3, <1>4 DEF SType

LEMMA STypeProbeMiss ==
  ASSUME SType, NEW t \in Threads, ProbeMiss(t)
  PROVE  SType'
<1>1. key[t] \in Key /\ op[t] # "add"
  BY DEF SType, TypeOK, ProbeMiss
<1>2. CASE /\ ~Around(key[t], i[t])
           /\ i' = [i EXCEPT ![t] = Following(@)]
           /\ UNCHANGED <<pc, got>>
  <2>1. /\ Following(i[t]) \in Slots(MemorySize)
        /\ Following(i[t]) \in Reachable(key[t], MemorySize)
    BY <1>2, NotAround, STypeFollowing DEF ProbeMiss
  <2>2. TypeOK'
    BY <1>2, <2>1 DEF SType, TypeOK, ProbeMiss, mem, args
  <2>3. InLoop'
    BY <1>2, <2>1 DEF SType, TypeOK, InLoop, ProbeMiss, mem, args
  <2> QED
    BY <2>2, <2>3 DEF SType
<1>3. CASE Returns(t, Null) /\ UNCHANGED i
  <2>1. TypeOK'
    BY <1>3 DEF SType, TypeOK, ProbeMiss, Returns, Goto, mem, args
  <2>2. InLoop'
    BY <1>3 DEF SType, TypeOK, InLoop, ProbeMiss, Returns, Goto, Writing, mem, args
  <2> QED
    BY <2>1, <2>2 DEF SType
<1>4. CASE Restart(t) /\ UNCHANGED got
  <2>1. /\ index(key[t], MemorySize) \in Slots(MemorySize)
        /\ index(key[t], MemorySize) \in Reachable(key[t], MemorySize)
    BY <1>1, IndexSlot DEF S
  <2>2. TypeOK'
    BY <1>4, <2>1 DEF SType, TypeOK, ProbeMiss, Restart, Start, Goto, mem, args
  <2>3. InLoop'
    BY <1>4, <2>1
    DEF SType, TypeOK, InLoop, ProbeMiss, Restart, Start, Goto, Writing, mem, args
  <2> QED
    BY <2>2, <2>3 DEF SType
<1> QED
  BY <1>2, <1>3, <1>4 DEF ProbeMiss

LEMMA STypeReadValue ==
  ASSUME SType, NEW t \in Threads, ReadValue(t)
  PROVE  SType'
<1>1. key[t] \in Key /\ val_arr_[i[t]] \in Value \cup {Garbage} /\ sure[t] \in Value \cup {Null}
  BY DEF SType, TypeOK
<1>2. TypeOK'
  BY <1>1 DEF SType, TypeOK, ReadValue, Returns, Known, Goto, mem, args
<1>3. InLoop'
  BY <1>1 DEF SType, TypeOK, InLoop, ReadValue, Returns, Goto, Writing, mem, args
<1> QED
  BY <1>2, <1>3 DEF SType

LEMMA STypeStep == SType /\ [Next]_vars => SType'
<1> SUFFICES ASSUME SType, [Next]_vars PROVE SType'
  OBVIOUS
<1>1. CASE UNCHANGED vars
  BY <1>1 DEF SType, TypeOK, InLoop, vars, mem, args
<1>2. ASSUME NEW t \in Threads,
             \E o \in Ops, k \in Key, v \in Value : Begin(t, o, k, v)
      PROVE  SType'
  BY <1>2, STypeBegin
<1>3. ASSUME NEW t \in Threads, Proceed(t)
      PROVE  SType'
  BY <1>3, STypeProbeAdd, STypeWriteFirst, STypeWriteSecond, STypeSize, STypeProbeHit,
     STypeProbeMiss, STypeReadValue DEF Proceed
<1> QED
  BY <1>1, <1>2, <1>3 DEF Next

(* The variables of the store and of its callers have the values of their  *)
(* types in every reachable state, however many threads add.               *)
THEOREM TypeCorrect == Spec => []TypeOK
<1>1. SType => TypeOK
  BY DEF SType
<1> QED
  BY <1>1, STypeInit, STypeStep, PTL DEF Spec
-----------------------------------------------------------------------------
\* A key without a value, however many threads add.

Adding(s, k) == \E u \in Threads : pc[u] = "value" /\ i[u] = s /\ key[u] = k

\* Such a key is that of an add between its writes, and what a lookup has found
\* there as well, even if another add has replaced it since.
Torn == /\ \A s \in S : key_arr_[s] # Null /\ val_arr_[s] = Garbage
                       => Adding(s, key_arr_[s])
        /\ \A t \in Threads : pc[t] = "read" /\ val_arr_[i[t]] = Garbage
                             => Adding(i[t], key[t])
        /\ \A t \in Threads : pc[t] = "key" => val_arr_[i[t]] # Garbage

\* A step of a thread that is not between its writes ends no add.
LEMMA AddsGoOn ==
  ASSUME SType, NEW t \in Threads, pc[t] # "value",
         \A u \in Threads \ {t} : pc'[u] = pc[u] /\ i'[u] = i[u] /\ key'[u] = key[u]
  PROVE  \A s, k : Adding(s, k) => Adding(s, k)'
BY DEF Adding

\* A step that writes nothing, unless t has found its key.
LEMMA TornUnwritten ==
  ASSUME SType, Torn, NEW t \in Threads, pc[t] # "value", pc'[t] # "key",
         UNCHANGED <<key_arr_, val_arr_>>,
         \A u \in Threads \ {t} : pc'[u] = pc[u] /\ i'[u] = i[u] /\ key'[u] = key[u],
         pc'[t] = "read" => i'[t] = i[t] /\ key'[t] = key[t] /\ i[t] \in S
                            /\ key_arr_[i[t]] = key[t] /\ key[t] # Null
  PROVE  Torn'
<1>1. \A s, k : Adding(s, k) => Adding(s, k)'
  BY AddsGoOn
<1>2. ASSUME NEW u \in Threads, pc'[u] = "read", val_arr_'[i'[u]] = Garbage
      PROVE  Adding(i[u], key[u]) /\ i'[u] = i[u] /\ key'[u] = key[u]
  BY <1>2 DEF Torn
<1>3. ASSUME NEW u \in Threads, pc'[u] = "key"
      PROVE  val_arr_'[i'[u]] # Garbage
  BY <1>3 DEF Torn
<1>4. ASSUME NEW s \in S, key_arr_'[s] # Null, val_arr_'[s] = Garbage
      PROVE  Adding(s, key_arr_'[s])
  BY <1>4 DEF Torn
<1>5. ASSUME NEW s \in S, key_arr_'[s] # Null, val_arr_'[s] = Garbage
      PROVE  Adding(s, key_arr_[s])'
  BY <1>1, <1>4, <1>5
<1>6. ASSUME NEW u \in Threads, pc'[u] = "read", val_arr_'[i'[u]] = Garbage
      PROVE  Adding(i[u], key[u])'
  BY <1>1, <1>2, <1>6
<1> QED
  BY <1>3, <1>5, <1>6 DEF Torn, S

\* With the value a slot is no longer torn.
LEMMA TornValue ==
  ASSUME SType, Torn, NEW t \in Threads, i[t] \in S, pc'[t] # "read",
         val_arr_' = [val_arr_ EXCEPT ![i[t]] = val[t]],
         \E label : pc' = [pc EXCEPT ![t] = label],
         UNCHANGED <<key_arr_, i, key>>
  PROVE  Torn'
<1>1. val[t] # Garbage /\ val_arr_' \in [S -> Value \cup {Garbage, Null}]
  BY SharedStoreAssumption DEF SType, TypeOK, S
<1>2. \A s \in S : s # i[t] => val_arr_'[s] = val_arr_[s]
  BY DEF SType, TypeOK, S
<1>3. val_arr_'[i[t]] # Garbage
  BY <1>1 DEF SType, TypeOK, S
<1>4. \A u \in Threads : i[u] \in S
  BY DEF SType, TypeOK, S
<1>5. \A u \in Threads \ {t} : pc'[u] = pc[u]
  BY DEF SType, TypeOK
<1>6. ASSUME NEW s, NEW k, s # i[t], Adding(s, k)
      PROVE  Adding(s, k)'
  BY <1>5, <1>6 DEF Adding
<1>7. ASSUME NEW s \in S, key_arr_'[s] # Null, val_arr_'[s] = Garbage
      PROVE  Adding(s, key_arr_[s])'
  BY <1>2, <1>3, <1>6, <1>7 DEF Torn
<1>8. ASSUME NEW u \in Threads, pc'[u] = "read", val_arr_'[i'[u]] = Garbage
      PROVE  Adding(i[u], key[u])'
  BY <1>2, <1>3, <1>4, <1>5, <1>6, <1>8 DEF Torn
<1>9. ASSUME NEW u \in Threads, pc'[u] = "key"
      PROVE  val_arr_'[i'[u]] # Garbage
  BY <1>2, <1>3, <1>4, <1>5, <1>9 DEF Torn
<1> QED
  BY <1>7, <1>8, <1>9 DEF Torn, S

\* The key of a slot is written, before its value or after it.
LEMMA TornKey ==
  ASSUME SType, Torn, NEW t \in Threads, i[t] \in S, pc[t] # "value",
         key_arr_' = [key_arr_ EXCEPT ![i[t]] = key[t]],
         \/ pc' = [pc EXCEPT ![t] = "value"]
         \/ pc' = [pc EXCEPT ![t] = "load"] /\ val_arr_[i[t]] # Garbage,
         UNCHANGED <<val_arr_, i, key>>
  PROVE  Torn'
<1>1. \A s \in S : s # i[t] => key_arr_'[s] = key_arr_[s]
  BY DEF SType, TypeOK, S
<1>2. key_arr_'[i[t]] = key[t]
  BY DEF SType, TypeOK, S
<1>3. \A u \in Threads \ {t} : pc'[u] = pc[u]
  BY DEF SType, TypeOK
<1>4. \A s, k : Adding(s, k) => Adding(s, k)'
  BY <1>3, AddsGoOn
<1>5. pc'[t] = "value" \/ (pc'[t] = "load" /\ val_arr_[i[t]] # Garbage)
  BY DEF SType, TypeOK
<1>6. pc'[t] = "value" => Adding(i[t], key[t])'
  BY DEF Adding
<1>7. ASSUME NEW s \in S, key_arr_'[s] # Null, val_arr_'[s] = Garbage
      PROVE  Adding(s, key_arr_[s])'
  BY <1>1, <1>2, <1>4, <1>5, <1>6, <1>7 DEF Torn
<1>8. ASSUME NEW u \in Threads, pc'[u] = "read", val_arr_'[i'[u]] = Garbage
      PROVE  Adding(i[u], key[u])'
  BY <1>3, <1>4, <1>5, <1>8 DEF Torn
<1>9. ASSUME NEW u \in Threads, pc'[u] = "key"
      PROVE  val_arr_'[i'[u]] # Garbage
  BY <1>3, <1>5, <1>9 DEF Torn
<1> QED
  BY <1>7, <1>8, <1>9 DEF Torn, S

LEMMA TornInit == Init => Torn
BY DEF Init, Torn, S

LEMMA TornStep == SType /\ Torn /\ [Next]_vars => Torn'
<1> SUFFICES ASSUME SType, Torn, [Next]_vars
             PROVE  Torn'
  OBVIOUS
<1>1. CASE UNCHANGED vars
  BY <1>1 DEF vars, mem, args, Torn, Adding, S
<1>2. ASSUME NEW t \in Threads, NEW o \in Ops, NEW k \in Key, NEW v \in Value,
             Begin(t, o, k, v)
      PROVE  Torn'
  <2>1. /\ pc[t] = "idle" /\ pc'[t] = "probe"
        /\ \A u \in Threads \ {t} : pc'[u] = pc[u] /\ i'[u] = i[u] /\ key'[u] = key[u]
    BY <1>2 DEF Begin, Start, Goto, SType, TypeOK
  <2>2. UNCHANGED <<key_arr_, val_arr_>>
    BY <1>2 DEF Begin, mem
  <2> QED
    BY <2>1, <2>2, TornUnwritten
<1>3. ASSUME NEW t \in Threads, Proceed(t)
      PROVE  Torn'
  <2>0. i[t] \in S /\ key[t] \in Key /\ key[t] # Null
    BY SharedStoreAssumption DEF SType, TypeOK, S
  <2>1. CASE WriteFirst(t)
    <3>1. pc[t] = "slot" /\ UNCHANGED <<i, key>>
      BY <2>1 DEF WriteFirst, args
    <3>2. CASE pc' = [pc EXCEPT ![t] = "value"]
      <4>1. UNCHANGED val_arr_ /\ key_arr_' = [key_arr_ EXCEPT ![i[t]] = key[t]]
        BY <2>1, <3>2 DEF WriteFirst, Goto, SType, TypeOK
      <4> QED
        BY <2>0, <3>1, <3>2, <4>1, TornKey
    <3>3. CASE pc' = [pc EXCEPT ![t] = "key"]
      <4>1. UNCHANGED key_arr_ /\ val_arr_' = [val_arr_ EXCEPT ![i[t]] = val[t]]
        BY <2>1, <3>3 DEF WriteFirst, Goto, SType, TypeOK
      <4>2. pc'[t] # "read"
        BY <3>3 DEF SType, TypeOK
      <4> QED
        BY <2>0, <3>1, <3>3, <4>1, <4>2, TornValue
    <3> QED
      BY <2>1, <3>2, <3>3 DEF WriteFirst, Goto
  <2>2. CASE WriteSecond(t)
    <3>1. UNCHANGED <<i, key>> /\ pc' = [pc EXCEPT ![t] = "load"] /\ pc'[t] = "load"
      BY <2>2 DEF WriteSecond, args, Goto, SType, TypeOK
    <3>2. CASE pc[t] = "value"
      <4>1. UNCHANGED key_arr_ /\ val_arr_' = [val_arr_ EXCEPT ![i[t]] = val[t]]
        BY <2>2, <3>2 DEF WriteSecond
      <4> QED
        BY <2>0, <3>1, <4>1, TornValue
    <3>3. CASE pc[t] = "key"
      <4>1. UNCHANGED val_arr_ /\ key_arr_' = [key_arr_ EXCEPT ![i[t]] = key[t]]
        BY <2>2, <3>3 DEF WriteSecond
      <4>2. val_arr_[i[t]] # Garbage
        BY <3>3 DEF Torn
      <4> QED
        BY <2>0, <3>1, <3>3, <4>1, <4>2, TornKey
    <3> QED
      BY <2>2, <3>2, <3>3 DEF WriteSecond
  <2>3. CASE ProbeHit(t)
    <3>1. /\ pc[t] = "probe" /\ pc'[t] \in {"probe", "read"}
          /\ \A u \in Threads \ {t} : pc'[u] = pc[u] /\ i'[u] = i[u]
          /\ pc'[t] = "read" => i' = i
          /\ key_arr_[i[t]] = key[t]
      BY <2>3 DEF ProbeHit, Start, Goto, SType, TypeOK
    <3>2. UNCHANGED <<key_arr_, val_arr_, key>>
      BY <2>3 DEF ProbeHit, mem
    <3> QED
      BY <2>0, <3>1, <3>2, TornUnwritten
  <2>4. CASE ProbeAdd(t) \/ LoadSize(t) \/ StoreSize(t) \/ ProbeMiss(t) \/ ReadValue(t)
    <3>1. UNCHANGED <<key_arr_, val_arr_, key>>
      BY <2>4 DEF ProbeAdd, LoadSize, StoreSize, ProbeMiss, ReadValue, mem, args
    <3>2. pc[t] # "value" /\ pc'[t] \notin {"key", "read"}
      BY <2>4 DEF ProbeAdd, LoadSize, StoreSize, ProbeMiss, ReadValue, Returns, Restart,
                  Start, Goto, SType, TypeOK
    <3>3. \A u \in Threads \ {t} : pc'[u] = pc[u] /\ i'[u] = i[u]
      BY <2>4 DEF ProbeAdd, LoadSize, StoreSize, ProbeMiss, ReadValue, Returns, Restart,
                  Start, Goto, SType, TypeOK
    <3> QED
      BY <3>1, <3>2, <3>3, TornUnwritten
  <2> QED
    BY <1>3, <2>1, <2>2, <2>3, <2>4 DEF Proceed
<1> QED
  BY <1>1, <1>2, <1>3 DEF Next

(* A lookup returns what an unwritten slot holds only while an add of the  *)
(* same key is between its writes, however many threads add (Map::add,     *)
(* Map::get, Node::waitAndGet).                                            *)
THEOREM TornReadsInAdds == Spec => TornOnlyInAdd
<1>1. SType /\ Torn /\ [Next]_vars =>
        [\A t \in Threads :
           (pc[t] = "read" /\ pc'[t] = "idle" /\ got'[t].val = Garbage)
             => \E u \in Threads : pc[u] = "value" /\ key[u] = key[t]]_vars
  <2> SUFFICES ASSUME SType, Torn, Next, NEW t \in Threads,
                      pc[t] = "read", pc'[t] = "idle", got'[t].val = Garbage
               PROVE  \E u \in Threads : pc[u] = "value" /\ key[u] = key[t]
    OBVIOUS
  <2>1. PICK u \in Threads : \/ \E o \in Ops, k \in Key, v \in Value : Begin(u, o, k, v)
                            \/ Proceed(u)
    BY DEF Next
  <2>2. u = t
    BY <2>1 DEF Begin, Proceed, ProbeAdd, WriteFirst, WriteSecond, LoadSize, StoreSize,
                ProbeHit, ProbeMiss, ReadValue, Returns, Restart, Start, Goto, SType, TypeOK
  <2>3. ReadValue(t)
    BY <2>1, <2>2 DEF Begin, Proceed, ProbeAdd, WriteFirst, WriteSecond, LoadSize,
                      StoreSize, ProbeHit, ProbeMiss
  <2>4. got'[t].val = val_arr_[i[t]]
    BY <2>3 DEF ReadValue, Returns, SType, TypeOK
  <2>5. Adding(i[t], key[t])
    BY <2>4 DEF Torn
  <2> QED
    BY <2>5 DEF Adding
<1> QED
  BY <1>1, STypeInit, STypeStep, TornInit, TornStep, PTL DEF Spec, TornOnlyInAdd
-----------------------------------------------------------------------------
\* What is in the slots, and what the calls know of it, as long as one thread
\* adds.

Slotwise == Chained /\ Unwritten /\ Shown /\ KnownThere

\* The one thread that adds.
LEMMA AddsAlone ==
  ASSUME OneAdder, SType, NEW t \in Threads, NEW u \in Threads,
         op[t] = "add", op[u] = "add" \/ pc[u] \in Writing
  PROVE  t = u
BY DEF OneAdder, SType, InLoop

LEMMA StoreInit == Init => StoreInv
<1> SUFFICES ASSUME Init PROVE StoreInv
  OBVIOUS
<1>1. SType
  BY STypeInit
<1>2. \A s \in S : key_arr_[s] = Null /\ val_arr_[s] = Garbage
  BY DEF Init, S
<1>3. Chained /\ Unwritten /\ Shown
  BY <1>2 DEF Chained, Unwritten, Shown
<1>4. AddHas /\ LookupHas /\ Settled /\ KnownThere
  BY DEF Init, AddHas, AddOf, LookupHas, LookupOf, Settled, KnownThere, Written
<1> QED
  BY <1>1, <1>3, <1>4 DEF StoreInv

\* Steps that only look at the slots.
LEMMA SlotsStay ==
  ASSUME Slotwise, UNCHANGED <<key_arr_, val_arr_, known>>,
         \A u \in Threads :
           /\ pc[u] = "key" => pc'[u] = "key" /\ i'[u] = i[u]
           /\ pc[u] \in Written => pc'[u] \in Written /\ i'[u] = i[u]
  PROVE  Slotwise'
<1>1. Chained'
  BY DEF Chained, Slotwise
<1>2. Unwritten'
  BY DEF Unwritten, Slotwise
<1>3. Shown'
  BY DEF Shown, Slotwise
<1>4. KnownThere'
  BY DEF KnownThere, FirstWith, Slotwise
<1> QED
  BY <1>1, <1>2, <1>3, <1>4 DEF Slotwise

\* A thread that does not move keeps what it has.
LEMMA AddStays ==
  ASSUME AddHas, NEW u \in Threads, UNCHANGED <<key_arr_, val_arr_>>,
         pc'[u] = pc[u], i'[u] = i[u], op'[u] = op[u], key'[u] = key[u], val'[u] = val[u]
  PROVE  AddOf(u)'
BY DEF AddHas, AddOf

LEMMA LookupStays ==
  ASSUME LookupHas, SType, NEW u \in Threads,
         pc'[u] = pc[u], i'[u] = i[u], op'[u] = op[u], key'[u] = key[u],
         sure'[u] = sure[u],
         \A s \in S : key_arr_[s] # Null => key_arr_'[s] = key_arr_[s],
         op[u] # "add" /\ pc[u] # "idle" /\ sure[u] # Null =>
           \A r \in Before(key[u], i[u]) :
             key_arr_[r] # key[u] => key_arr_'[r] # key[u],
         \A k \in Key : known[k] # Null => known'[k] = known[k]
  PROVE  LookupOf(u)'
<1>1. pc[u] = "read" => key_arr_[i[u]] # Null /\ i[u] \in S
  BY SharedStoreAssumption DEF LookupHas, LookupOf, SType, TypeOK, S
<1>2. sure[u] # Null /\ known[key[u]] = sure[u] => known'[key[u]] = sure[u]
  BY DEF SType, TypeOK
<1> QED
  BY <1>1, <1>2 DEF LookupHas, LookupOf

\* A thread that looks at the slots moves on, the others do not.
LEMMA OneMoves ==
  ASSUME StoreInv, NEW t \in Threads,
         UNCHANGED <<key_arr_, val_arr_, known>>,
         pc[t] \notin Writing, pc'[t] # "key",
         \A u \in Threads \ {t} :
           /\ pc'[u] = pc[u] /\ i'[u] = i[u] /\ op'[u] = op[u] /\ key'[u] = key[u]
           /\ val'[u] = val[u] /\ sure'[u] = sure[u],
         AddOf(t)', LookupOf(t)', Settled', SType'
  PROVE  StoreInv'
<1> USE DEF StoreInv
<1>1. \A u \in Threads :
        /\ pc[u] = "key" => pc'[u] = "key" /\ i'[u] = i[u]
        /\ pc[u] \in Written => pc'[u] \in Written /\ i'[u] = i[u]
  BY DEF Written, Writing
<1>2. Slotwise'
  BY <1>1, SlotsStay DEF Slotwise
<1>3. ASSUME NEW u \in Threads PROVE AddOf(u)' /\ LookupOf(u)'
  BY <1>3, AddStays, LookupStays
<1> QED
  BY <1>2, <1>3 DEF Slotwise, AddHas, LookupHas

LEMMA StoreBegin ==
  ASSUME StoreInv, NEW t \in Threads, NEW o \in Ops, NEW k \in Key, NEW v \in Value,
         Begin(t, o, k, v), SType'
  PROVE  StoreInv'
<1>1. /\ pc[t] = "idle" /\ pc'[t] = "probe" /\ i'[t] = index(k, MemorySize)
      /\ key'[t] = k /\ sure'[t] = known[k]
      /\ UNCHANGED <<key_arr_, val_arr_, known, got>>
  BY DEF Begin, Start, Goto, mem, StoreInv, SType, TypeOK
<1>2. \A u \in Threads \ {t} :
        /\ pc'[u] = pc[u] /\ i'[u] = i[u] /\ op'[u] = op[u] /\ key'[u] = key[u]
        /\ val'[u] = val[u] /\ sure'[u] = sure[u]
  BY DEF Begin, Start, Goto, StoreInv, SType, TypeOK
<1>3. Before(k, index(k, MemorySize)) = {}
  BY IndexSlot
<1>4. AddOf(t)' /\ LookupOf(t)'
  BY <1>1, <1>3 DEF AddOf, LookupOf, Written
<1>5. Settled'
  BY <1>1 DEF Settled, StoreInv
<1> QED
  BY <1>1, <1>2, <1>4, <1>5, OneMoves DEF Writing

LEMMA StoreProbeAdd ==
  ASSUME OneAdder, StoreInv, NEW t \in Threads, ProbeAdd(t), SType'
  PROVE  StoreInv'
<1>1. /\ pc[t] = "probe" /\ op[t] = "add" /\ key[t] \in Key /\ i[t] \in S
      /\ i[t] \in Reachable(key[t], MemorySize)
      /\ UNCHANGED <<key_arr_, val_arr_, known, op, key, val, sure, got>>
  BY DEF ProbeAdd, mem, args, StoreInv, SType, TypeOK, InLoop, S
<1>2. \A u \in Threads \ {t} :
        /\ pc'[u] = pc[u] /\ i'[u] = i[u] /\ op'[u] = op[u] /\ key'[u] = key[u]
        /\ val'[u] = val[u] /\ sure'[u] = sure[u]
  BY DEF ProbeAdd, Goto, args, StoreInv, SType, TypeOK
<1>3. Settled'
  BY <1>1 DEF Settled, StoreInv
<1>4. LookupOf(t)' /\ AddOf(t)' /\ pc'[t] # "key"
  <2>1. CASE TakesSlot(t) /\ Goto(t, "slot") /\ UNCHANGED i
    <3>1. pc'[t] = "slot" /\ i'[t] = i[t] /\ key_arr_[i[t]] = Null
      BY <2>1 DEF Goto, TakesSlot, StoreInv, SType, TypeOK
    <3>2. val_arr_[i[t]] = Garbage
      <4>1. ASSUME NEW u \in Threads, pc[u] = "key" PROVE FALSE
        BY <4>1, <1>1, AddsAlone DEF StoreInv, Writing
      <4> QED
        BY <4>1, <3>1, <1>1 DEF StoreInv, Unwritten
    <3> QED
      BY <3>1, <3>2, <1>1 DEF AddOf, LookupOf, AddHas, StoreInv, Written
  <2>2. CASE Goto(t, "idle") /\ UNCHANGED i
    <3>1. pc'[t] = "idle"
      BY <2>2 DEF Goto, StoreInv, SType, TypeOK
    <3> QED
      BY <3>1 DEF AddOf, LookupOf, Written
  <2>3. CASE /\ ~TakesSlot(t)
             /\ ~(index(key[t], MemorySize) = 0 /\ i[t] = Last)
             /\ i' = [i EXCEPT ![t] = Following(@)] /\ UNCHANGED pc
    <3>1. pc'[t] = "probe" /\ i'[t] = Following(i[t]) /\ key_arr_[i[t]] # Null
      BY <2>3, <1>1 DEF TakesSlot, StoreInv, SType, TypeOK
    <3>2. Before(key[t], Following(i[t])) \subseteq Before(key[t], i[t]) \cup {i[t]}
      BY <2>3, <1>1, FollowingSlot
    <3> QED
      BY <3>1, <3>2, <1>1 DEF AddOf, LookupOf, AddHas, StoreInv, Written
  <2> QED
    BY <2>1, <2>2, <2>3 DEF ProbeAdd
<1> QED
  BY <1>1, <1>2, <1>3, <1>4, OneMoves DEF Writing

LEMMA StoreLoadSize ==
  ASSUME OneAdder, StoreInv, NEW t \in Threads, LoadSize(t), SType'
  PROVE  StoreInv'
<1> USE DEF StoreInv
<1>1. /\ pc[t] = "load" /\ pc'[t] = "store"
      /\ UNCHANGED <<key_arr_, val_arr_, known, op, key, val, i, sure, got>>
  BY DEF LoadSize, Goto, mem, args, SType, TypeOK
<1>2. \A u \in Threads \ {t} : pc'[u] = pc[u]
  BY DEF LoadSize, Goto, SType, TypeOK
<1>3. \A u \in Threads :
        /\ pc[u] = "key" => pc'[u] = "key" /\ i'[u] = i[u]
        /\ pc[u] \in Written => pc'[u] \in Written /\ i'[u] = i[u]
  BY <1>1, <1>2 DEF Written
<1>4. Slotwise'
  BY <1>1, <1>3, SlotsStay DEF Slotwise
<1>5. AddHas'
  <2> SUFFICES ASSUME NEW u \in Threads PROVE AddOf(u)'
    BY DEF AddHas
  <2>1. CASE u = t
    BY <2>1, <1>1 DEF AddHas, AddOf, Written
  <2>2. CASE u # t
    BY <2>2, <1>1, <1>2, AddStays
  <2> QED
    BY <2>1, <2>2
<1>6. LookupHas'
  <2> SUFFICES ASSUME NEW u \in Threads PROVE LookupOf(u)'
    BY DEF LookupHas
  <2>1. CASE u = t
    BY <2>1, <1>1 DEF LookupOf, SType, InLoop, Writing
  <2>2. CASE u # t
    BY <2>2, <1>1, <1>2, LookupStays
  <2> QED
    BY <2>1, <2>2
<1> QED
  BY <1>1, <1>4, <1>5, <1>6 DEF Slotwise, Settled

LEMMA StoreProbeHit ==
  ASSUME StoreInv, NEW t \in Threads, ProbeHit(t), SType'
  PROVE  StoreInv'
<1>1. /\ pc[t] = "probe" /\ op[t] # "add" /\ key_arr_[i[t]] = key[t] /\ key[t] \in Key
      /\ UNCHANGED <<key_arr_, val_arr_, known, key, val, sure, got>>
  BY DEF ProbeHit, mem, StoreInv, SType, TypeOK
<1>2. \A u \in Threads \ {t} :
        /\ pc'[u] = pc[u] /\ i'[u] = i[u] /\ op'[u] = op[u] /\ key'[u] = key[u]
        /\ val'[u] = val[u] /\ sure'[u] = sure[u]
  BY DEF ProbeHit, Start, Goto, StoreInv, SType, TypeOK
<1>3. Settled'
  BY <1>1 DEF Settled, StoreInv
<1>4. LookupOf(t)' /\ AddOf(t)' /\ pc'[t] # "key"
  <2>1. CASE Goto(t, "read") /\ UNCHANGED <<op, i>>
    BY <2>1, <1>1 DEF Goto, AddOf, LookupOf, LookupHas, Written, StoreInv, SType, TypeOK
  <2>2. CASE op' = [op EXCEPT ![t] = "get"] /\ Start(t, key[t])
    <3>1. pc'[t] = "probe" /\ op'[t] = "get" /\ i'[t] = index(key[t], MemorySize)
      BY <2>2 DEF Start, Goto, StoreInv, SType, TypeOK
    <3>2. Before(key[t], index(key[t], MemorySize)) = {}
      BY <1>1, IndexSlot
    <3> QED
      BY <3>1, <3>2, <1>1 DEF AddOf, LookupOf, LookupHas, Written, StoreInv
  <2> QED
    BY <2>1, <2>2 DEF ProbeHit
<1> QED
  BY <1>1, <1>2, <1>3, <1>4, OneMoves DEF Writing

LEMMA StoreProbeMiss ==
  ASSUME StoreInv, NEW t \in Threads, ProbeMiss(t), SType'
  PROVE  StoreInv'
<1>1. /\ pc[t] = "probe" /\ op[t] # "add" /\ key_arr_[i[t]] # key[t] /\ key[t] \in Key
      /\ i[t] \in S /\ i[t] \in Reachable(key[t], MemorySize)
      /\ UNCHANGED <<key_arr_, val_arr_, known, op, key, val, sure>>
  BY DEF ProbeMiss, mem, args, StoreInv, SType, TypeOK, InLoop, S
<1>2. \A u \in Threads \ {t} :
        /\ pc'[u] = pc[u] /\ i'[u] = i[u] /\ op'[u] = op[u] /\ key'[u] = key[u]
        /\ val'[u] = val[u] /\ sure'[u] = sure[u]
  BY DEF ProbeMiss, Restart, Returns, Start, Goto, args, StoreInv, SType, TypeOK
<1>3. LookupOf(t)' /\ AddOf(t)' /\ Settled' /\ pc'[t] # "key"
  <2>1. CASE /\ ~Around(key[t], i[t])
             /\ i' = [i EXCEPT ![t] = Following(@)]
             /\ UNCHANGED <<pc, got>>
    <3>1. pc'[t] = "probe" /\ i'[t] = Following(i[t])
      BY <2>1, <1>1 DEF StoreInv, SType, TypeOK
    <3>2. Before(key[t], Following(i[t])) \subseteq Before(key[t], i[t]) \cup {i[t]}
      BY <2>1, <1>1, NotAround, FollowingSlot
    <3> QED
      BY <3>1, <3>2, <2>1, <1>1
      DEF AddOf, LookupOf, LookupHas, StoreInv, Settled, Written
  <2>2. CASE Around(key[t], i[t]) /\ Returns(t, Null) /\ UNCHANGED i
    \* The loop has met every slot, so the caller was not sure of the key.
    <3>1. sure[t] = Null
      <4> SUFFICES ASSUME sure[t] # Null PROVE FALSE
        OBVIOUS
      <4>1. /\ known[key[t]] # Null
            /\ \A r \in Before(key[t], i[t]) : key_arr_[r] # key[t]
        BY <1>1 DEF StoreInv, LookupHas, LookupOf
      <4>2. PICK s \in S : FirstWith(key[t], s)
        BY <1>1, <4>1 DEF StoreInv, KnownThere
      <4>3. s \in Before(key[t], i[t]) \cup {i[t]}
        BY <4>2, <2>2, <1>1, AroundAll DEF FirstWith
      <4> QED
        BY <4>1, <4>2, <4>3, <1>1 DEF FirstWith
    <3>2. pc'[t] = "idle" /\ got' = [got EXCEPT ![t] = [val |-> Null, sure |-> Null]]
      BY <2>2, <3>1 DEF Returns, Goto, StoreInv, SType, TypeOK
    <3>3. Settled'
      BY <3>2 DEF Settled, StoreInv, SType, TypeOK
    <3> QED
      BY <3>2, <3>3 DEF AddOf, LookupOf, Written
  <2>3. CASE Restart(t) /\ UNCHANGED got
    <3>1. pc'[t] = "probe" /\ i'[t] = index(key[t], MemorySize)
      BY <2>3 DEF Restart, Start, Goto, StoreInv, SType, TypeOK
    <3>2. Before(key[t], index(key[t], MemorySize)) = {}
      BY <1>1, IndexSlot
    <3> QED
      BY <3>1, <3>2, <2>3, <1>1
      DEF AddOf, LookupOf, LookupHas, Written, StoreInv, Settled
  <2> QED
    BY <2>1, <2>2, <2>3 DEF ProbeMiss
<1> QED
  BY <1>1, <1>2, <1>3, OneMoves DEF Writing

\* What the thread that adds has in its slot when it writes there.
LEMMA AdderHas ==
  ASSUME OneAdder, StoreInv, NEW t \in Threads, op[t] = "add", pc[t] # "idle"
  PROVE  /\ key[t] \in Key /\ key[t] # Null /\ i[t] \in S
         /\ val[t] \in Value /\ val[t] # Null
         /\ i[t] \in Reachable(key[t], MemorySize)
         /\ AddOf(t)
         /\ \A u \in Threads : op[u] = "add" \/ pc[u] \in Writing => u = t
<1>1. /\ key[t] \in Key /\ key[t] # Null /\ i[t] \in S
      /\ val[t] \in Value /\ val[t] # Null
      /\ i[t] \in Reachable(key[t], MemorySize)
  BY SharedStoreAssumption DEF StoreInv, SType, TypeOK, InLoop, S
<1>2. AddOf(t)
  BY DEF StoreInv, AddHas
<1>3. \A u \in Threads : op[u] = "add" \/ pc[u] \in Writing => u = t
  BY AddsAlone DEF StoreInv
<1> QED
  BY <1>1, <1>2, <1>3

\* The add writes its key to the slot it has chosen.
LEMMA StoreKeyWrite ==
  ASSUME OneAdder, StoreInv, NEW t \in Threads, op[t] = "add", pc[t] \in {"slot", "key"},
         key_arr_' = [key_arr_ EXCEPT ![i[t]] = key[t]],
         Goto(t, IF pc[t] = "slot" THEN "value" ELSE "load"),
         UNCHANGED <<val_arr_, args, i, known, sure, got>>, SType'
  PROVE  StoreInv'
<1>1. /\ key[t] \in Key /\ key[t] # Null /\ i[t] \in S
      /\ i[t] \in Reachable(key[t], MemorySize)
      /\ AddOf(t)
      /\ \A u \in Threads : op[u] = "add" \/ pc[u] \in Writing => u = t
  BY AdderHas
<1>2. /\ key_arr_[i[t]] = Null
      /\ \A r \in Before(key[t], i[t]) : key_arr_[r] # Null
      /\ pc[t] = "key" => val_arr_[i[t]] = val[t]
      /\ pc[t] = "slot" => val_arr_[i[t]] = Garbage
  BY <1>1 DEF AddOf
<1>3. /\ key_arr_'[i[t]] = key[t]
      /\ \A s \in S \ {i[t]} : key_arr_'[s] = key_arr_[s]
  BY <1>1 DEF StoreInv, SType, TypeOK, S
<1>4. /\ pc'[t] = IF pc[t] = "slot" THEN "value" ELSE "load"
      /\ \A u \in Threads \ {t} : pc'[u] = pc[u]
  BY DEF Goto, StoreInv, SType, TypeOK
<1>5. \A k \in Key, s \in S : Before(k, s) \subseteq S
  BY DEF Before, Reachable, S
<1>6. Chained'
  <2> SUFFICES ASSUME NEW s \in S, key_arr_'[s] # Null
               PROVE  /\ s \in Reachable(key_arr_'[s], MemorySize)
                      /\ \A r \in Before(key_arr_'[s], s) : key_arr_'[r] # Null
    BY DEF Chained
  <2>1. \A r \in S : key_arr_[r] # Null => key_arr_'[r] # Null
    BY <1>1, <1>3
  <2>2. CASE s = i[t]
    BY <2>1, <2>2, <1>1, <1>2, <1>3, <1>5
  <2>3. CASE s # i[t]
    <3>1. key_arr_'[s] = key_arr_[s] /\ key_arr_[s] \in Key
      BY <2>3, <1>3 DEF StoreInv, SType, TypeOK, S
    <3> QED
      BY <3>1, <2>1, <1>5 DEF StoreInv, Chained
  <2> QED
    BY <2>2, <2>3
<1>7. Unwritten'
  <2> SUFFICES ASSUME NEW s \in S, key_arr_'[s] = Null PROVE val_arr_'[s] = Garbage
    BY DEF Unwritten
  <2>1. s # i[t] /\ key_arr_[s] = Null
    BY <1>1, <1>3
  <2> QED
    BY <2>1, <1>1 DEF StoreInv, Unwritten, Writing
<1>8. Shown'
  <2> SUFFICES ASSUME NEW s \in S, key_arr_'[s] # Null
               PROVE  \/ known'[key_arr_'[s]] # Null
                      \/ \E u \in Threads : pc'[u] \in Written /\ i'[u] = s
    BY DEF Shown
  <2>1. CASE s = i[t]
    BY <2>1, <1>4 DEF Written
  <2>2. CASE s # i[t]
    <3>1. key_arr_'[s] = key_arr_[s]
      BY <2>2, <1>3
    <3>2. ~\E u \in Threads : pc[u] \in Written /\ i[u] = s
      BY <1>1 DEF Written, Writing
    <3> QED
      BY <3>1, <3>2 DEF StoreInv, Shown
  <2> QED
    BY <2>1, <2>2
<1>9. KnownThere'
  <2> SUFFICES ASSUME NEW k \in Key, known[k] # Null
               PROVE  \E s \in S : FirstWith(k, s)' /\ val_arr_[s] = known[k]
    BY DEF KnownThere
  <2>1. PICK s \in S : FirstWith(k, s) /\ val_arr_[s] = known[k]
    BY DEF StoreInv, KnownThere
  <2>2. k # Null
    BY SharedStoreAssumption
  <2>3. s # i[t] /\ \A r \in Before(k, s) : r \in S \ {i[t]}
    BY <2>1, <2>2, <1>2, <1>5 DEF FirstWith, StoreInv, Chained
  <2>4. FirstWith(k, s)'
    BY <2>1, <2>3, <1>3 DEF FirstWith
  <2> QED
    BY <2>1, <2>4
<1>10. AddHas'
  <2> SUFFICES ASSUME NEW u \in Threads PROVE AddOf(u)'
    BY DEF AddHas
  <2>1. CASE u = t
    <3>1. \A r \in Before(key[t], i[t]) : r \in S /\ key_arr_'[r] # Null
      BY <1>1, <1>2, <1>3, <1>5
    <3> QED
      BY <2>1, <3>1, <1>2, <1>3, <1>4 DEF AddOf, Written, args
  <2>2. CASE u # t
    BY <2>2, <1>1, <1>4 DEF AddOf, Written, Writing, args
  <2> QED
    BY <2>1, <2>2
<1>11. LookupHas'
  <2> SUFFICES ASSUME NEW u \in Threads PROVE LookupOf(u)'
    BY DEF LookupHas
  <2>1. CASE u = t
    BY <2>1, <1>4 DEF LookupOf, args
  <2>2. CASE u # t
    <3>1. ASSUME op[u] # "add", pc[u] # "idle", sure[u] # Null,
                 NEW r \in Before(key[u], i[u]),
                 key_arr_[r] # key[u]
          PROVE  key_arr_'[r] # key[u]
      <4> SUFFICES ASSUME key_arr_'[r] = key[u] PROVE FALSE
        OBVIOUS
      <4>1. /\ key[u] \in Key /\ key[u] # Null /\ i[u] \in S
            /\ i[u] \in Reachable(key[u], MemorySize)
        BY <3>1, SharedStoreAssumption DEF StoreInv, SType, TypeOK, InLoop, S
      <4>2. /\ known[key[u]] # Null
            /\ \A q \in Before(key[u], i[u]) : key_arr_[q] # key[u]
        BY <3>1 DEF StoreInv, LookupHas, LookupOf
      <4>3. PICK s \in S : FirstWith(key[u], s)
        BY <4>1, <4>2 DEF StoreInv, KnownThere
      <4>4. r \in S /\ r \in Reachable(key[u], MemorySize)
        BY <4>1, <1>5 DEF Before
      <4>5. r = i[t]
        BY <3>1, <4>4, <1>3
      <4>6. r \notin Before(key[u], s) /\ r # s
        BY <4>1, <4>3, <4>5, <1>2 DEF FirstWith, StoreInv, Chained
      <4>7. s \in Before(key[u], r)
        BY <4>1, <4>3, <4>4, <4>6, BeforeOrder DEF FirstWith
      <4>8. s \in Before(key[u], i[u])
        BY <4>1, <4>7, BeforeMonotone
      <4> QED
        BY <4>2, <4>3, <4>8 DEF FirstWith
    <3>2. \A s \in S : key_arr_[s] # Null => key_arr_'[s] = key_arr_[s]
      BY <1>2, <1>3
    <3> QED
      BY <2>2, <3>1, <3>2, <1>4, LookupStays DEF StoreInv, args
  <2> QED
    BY <2>1, <2>2
<1>12. Settled'
  BY DEF Settled, StoreInv
<1> QED
  BY <1>6, <1>7, <1>8, <1>9, <1>10, <1>11, <1>12 DEF StoreInv

\* The add writes its value to the slot it has chosen.
LEMMA StoreValueWrite ==
  ASSUME OneAdder, StoreInv, NEW t \in Threads, op[t] = "add", pc[t] \in {"slot", "value"},
         val_arr_' = [val_arr_ EXCEPT ![i[t]] = val[t]],
         Goto(t, IF pc[t] = "slot" THEN "key" ELSE "load"),
         UNCHANGED <<key_arr_, args, i, known, sure, got>>, SType'
  PROVE  StoreInv'
<1>1. /\ key[t] \in Key /\ key[t] # Null /\ i[t] \in S
      /\ AddOf(t)
      /\ \A u \in Threads : op[u] = "add" \/ pc[u] \in Writing => u = t
  BY AdderHas
<1>2. /\ pc[t] = "slot" => key_arr_[i[t]] = Null
      /\ pc[t] = "value" => key_arr_[i[t]] = key[t]
      /\ val_arr_[i[t]] = Garbage
      /\ \A r \in Before(key[t], i[t]) : key_arr_[r] # Null
  BY <1>1 DEF AddOf, Written
<1>3. /\ val_arr_'[i[t]] = val[t]
      /\ \A s \in S \ {i[t]} : val_arr_'[s] = val_arr_[s]
  BY <1>1 DEF StoreInv, SType, TypeOK, S
<1>4. /\ pc'[t] = IF pc[t] = "slot" THEN "key" ELSE "load"
      /\ \A u \in Threads \ {t} : pc'[u] = pc[u]
  BY DEF Goto, StoreInv, SType, TypeOK
<1>5. Chained'
  BY DEF Chained, StoreInv
<1>6. Unwritten'
  <2> SUFFICES ASSUME NEW s \in S, key_arr_[s] = Null
               PROVE  \/ val_arr_'[s] = Garbage
                      \/ \E u \in Threads : pc'[u] = "key" /\ i'[u] = s
    BY DEF Unwritten
  <2>1. CASE s = i[t]
    BY <2>1, <1>1, <1>2, <1>4
  <2>2. CASE s # i[t]
    <3>1. ~\E u \in Threads : pc[u] = "key"
      BY <1>1 DEF Writing
    <3> QED
      BY <2>2, <3>1, <1>3 DEF StoreInv, Unwritten
  <2> QED
    BY <2>1, <2>2
<1>7. Shown'
  <2>1. \A u \in Threads : pc[u] \in Written => pc'[u] \in Written
    BY <1>4 DEF Written
  <2> QED
    BY <2>1 DEF StoreInv, Shown
<1>8. KnownThere'
  <2> SUFFICES ASSUME NEW k \in Key, known[k] # Null
               PROVE  \E s \in S : FirstWith(k, s)' /\ val_arr_'[s] = known[k]
    BY DEF KnownThere
  <2>1. PICK s \in S : FirstWith(k, s) /\ val_arr_[s] = known[k]
    BY DEF StoreInv, KnownThere
  <2>2. known[k] # Garbage
    BY SharedStoreAssumption DEF StoreInv, SType, TypeOK
  <2>3. s # i[t]
    BY <2>1, <2>2, <1>2
  <2>4. FirstWith(k, s)'
    BY <2>1 DEF FirstWith
  <2> QED
    BY <2>1, <2>3, <2>4, <1>3
<1>9. AddHas'
  <2> SUFFICES ASSUME NEW u \in Threads PROVE AddOf(u)'
    BY DEF AddHas
  <2>1. CASE u = t
    BY <2>1, <1>2, <1>3, <1>4 DEF AddOf, Written, args
  <2>2. CASE u # t
    BY <2>2, <1>1, <1>4 DEF AddOf, Written, Writing, args
  <2> QED
    BY <2>1, <2>2
<1>10. LookupHas'
  <2> SUFFICES ASSUME NEW u \in Threads PROVE LookupOf(u)'
    BY DEF LookupHas
  <2>1. CASE u = t
    BY <2>1, <1>4 DEF LookupOf, args
  <2>2. CASE u # t
    BY <2>2, <1>4, LookupStays DEF StoreInv, args
  <2> QED
    BY <2>1, <2>2
<1>11. Settled'
  BY DEF Settled, StoreInv
<1> QED
  BY <1>5, <1>6, <1>7, <1>8, <1>9, <1>10, <1>11 DEF StoreInv

LEMMA StoreWrites ==
  ASSUME OneAdder, StoreInv, NEW t \in Threads, WriteFirst(t) \/ WriteSecond(t), SType'
  PROVE  StoreInv'
<1>1. op[t] = "add" /\ pc[t] \in {"slot", "key", "value"}
  BY DEF WriteFirst, WriteSecond, StoreInv, SType, InLoop, Writing
<1>2. CASE /\ pc[t] = "slot"
           /\ key_arr_' = [key_arr_ EXCEPT ![i[t]] = key[t]]
           /\ Goto(t, "value")
           /\ UNCHANGED <<val_arr_, args, i, known, sure, got>>
  BY <1>1, <1>2, StoreKeyWrite
<1>3. CASE /\ pc[t] = "slot"
           /\ val_arr_' = [val_arr_ EXCEPT ![i[t]] = val[t]]
           /\ Goto(t, "key")
           /\ UNCHANGED <<key_arr_, args, i, known, sure, got>>
  BY <1>1, <1>3, StoreValueWrite
<1>4. CASE /\ pc[t] = "value"
           /\ val_arr_' = [val_arr_ EXCEPT ![i[t]] = val[t]]
           /\ Goto(t, "load")
           /\ UNCHANGED <<key_arr_, args, i, known, sure, got>>
  BY <1>1, <1>4, StoreValueWrite
<1>5. CASE /\ pc[t] = "key"
           /\ key_arr_' = [key_arr_ EXCEPT ![i[t]] = key[t]]
           /\ Goto(t, "load")
           /\ UNCHANGED <<val_arr_, args, i, known, sure, got>>
  BY <1>1, <1>5, StoreKeyWrite
<1> QED
  BY <1>2, <1>3, <1>4, <1>5 DEF WriteFirst, WriteSecond

\* A call that returns shows that its key has a value, and it is in the first
\* slot with that key: what is known of keys grows.
LEMMA KnownGrows ==
  ASSUME OneAdder, StoreInv, NEW t \in Threads, NEW u \in Threads, NEW s \in S,
         op[u] = "add", pc[u] \in Written, i[u] = s, key[u] = key[t],
         Known(key[t], val_arr_[s]), val_arr_[s] \in Value,
         known[key[t]] = Null,
         UNCHANGED <<key_arr_, val_arr_>>
  PROVE  /\ KnownThere'
         /\ \A k \in Key : known[k] # Null => known'[k] = known[k]
         /\ known'[key[t]] # Null
<1>1. /\ key[u] \in Key /\ s \in Reachable(key[u], MemorySize)
      /\ key_arr_[s] = key[u] /\ key[u] # Null
      /\ \A w \in Threads : pc[w] \in Writing => w = u
  BY AdderHas DEF AddOf, Written
<1>2. FirstWith(key[t], s)
  <2> SUFFICES ASSUME NEW r \in Before(key[t], s), key_arr_[r] = key[t] PROVE FALSE
    BY <1>1 DEF FirstWith
  <2>1. r \in S /\ r # s
    BY <1>1, BeforeMonotone DEF Before, Reachable, S
  <2>2. PICK w \in Threads : pc[w] \in Written /\ i[w] = r
    BY <2>1, <1>1 DEF StoreInv, Shown
  <2> QED
    BY <2>1, <2>2, <1>1 DEF Written, Writing
<1>3. /\ known'[key[t]] = val_arr_[s] /\ val_arr_[s] # Null
      /\ \A k \in Key : k # key[t] => known'[k] = known[k]
  BY <1>1, SharedStoreAssumption DEF Known, StoreInv, SType, TypeOK
<1>4. KnownThere'
  BY <1>2, <1>3 DEF KnownThere, FirstWith, StoreInv
<1> QED
  BY <1>3, <1>4

LEMMA StoreStoreSize ==
  ASSUME OneAdder, StoreInv, NEW t \in Threads, StoreSize(t), SType'
  PROVE  StoreInv'
<1>1. /\ pc[t] = "store" /\ op[t] = "add"
      /\ Known(key[t], val[t])
      /\ UNCHANGED <<key_arr_, val_arr_, op, key, val, i, sure, got>>
  BY DEF StoreSize, args, StoreInv, SType, InLoop, Writing
<1>2. /\ key[t] \in Key /\ i[t] \in S /\ val[t] \in Value
      /\ val_arr_[i[t]] = val[t] /\ key_arr_[i[t]] = key[t]
      /\ \A u \in Threads : op[u] = "add" \/ pc[u] \in Writing => u = t
  BY <1>1, AdderHas DEF AddOf, Written
<1>3. pc'[t] = "idle" /\ \A u \in Threads \ {t} : pc'[u] = pc[u]
  BY DEF StoreSize, Goto, StoreInv, SType, TypeOK
<1>4. /\ KnownThere'
      /\ \A k \in Key : known[k] # Null => known'[k] = known[k]
      /\ known'[key[t]] # Null
  <2>1. CASE known[key[t]] = Null
    BY <2>1, <1>1, <1>2, KnownGrows DEF Written
  <2>2. CASE known[key[t]] # Null
    <3>1. known' = known
      BY <2>2, <1>1, <1>2 DEF Known, StoreInv, SType, TypeOK
    <3> QED
      BY <3>1, <2>2, <1>1 DEF StoreInv, KnownThere, FirstWith
  <2> QED
    BY <2>1, <2>2
<1>5. Chained'
  BY <1>1 DEF Chained, StoreInv
<1>6. Unwritten'
  <2>1. ~\E u \in Threads : pc[u] = "key"
    BY <1>1, <1>2 DEF Writing
  <2> QED
    BY <2>1, <1>1 DEF Unwritten, StoreInv
<1>7. Shown'
  <2> SUFFICES ASSUME NEW s \in S, key_arr_[s] # Null
               PROVE  known'[key_arr_[s]] # Null
    BY <1>1 DEF Shown
  <2>1. key_arr_[s] \in Key
    BY DEF StoreInv, SType, TypeOK, S
  <2>2. CASE known[key_arr_[s]] # Null
    BY <2>1, <2>2, <1>4
  <2>3. CASE \E u \in Threads : pc[u] \in Written /\ i[u] = s
    BY <2>3, <1>2, <1>4 DEF Written, Writing
  <2> QED
    BY <2>2, <2>3 DEF StoreInv, Shown
<1>8. AddHas'
  <2> SUFFICES ASSUME NEW u \in Threads PROVE AddOf(u)'
    BY DEF AddHas
  <2>1. CASE u = t
    BY <2>1, <1>3 DEF AddOf, Written
  <2>2. CASE u # t
    BY <2>2, <1>1, <1>3, AddStays DEF StoreInv
  <2> QED
    BY <2>1, <2>2
<1>9. LookupHas'
  <2> SUFFICES ASSUME NEW u \in Threads PROVE LookupOf(u)'
    BY DEF LookupHas
  <2>1. CASE u = t
    BY <2>1, <1>3 DEF LookupOf
  <2>2. CASE u # t
    BY <2>2, <1>1, <1>3, <1>4, LookupStays DEF StoreInv
  <2> QED
    BY <2>1, <2>2
<1>10. Settled'
  BY <1>1 DEF Settled, StoreInv
<1> QED
  BY <1>4, <1>5, <1>6, <1>7, <1>8, <1>9, <1>10 DEF StoreInv

LEMMA StoreReadValue ==
  ASSUME OneAdder, StoreInv, NEW t \in Threads, ReadValue(t), SType'
  PROVE  StoreInv'
<1>1. /\ pc[t] = "read" /\ op[t] # "add" /\ key[t] \in Key /\ i[t] \in S
      /\ i[t] \in Reachable(key[t], MemorySize)
      /\ key_arr_[i[t]] = key[t] /\ key[t] # Null
      /\ val_arr_[i[t]] \in Value \cup {Garbage}
      /\ UNCHANGED <<key_arr_, val_arr_, op, key, val, i, sure>>
      /\ got' = [got EXCEPT ![t] = [val |-> val_arr_[i[t]], sure |-> sure[t]]]
  BY SharedStoreAssumption
  DEF ReadValue, Returns, mem, args, StoreInv, SType, TypeOK, InLoop, LookupHas, LookupOf, S
<1>2. pc'[t] = "idle" /\ \A u \in Threads \ {t} : pc'[u] = pc[u]
  BY DEF ReadValue, Returns, Goto, StoreInv, SType, TypeOK
\* Of a key that is known, the value found is the one that is known.
<1>3. known[key[t]] # Null /\ sure[t] # Null => val_arr_[i[t]] = sure[t]
  <2> SUFFICES ASSUME known[key[t]] # Null, sure[t] # Null
               PROVE  val_arr_[i[t]] = sure[t]
    OBVIOUS
  <2>1. /\ known[key[t]] = sure[t]
        /\ \A r \in Before(key[t], i[t]) : key_arr_[r] # key[t]
    BY <1>1 DEF StoreInv, LookupHas, LookupOf
  <2>2. PICK s \in S : FirstWith(key[t], s) /\ val_arr_[s] = known[key[t]]
    BY <1>1 DEF StoreInv, KnownThere
  <2>3. s = i[t]
    BY <2>1, <2>2, <1>1, BeforeOrder DEF FirstWith
  <2> QED
    BY <2>1, <2>2, <2>3
<1>4. Settled'
  <2>1. sure[t] # Null => val_arr_[i[t]] = sure[t]
    BY <1>1, <1>3 DEF StoreInv, LookupHas, LookupOf
  <2> QED
    BY <2>1, <1>1 DEF Settled, StoreInv, SType, TypeOK
<1>5. KnownThere' /\ \A k \in Key : known[k] # Null => known'[k] = known[k]
  <2>1. CASE known' = known
    BY <2>1, <1>1 DEF StoreInv, KnownThere, FirstWith
  <2>2. CASE /\ known[key[t]] = Null /\ val_arr_[i[t]] # Garbage
             /\ Known(key[t], val_arr_[i[t]])
    \* Only the add that is about to return can have written it.
    <3>1. PICK u \in Threads : pc[u] \in Written /\ i[u] = i[t]
      BY <2>2, <1>1 DEF StoreInv, Shown
    <3>2. op[u] = "add"
      BY <3>1 DEF StoreInv, SType, InLoop, Written, Writing
    <3>3. key[u] = key[t]
      BY <3>1, <1>1 DEF StoreInv, AddHas, AddOf
    <3> QED
      BY <2>2, <3>1, <3>2, <3>3, <1>1, KnownGrows
  <2>3. CASE known[key[t]] # Null /\ Known(key[t], val_arr_[i[t]])
    BY <2>1, <2>3, <1>1 DEF Known, StoreInv, SType, TypeOK
  <2> QED
    BY <2>1, <2>2, <2>3 DEF ReadValue
<1>6. Chained'
  BY <1>1 DEF Chained, StoreInv
<1>7. Unwritten'
  <2>1. \A u \in Threads : pc[u] = "key" => pc'[u] = "key"
    BY <1>1, <1>2
  <2> QED
    BY <2>1, <1>1 DEF Unwritten, StoreInv
<1>8. Shown'
  <2>1. \A u \in Threads : pc[u] \in Written => pc'[u] \in Written
    BY <1>1, <1>2 DEF Written
  <2>2. \A s \in S : key_arr_[s] # Null => key_arr_[s] \in Key
    BY DEF StoreInv, SType, TypeOK, S
  <2> QED
    BY <2>1, <2>2, <1>1, <1>5 DEF Shown, StoreInv
<1>9. AddHas'
  <2> SUFFICES ASSUME NEW u \in Threads PROVE AddOf(u)'
    BY DEF AddHas
  <2>1. CASE u = t
    BY <2>1, <1>2 DEF AddOf, Written
  <2>2. CASE u # t
    BY <2>2, <1>1, <1>2, AddStays DEF StoreInv
  <2> QED
    BY <2>1, <2>2
<1>10. LookupHas'
  <2> SUFFICES ASSUME NEW u \in Threads PROVE LookupOf(u)'
    BY DEF LookupHas
  <2>1. CASE u = t
    BY <2>1, <1>2 DEF LookupOf
  <2>2. CASE u # t
    BY <2>2, <1>1, <1>2, <1>5, LookupStays DEF StoreInv
  <2> QED
    BY <2>1, <2>2
<1> QED
  BY <1>4, <1>5, <1>6, <1>7, <1>8, <1>9, <1>10 DEF StoreInv

LEMMA StoreStep == OneAdder /\ StoreInv /\ [Next]_vars => StoreInv'
<1> SUFFICES ASSUME OneAdder, StoreInv, [Next]_vars PROVE StoreInv'
  OBVIOUS
<1>1. SType'
  BY STypeStep DEF StoreInv
<1>2. CASE UNCHANGED vars
  <2>1. ASSUME NEW u \in Threads PROVE AddOf(u)' /\ LookupOf(u)'
    BY <1>2, AddStays, LookupStays DEF vars, mem, args, StoreInv
  <2>2. Slotwise'
    BY <1>2, SlotsStay DEF vars, mem, Slotwise, StoreInv
  <2> QED
    BY <1>1, <1>2, <2>1, <2>2
    DEF vars, Slotwise, AddHas, LookupHas, Settled, StoreInv
<1>3. ASSUME NEW t \in Threads,
             \E o \in Ops, k \in Key, v \in Value : Begin(t, o, k, v)
      PROVE  StoreInv'
  BY <1>1, <1>3, StoreBegin
<1>4. ASSUME NEW t \in Threads, Proceed(t)
      PROVE  StoreInv'
  BY <1>1, <1>4, StoreProbeAdd, StoreWrites, StoreLoadSize, StoreStoreSize,
     StoreProbeHit, StoreProbeMiss, StoreReadValue DEF Proceed
<1> QED
  BY <1>2, <1>3, <1>4 DEF Next

(* With one thread that adds and any number that look keys up, without a   *)
(* lock and with the writes of a slot in either order: what a call that    *)
(* has returned showed of a key, every call that begins later returns.     *)
THEOREM OneAdderSettles ==
  ASSUME OneAdder
  PROVE  Spec => []Settled
<1>1. StoreInv => Settled
  BY DEF StoreInv
<1>2. StoreInv /\ [Next]_vars => StoreInv'
  BY StoreStep
<1> QED
  BY <1>1, <1>2, StoreInit, PTL DEF Spec
-----------------------------------------------------------------------------
\* size_ and the slots.

Taken == {s \in S : key_arr_[s] # Null}

Uncounted == \E t \in Threads : pc[t] \in Written

\* size_ lags behind the taken slots by the one of an add under way, and the
\* add has not lost count of it.
Counted == /\ Cardinality(Taken) = IF Uncounted THEN size_ + 1 ELSE size_
           /\ \A t \in Threads : pc[t] = "store" => reg[t] = size_

LEMMA CountedInit == Init => Counted
<1> SUFFICES ASSUME Init PROVE Counted
  OBVIOUS
<1>1. Taken = {}
  BY DEF Init, Taken, S
<1>2. Cardinality(Taken) = 0
  BY <1>1, FS_EmptySet
<1> QED
  BY <1>2 DEF Counted, Init, Uncounted, Written

\* Steps of a thread that takes no slot and does not count.
LEMMA CountStays ==
  ASSUME Counted, UNCHANGED <<key_arr_, size_>>,
         \A u \in Threads : /\ pc'[u] \in Written <=> pc[u] \in Written
                            /\ pc'[u] = "store" => reg'[u] = size_
  PROVE  Counted'
<1>1. Taken' = Taken /\ (Uncounted' <=> Uncounted)
  BY DEF Taken, Uncounted
<1> QED
  BY <1>1 DEF Counted

LEMMA CountedKeyWrite ==
  ASSUME OneAdder, StoreInv, Counted, NEW t \in Threads,
         op[t] = "add", pc[t] \in {"slot", "key"}, pc'[t] \in {"value", "load"},
         key_arr_' = [key_arr_ EXCEPT ![i[t]] = key[t]],
         \A u \in Threads \ {t} : pc'[u] = pc[u],
         UNCHANGED <<size_, reg>>
  PROVE  Counted'
<1>1. /\ key[t] # Null /\ i[t] \in S /\ key_arr_[i[t]] = Null
      /\ \A u \in Threads : pc[u] \in Writing => u = t
  BY AdderHas DEF AddOf
<1>2. Taken' = Taken \cup {i[t]} /\ i[t] \notin Taken
  BY <1>1 DEF Taken, StoreInv, SType, TypeOK, S
<1>3. IsFiniteSet(Taken)
  <2>1. IsFiniteSet(S)
    BY FS_Interval, SharedStoreAssumption DEF S, Slots
  <2> QED
    BY <2>1, FS_Subset DEF Taken
<1>4. Cardinality(Taken') = Cardinality(Taken) + 1
  BY <1>2, <1>3, FS_AddElement
<1>5. ~Uncounted /\ Uncounted'
  BY <1>1 DEF Uncounted, Written, Writing
<1> QED
  BY <1>1, <1>4, <1>5 DEF Counted, Writing

LEMMA CountedStoreSize ==
  ASSUME OneAdder, StoreInv, Counted, NEW t \in Threads, StoreSize(t)
  PROVE  Counted'
<1>1. pc[t] = "store" /\ op[t] = "add" /\ reg[t] = size_
  BY DEF StoreSize, StoreInv, SType, InLoop, Writing, Counted
<1>2. \A u \in Threads : pc[u] \in Writing => u = t
  BY <1>1, AdderHas
<1>3. /\ size_' = size_ + 1 /\ pc'[t] = "idle" /\ Taken' = Taken
      /\ \A u \in Threads \ {t} : pc'[u] = pc[u]
  BY <1>1 DEF StoreSize, Goto, Taken, StoreInv, SType, TypeOK
<1>4. Uncounted /\ ~Uncounted' /\ \A u \in Threads : pc'[u] # "store"
  BY <1>1, <1>2, <1>3 DEF Uncounted, Written, Writing
<1> QED
  BY <1>3, <1>4 DEF Counted

LEMMA CountedStep == OneAdder /\ StoreInv /\ Counted /\ [Next]_vars => Counted'
<1> SUFFICES ASSUME OneAdder, StoreInv, Counted, [Next]_vars PROVE Counted'
  OBVIOUS
<1> USE DEF StoreInv, SType
<1>1. CASE UNCHANGED vars
  BY <1>1, CountStays DEF vars, mem, Counted
<1>2. ASSUME NEW t \in Threads,
             \E o \in Ops, k \in Key, v \in Value : Begin(t, o, k, v)
      PROVE  Counted'
  <2>1. /\ pc[t] = "idle" /\ pc' = [pc EXCEPT ![t] = "probe"]
        /\ UNCHANGED <<key_arr_, size_, reg>>
    BY <1>2 DEF Begin, Start, Goto, mem
  <2> QED
    BY <2>1, CountStays DEF Counted, Written, TypeOK
<1>3. ASSUME NEW t \in Threads, ProbeAdd(t) \/ ProbeHit(t) \/ ProbeMiss(t) \/ ReadValue(t)
      PROVE  Counted'
  <2>1. /\ pc[t] \in {"probe", "read"}
        /\ \/ \E l \in {"slot", "idle", "probe", "read"} : pc' = [pc EXCEPT ![t] = l]
           \/ pc' = pc
        /\ UNCHANGED <<key_arr_, size_, reg>>
    BY <1>3 DEF ProbeAdd, ProbeHit, ProbeMiss, ReadValue, Restart, Returns, Start, Goto, mem
  <2> QED
    BY <2>1, CountStays DEF Counted, Written, TypeOK
<1>4. ASSUME NEW t \in Threads, WriteFirst(t) \/ WriteSecond(t)
      PROVE  Counted'
  <2>1. /\ op[t] = "add" /\ UNCHANGED <<size_, reg>>
        /\ \A u \in Threads \ {t} : pc'[u] = pc[u]
    BY <1>4 DEF WriteFirst, WriteSecond, Goto, InLoop, Writing, TypeOK
  <2>2. CASE /\ pc[t] \in {"slot", "key"} /\ pc'[t] \in {"value", "load"}
             /\ key_arr_' = [key_arr_ EXCEPT ![i[t]] = key[t]]
    BY <2>1, <2>2, CountedKeyWrite
  <2>3. CASE /\ \/ pc[t] = "slot" /\ pc'[t] = "key"
                \/ pc[t] = "value" /\ pc'[t] = "load"
             /\ UNCHANGED key_arr_
    BY <2>1, <2>3, CountStays DEF Counted, Written
  <2> QED
    BY <1>4, <2>2, <2>3 DEF WriteFirst, WriteSecond, Goto, TypeOK
<1>5. ASSUME NEW t \in Threads, LoadSize(t)
      PROVE  Counted'
  <2>1. /\ pc[t] = "load" /\ pc'[t] = "store" /\ reg'[t] = size_
        /\ UNCHANGED <<key_arr_, size_>>
        /\ \A u \in Threads \ {t} : pc'[u] = pc[u] /\ reg'[u] = reg[u]
    BY <1>5 DEF LoadSize, Goto, TypeOK, mem
  <2> QED
    BY <2>1, CountStays DEF Counted, Written
<1>6. ASSUME NEW t \in Threads, StoreSize(t)
      PROVE  Counted'
  BY <1>6, CountedStoreSize
<1> QED
  BY <1>1, <1>2, <1>3, <1>4, <1>5, <1>6 DEF Next, Proceed

(* With one thread that adds, size_ is the number of the slots that hold a *)
(* key whenever that thread is not in add: although its increment is a     *)
(* load and a store, and although it is written after the slot.            *)
THEOREM OneAdderCounts ==
  ASSUME OneAdder
  PROVE  Spec => []SizeCounts
<1>1. StoreInv /\ Counted => SizeCounts
  <2> SUFFICES ASSUME StoreInv, Counted,
                      \A t \in Threads : pc[t] = "idle" \/ op[t] # "add"
               PROVE  size_ = Cardinality(Taken)
    BY DEF SizeCounts, Taken, S
  <2>1. ~Uncounted
    BY DEF Uncounted, Written, Writing, StoreInv, SType, InLoop
  <2> QED
    BY <2>1 DEF Counted
<1>2. StoreInv /\ [Next]_vars => StoreInv'
  BY StoreStep
<1>3. StoreInv /\ Counted /\ [Next]_vars => Counted'
  BY CountedStep
<1> QED
  BY <1>1, <1>2, <1>3, StoreInit, CountedInit, PTL DEF Spec
=============================================================================
