---------------------------- MODULE HashMapProofs ---------------------------
(***************************************************************************)
(* Theorems about the hash map, for any keys and hashes, any even size of  *)
(* its first array and any number of keys, with assertions and without:    *)
(* add finds a slot, and the map is a dictionary through every growth.     *)
(***************************************************************************)
EXTENDS HashMap, FiniteSetTheorems, TLAPS

IsTable(keys, m) == m \in Nat /\ m >= 2 /\ keys \in [Slots(m) -> Key \cup {Null}]

Taken(keys, m) == {s \in Slots(m) : keys[s] # Null}

\* The slots the loop for k meets before slot s.
Before(k, m, s) == {r \in Reachable(k, m) : Distance(k, m, r) < Distance(k, m, s)}

\* Every key lies behind taken slots, in the order its loop meets them.
Chained(keys, m) == \A s \in Slots(m) : keys[s] # Null =>
  /\ s \in Reachable(keys[s], m)
  /\ \A r \in Before(keys[s], m, s) : keys[r] # Null

\* The array is never more than half full, and an add that inserts finds it
\* less than that; it grows when it is exactly half full.
Sizes == /\ ArraySize >= 2 /\ ArraySize % 2 = 0
         /\ pc \in {"grow", "crashed"} => memory_size_ = 2 * ArraySize
         /\ 2 * size_ <= ArraySize
         /\ pc = "insert" => 2 * size_ < ArraySize
         /\ pc = "grow" => 2 * size_ = ArraySize /\ i <= size_

Counted == /\ Cardinality(Taken(key_arr_, ArraySize)) = size_
           /\ pc = "grow" => Cardinality(Taken(tempKeys, memory_size_)) = i

\* A key has a value, and so has an add.
Valued == /\ \A s \in Slots(ArraySize) : key_arr_[s] # Null => val_arr_[s] \in Value
          /\ pc \in {"grow", "insert"} => adding \in [key : Key, val : Value]

TempType == pc = "grow" =>
  /\ tempKeys \in [Slots(memory_size_) -> Key \cup {Null}]
  /\ tempVals \in [Slots(memory_size_) -> Value \cup {Null}]
  /\ \A s \in Slots(memory_size_) : tempKeys[s] # Null => tempVals[s] \in Value

\* The slots with key k that incrementSize has copied.
Copied(k) == {s \in Slots(ArraySize) : s < i /\ key_arr_[s] = k}

\* The new arrays hold the keys of the slots copied, each with the value of
\* the first of its slots.
Copying == pc = "grow" =>
  /\ \A s \in Slots(ArraySize) : s < i => key_arr_[s] # Null
  /\ \A k \in Key :
       /\ Has(tempKeys, memory_size_, k) <=> Copied(k) # {}
       /\ \A s \in Copied(k) :
            (\A r \in Copied(k) : s <= r)
              => Get(tempKeys, tempVals, memory_size_, k) = val_arr_[s]

HInv == /\ TypeOK /\ Sizes /\ Counted /\ Valued /\ TempType /\ Copying
        /\ Chained(key_arr_, ArraySize)
        /\ pc = "grow" => Chained(tempKeys, memory_size_)
-----------------------------------------------------------------------------
\* The slots of one key.

LEMMA SlotsOfLoop ==
  ASSUME NEW k \in Key, NEW m \in Nat, m >= 2
  PROVE  /\ index(k, m) \in Slots(m)
         /\ Reachable(k, m) \subseteq Slots(m)
         /\ \A s \in Slots(m) : Distance(k, m, s) \in Nat
         /\ \A r, s \in Slots(m) : Distance(k, m, r) = Distance(k, m, s) => r = s
<1>1. index(k, m) \in Slots(m)
  BY ProbingAssumption DEF index, Slots
<1>2. Reachable(k, m) \subseteq Slots(m)
  BY DEF Reachable
<1> QED
  BY <1>1, <1>2 DEF Distance, Slots

\* A set of numbers that is not empty has a least one.
LEMMA LeastNumber ==
  ASSUME NEW T, T \subseteq Nat, T # {}
  PROVE  \E x \in T : \A y \in T : x <= y
<1> DEFINE R == OpToRel(<, Nat)
<1>1. IsWellFoundedOn(R, Nat)
  BY NatLessThanWellFounded
<1>2. \A x, y \in Nat : y < x => <<y, x>> \in R
  BY DEF OpToRel
<1> HIDE DEF R
<1>3. PICK x \in T : \A y \in T : ~ (<<y, x>> \in R)
  BY <1>1, WFMin
<1>4. \A y \in T : y \in Nat /\ x \in Nat /\ ~ (y < x)
  BY <1>2, <1>3
<1>5. \A y \in T : x <= y
  BY <1>4
<1> QED
  BY <1>5

\* The first of some slots is there, and it is the only one that is first.
LEMMA FirstOfSlots ==
  ASSUME NEW k \in Key, NEW m \in Nat, m >= 2, NEW T, T \subseteq Slots(m), T # {}
  PROVE  /\ First(k, m, T) \in T
         /\ \A t \in T : Distance(k, m, First(k, m, T)) <= Distance(k, m, t)
         /\ \A s \in T :
              (\A t \in T : Distance(k, m, s) <= Distance(k, m, t)) => s = First(k, m, T)
<1> DEFINE D == {Distance(k, m, t) : t \in T}
<1>1. \A s \in T : s \in Slots(m) /\ Distance(k, m, s) \in Nat
  BY SlotsOfLoop
<1>2. D \subseteq Nat /\ D # {}
  BY <1>1
<1>3. PICK x \in D : \A y \in D : x <= y
  <2> HIDE DEF D
  <2> QED
    BY <1>2, LeastNumber
<1>4. \E s \in T : \A t \in T : Distance(k, m, s) <= Distance(k, m, t)
  BY <1>3
<1>5. /\ First(k, m, T) \in T
      /\ \A t \in T : Distance(k, m, First(k, m, T)) <= Distance(k, m, t)
  BY <1>4 DEF First
<1>6. ASSUME NEW s \in T, \A t \in T : Distance(k, m, s) <= Distance(k, m, t)
      PROVE  s = First(k, m, T)
  <2>1. Distance(k, m, s) = Distance(k, m, First(k, m, T))
    BY <1>1, <1>5, <1>6
  <2> QED
    BY <2>1, <1>1, <1>5, SlotsOfLoop
<1> QED
  BY <1>5, <1>6

\* The slot where an add inserts: no key, and none of its slots before is free.
LEMMA FirstFree ==
  ASSUME NEW keys, NEW m, IsTable(keys, m), NEW k \in Key, Free(keys, m, k) # {}
  PROVE  LET s == First(k, m, Free(keys, m, k))
         IN  /\ s \in Reachable(k, m) /\ s \in Slots(m) /\ keys[s] = Null
             /\ \A r \in Before(k, m, s) : keys[r] # Null
<1> DEFINE s == First(k, m, Free(keys, m, k))
<1>1. m \in Nat /\ m >= 2 /\ Reachable(k, m) \subseteq Slots(m)
  BY SlotsOfLoop DEF IsTable
<1>2. Free(keys, m, k) \subseteq Slots(m)
  BY <1>1 DEF Free
<1>3. /\ s \in Free(keys, m, k)
      /\ \A t \in Free(keys, m, k) : Distance(k, m, s) <= Distance(k, m, t)
  BY <1>1, <1>2, FirstOfSlots
<1> HIDE DEF s
<1>4. s \in Reachable(k, m) /\ s \in Slots(m) /\ keys[s] = Null
  BY <1>1, <1>3 DEF Free
<1>5. ASSUME NEW r \in Before(k, m, s) PROVE keys[r] # Null
  <2>1. r \in Reachable(k, m) /\ r \in Slots(m) /\ Distance(k, m, r) < Distance(k, m, s)
    BY <1>1 DEF Before
  <2>2. Distance(k, m, r) \in Nat /\ Distance(k, m, s) \in Nat
    BY <1>1, <1>4, <2>1, SlotsOfLoop
  <2> QED
    BY <2>1, <2>2, <1>3 DEF Free
<1> QED
  BY <1>4, <1>5 DEF s

\* The first slot with a key that is there.
LEMMA FirstHolding ==
  ASSUME NEW keys, NEW m, IsTable(keys, m), NEW k \in Key, Has(keys, m, k)
  PROVE  LET s == First(k, m, Holding(keys, m, k))
         IN  s \in Slots(m) /\ keys[s] = k /\ s \in Holding(keys, m, k)
<1>1. m \in Nat /\ m >= 2 /\ Reachable(k, m) \subseteq Slots(m)
  BY SlotsOfLoop DEF IsTable
<1>2. Holding(keys, m, k) \subseteq Slots(m) /\ Holding(keys, m, k) # {}
  BY <1>1 DEF Holding, Has
<1>3. First(k, m, Holding(keys, m, k)) \in Holding(keys, m, k)
  BY <1>1, <1>2, FirstOfSlots
<1> QED
  BY <1>2, <1>3 DEF Holding

\* A table with fewer keys than half of its slots has a free one for any key.
LEMMA RoomForKey ==
  ASSUME NEW keys, NEW m, IsTable(keys, m), NEW k \in Key,
         2 * Cardinality(Taken(keys, m)) < m
  PROVE  Free(keys, m, k) # {}
<1> SUFFICES ASSUME Free(keys, m, k) = {} PROVE FALSE
  OBVIOUS
<1>1. m \in Nat /\ m >= 2
  BY DEF IsTable
<1>2. /\ IsFiniteSet(Slots(m)) /\ IsFiniteSet(1 .. m - 1)
      /\ Cardinality(1 .. m - 1) = m - 1
  BY <1>1, FS_Interval DEF Slots
<1>3. IsFiniteSet(Taken(keys, m)) /\ Cardinality(Taken(keys, m)) \in Nat
  BY <1>2, FS_Subset, FS_CardinalityType DEF Taken
<1>4. 1 .. m - 1 \subseteq Taken(keys, m)
  BY <1>1 DEF Free, Reachable, Taken, Slots
<1>5. m - 1 <= Cardinality(Taken(keys, m))
  BY <1>2, <1>3, <1>4, FS_Subset
<1> QED
  BY <1>1, <1>3, <1>5
-----------------------------------------------------------------------------
\* What the insertion of a key does to a table.

Spot(keys, m, k) == First(k, m, Free(keys, m, k))

PutKey(keys, m, k) == [keys EXCEPT ![Spot(keys, m, k)] = k]

PutVal(keys, vals, m, k, v) == [vals EXCEPT ![Spot(keys, m, k)] = v]

LEMMA PlacedTable ==
  ASSUME NEW keys, NEW m, IsTable(keys, m), Chained(keys, m),
         NEW k \in Key, Free(keys, m, k) # {}
  PROVE  /\ IsTable(PutKey(keys, m, k), m) /\ Chained(PutKey(keys, m, k), m)
         /\ Cardinality(Taken(PutKey(keys, m, k), m)) = Cardinality(Taken(keys, m)) + 1
<1> DEFINE s == Spot(keys, m, k)
           keys2 == PutKey(keys, m, k)
<1>0. s = First(k, m, Free(keys, m, k)) /\ keys2 = [keys EXCEPT ![s] = k]
  BY DEF Spot, PutKey
<1> HIDE DEF s, keys2
<1>1. m \in Nat /\ m >= 2 /\ k # Null
  BY HashMapAssumption DEF IsTable
<1>2. /\ s \in Reachable(k, m) /\ s \in Slots(m) /\ keys[s] = Null
      /\ \A r \in Before(k, m, s) : keys[r] # Null
  BY <1>0, FirstFree
<1>3. keys2[s] = k /\ \A r \in Slots(m) \ {s} : keys2[r] = keys[r]
  BY <1>0, <1>2 DEF IsTable
<1>4. IsTable(keys2, m)
  BY <1>0, <1>2 DEF IsTable
<1>5. \A q \in Key, r \in Slots(m) : Before(q, m, r) \subseteq Slots(m)
  BY <1>1, SlotsOfLoop DEF Before
<1>6. Chained(keys2, m)
  <2> SUFFICES ASSUME NEW r \in Slots(m), keys2[r] # Null
               PROVE  /\ r \in Reachable(keys2[r], m)
                      /\ \A q \in Before(keys2[r], m, r) : keys2[q] # Null
    BY DEF Chained
  <2>1. \A q \in Slots(m) : keys[q] # Null => keys2[q] # Null
    BY <1>1, <1>2, <1>3
  <2>2. CASE r = s
    BY <2>1, <2>2, <1>2, <1>3, <1>5
  <2>3. CASE r # s
    <3>1. keys2[r] = keys[r] /\ keys[r] \in Key
      BY <2>3, <1>3 DEF IsTable
    <3> QED
      BY <3>1, <2>1, <1>5 DEF Chained
  <2> QED
    BY <2>2, <2>3
<1>7. Taken(keys2, m) = Taken(keys, m) \cup {s} /\ s \notin Taken(keys, m)
  BY <1>1, <1>2, <1>3 DEF Taken
<1>8. IsFiniteSet(Taken(keys, m))
  <2>1. IsFiniteSet(Slots(m))
    BY <1>1, FS_Interval DEF Slots
  <2> QED
    BY <2>1, FS_Subset DEF Taken
<1>9. Cardinality(Taken(keys, m) \cup {s}) = Cardinality(Taken(keys, m)) + 1
  BY <1>7, <1>8, FS_AddElement
<1> QED
  BY <1>4, <1>6, <1>7, <1>9 DEF keys2

\* The key inserted is found, with its value if it was not there before; other
\* keys are found as they were.
LEMMA PlacedKeys ==
  ASSUME NEW keys, NEW m, IsTable(keys, m), Chained(keys, m),
         NEW vals, vals \in [Slots(m) -> Value \cup {Null}],
         NEW k \in Key, NEW v \in Value, Free(keys, m, k) # {},
         NEW q \in Key
  PROVE  /\ Has(PutKey(keys, m, k), m, q) <=> (Has(keys, m, q) \/ q = k)
         /\ q = k /\ ~Has(keys, m, k) =>
              Get(PutKey(keys, m, k), PutVal(keys, vals, m, k, v), m, q) = v
         /\ q # k \/ Has(keys, m, k) =>
              Get(PutKey(keys, m, k), PutVal(keys, vals, m, k, v), m, q)
                = Get(keys, vals, m, q)
<1> DEFINE s == Spot(keys, m, k)
           keys2 == PutKey(keys, m, k)
           vals2 == PutVal(keys, vals, m, k, v)
<1>0. /\ s = First(k, m, Free(keys, m, k))
      /\ keys2 = [keys EXCEPT ![s] = k] /\ vals2 = [vals EXCEPT ![s] = v]
  BY DEF Spot, PutKey, PutVal
<1> SUFFICES /\ Has(keys2, m, q) <=> (Has(keys, m, q) \/ q = k)
             /\ q = k /\ ~Has(keys, m, k) => Get(keys2, vals2, m, q) = v
             /\ q # k \/ Has(keys, m, k) => Get(keys2, vals2, m, q) = Get(keys, vals, m, q)
  OBVIOUS
<1> HIDE DEF s, keys2, vals2
<1>1. m \in Nat /\ m >= 2 /\ k # Null /\ Null \notin Key
  BY HashMapAssumption DEF IsTable
<1>2. /\ s \in Reachable(k, m) /\ s \in Slots(m) /\ keys[s] = Null
      /\ \A r \in Before(k, m, s) : keys[r] # Null
  BY <1>0, FirstFree
<1>3. /\ keys2[s] = k /\ \A r \in Slots(m) \ {s} : keys2[r] = keys[r]
      /\ vals2[s] = v /\ \A r \in Slots(m) \ {s} : vals2[r] = vals[r]
  BY <1>0, <1>2 DEF IsTable
<1>4. \A x \in Key : Reachable(x, m) \subseteq Slots(m)
  BY <1>1, SlotsOfLoop
<1>5. CASE q # k
  <2>1. Holding(keys2, m, q) = Holding(keys, m, q) /\ s \notin Holding(keys, m, q)
    BY <1>5, <1>1, <1>2, <1>3, <1>4 DEF Holding
  <2>2. Has(keys2, m, q) <=> Has(keys, m, q)
    BY <2>1 DEF Has
  <2>3. CASE Has(keys, m, q)
    <3>1. First(q, m, Holding(keys, m, q)) \in Holding(keys, m, q) \cap Slots(m)
      BY <2>3, FirstHolding
    <3> QED
      BY <3>1, <2>1, <2>2, <2>3, <1>3, <1>5 DEF Get
  <2> QED
    BY <2>2, <2>3, <1>5 DEF Get
<1>6. CASE q = k
  <2>1. Holding(keys2, m, k) = Holding(keys, m, k) \cup {s} /\ s \notin Holding(keys, m, k)
    BY <1>1, <1>2, <1>3, <1>4 DEF Holding
  <2>2. Has(keys2, m, k)
    BY <2>1 DEF Has
  <2>3. Holding(keys2, m, k) \subseteq Slots(m)
    BY <1>4 DEF Holding
  <2>4. CASE ~Has(keys, m, k)
    <3>1. Holding(keys2, m, k) = {s}
      BY <2>1, <2>4 DEF Has
    <3>2. First(k, m, Holding(keys2, m, k)) = s
      BY <3>1, <2>3, <1>1, FirstOfSlots
    <3> QED
      BY <3>2, <2>2, <2>4, <1>3, <1>6 DEF Get
  <2>5. CASE Has(keys, m, k)
    <3> DEFINE f == First(k, m, Holding(keys, m, k))
    <3>1. /\ f \in Slots(m) /\ keys[f] = k /\ f \in Holding(keys, m, k)
          /\ \A t \in Holding(keys, m, k) : Distance(k, m, f) <= Distance(k, m, t)
      BY <2>1, <2>3, <2>5, <1>1, FirstHolding, FirstOfSlots DEF Has
    <3> HIDE DEF f
    \* The free slot is not before it, for a key lies behind taken ones.
    <3>2. s \notin Before(k, m, f)
      BY <3>1, <1>1, <1>2 DEF Chained
    <3>3. Distance(k, m, f) <= Distance(k, m, s)
      <4>1. Distance(k, m, f) \in Nat /\ Distance(k, m, s) \in Nat
        <5>1. \A r \in Slots(m) : Distance(k, m, r) \in Nat
          BY <1>1, SlotsOfLoop
        <5> QED
          BY <5>1, <3>1, <1>2
      <4>2. ~ (Distance(k, m, s) < Distance(k, m, f))
        BY <3>2, <1>2 DEF Before
      <4> QED
        BY <4>1, <4>2
    <3>4. \A t \in Holding(keys2, m, k) : Distance(k, m, f) <= Distance(k, m, t)
      BY <2>1, <3>1, <3>3
    <3>5. f = First(k, m, Holding(keys2, m, k))
      <4>1. f \in Holding(keys2, m, k)
        BY <3>1, <2>1
      <4> DEFINE T == Holding(keys2, m, k)
      <4>2. T \subseteq Slots(m) /\ f \in T
            /\ \A t \in T : Distance(k, m, f) <= Distance(k, m, t)
        BY <4>1, <3>4, <2>3
      <4> HIDE DEF T
      <4>3. f = First(k, m, T)
        BY <4>2, <1>1, FirstOfSlots
      <4> QED
        BY <4>3 DEF T
    <3>6. vals2[f] = vals[f]
      BY <3>1, <1>1, <1>2, <1>3
    <3> QED
      BY <3>5, <3>6, <2>2, <2>5, <1>6 DEF Get, f
  <2> QED
    BY <2>4, <2>5
<1> QED
  BY <1>5, <1>6
-----------------------------------------------------------------------------
\* The invariant.

LEMMA TableNow ==
  ASSUME HInv
  PROVE  /\ IsTable(key_arr_, ArraySize)
         /\ val_arr_ \in [Slots(ArraySize) -> Value \cup {Null}]
         /\ Chained(key_arr_, ArraySize)
         /\ size_ \in Nat /\ i \in Nat /\ memory_size_ \in Nat /\ ArraySize \in Nat
         /\ pc \notin {"grow", "crashed"} => ArraySize = memory_size_
         /\ pc = "grow" => /\ IsTable(tempKeys, memory_size_)
                           /\ Chained(tempKeys, memory_size_)
                           /\ memory_size_ = 2 * ArraySize
<1>1. ArraySize \in Nat /\ ArraySize >= 2
  BY DEF HInv, TypeOK, Sizes, ArraySize
<1> QED
  BY <1>1 DEF HInv, TypeOK, Sizes, TempType, IsTable, ArraySize

LEMMA EmptyTable ==
  ASSUME NEW m \in Nat, m >= 2
  PROVE  /\ IsTable(Empty(m), m) /\ Chained(Empty(m), m)
         /\ Cardinality(Taken(Empty(m), m)) = 0
         /\ \A k \in Key : ~Has(Empty(m), m, k)
<1>1. \A s \in Slots(m) : Empty(m)[s] = Null
  BY DEF Empty
<1>2. Taken(Empty(m), m) = {}
  BY <1>1 DEF Taken
<1>3. \A k \in Key : Reachable(k, m) \subseteq Slots(m)
  BY SlotsOfLoop
<1>4. \A k \in Key : ~Has(Empty(m), m, k)
  BY <1>1, <1>3, HashMapAssumption DEF Has, Holding
<1> QED
  BY <1>1, <1>2, <1>4, FS_EmptySet DEF IsTable, Chained, Empty

LEMMA HInvInit == Init => HInv
<1> SUFFICES ASSUME Init PROVE HInv
  OBVIOUS
<1>1. ArraySize = InitialMemory /\ pc = "idle" /\ size_ = 0
      /\ InitialMemory \in Nat /\ InitialMemory >= 2 /\ InitialMemory % 2 = 0
  BY HashMapAssumption DEF Init, ArraySize
<1>2. TypeOK
  BY <1>1 DEF Init, TypeOK, Empty
<1>3. Sizes
  BY <1>1 DEF Sizes
<1>4. Counted
  BY <1>1, EmptyTable DEF Counted, Init
<1>5. Valued /\ TempType /\ Copying /\ Chained(key_arr_, ArraySize)
  BY <1>1 DEF Valued, TempType, Copying, Chained, Init, Empty
<1> QED
  BY <1>1, <1>2, <1>3, <1>4, <1>5 DEF HInv

LEMMA HInvAdd ==
  ASSUME HInv, NEW k \in Key, NEW v \in Value, Add(k, v)
  PROVE  HInv'
<1>1. /\ pc = "idle" /\ ArraySize = memory_size_ /\ size_ \in Nat /\ memory_size_ \in Nat
      /\ memory_size_ >= 2
      /\ UNCHANGED <<key_arr_, val_arr_, size_>>
      /\ adding' = [key |-> k, val |-> v]
  BY TableNow DEF Add, table, IsTable
<1>2. CASE /\ pc' \in {"aborted", "insert"} /\ (pc' = "insert" => ~MustGrow)
           /\ UNCHANGED <<table, tempKeys, tempVals, i>>
  <2>1. ArraySize' = ArraySize
    BY <1>1, <1>2 DEF ArraySize, table
  <2>2. TypeOK'
    BY <1>1, <1>2, <2>1 DEF HInv, TypeOK, table
  <2>3. Sizes'
    BY <1>1, <1>2, <2>1 DEF HInv, Sizes, MustGrow, table
  <2>4. Counted' /\ Valued' /\ TempType' /\ Copying' /\ Chained(key_arr_, ArraySize)'
    BY <1>1, <1>2, <2>1 DEF HInv, Counted, Valued, TempType, Copying, Chained, Taken
  <2> QED
    BY <1>2, <2>2, <2>3, <2>4 DEF HInv
<1>3. CASE /\ MustGrow /\ pc' = "grow" /\ memory_size_' = 2 * memory_size_
           /\ tempKeys' = Empty(2 * memory_size_) /\ tempVals' = Empty(2 * memory_size_)
           /\ i' = 0
  <2>1. ArraySize' = ArraySize /\ 2 * memory_size_ \in Nat /\ 2 * memory_size_ >= 2
    BY <1>1, <1>3 DEF ArraySize
  <2>2. /\ IsTable(tempKeys, memory_size_)' /\ Chained(tempKeys, memory_size_)'
        /\ Cardinality(Taken(tempKeys, memory_size_))' = 0
        /\ \A q \in Key : ~Has(tempKeys, memory_size_, q)'
    BY <2>1, <1>3, EmptyTable
  <2>3. TypeOK'
    BY <1>1, <1>3, <2>1 DEF HInv, TypeOK
  <2>4. Sizes'
    BY <1>1, <1>3, <2>1 DEF HInv, Sizes, MustGrow
  <2>5. Counted'
    BY <1>1, <1>3, <2>1, <2>2 DEF HInv, Counted, Taken
  <2>6. Valued'
    BY <1>1, <1>3, <2>1 DEF HInv, Valued
  <2>7. TempType'
    BY <2>2, <1>3 DEF TempType, IsTable, Empty
  <2>8. Copying'
    <3>1. \A s \in Slots(ArraySize') : ~ (s < i')
      BY <1>1, <1>3, <2>1 DEF Slots
    <3>2. \A q \in Key : Copied(q)' = {}
      BY <3>1 DEF Copied
    <3> QED
      BY <2>2, <3>1, <3>2 DEF Copying
  <2>9. Chained(key_arr_, ArraySize)'
    BY <1>1, <2>1 DEF HInv
  <2> QED
    BY <2>2, <2>3, <2>4, <2>5, <2>6, <2>7, <2>8, <2>9 DEF HInv
<1> QED
  BY <1>2, <1>3 DEF Add

\* Calls and steps after which no slot is different, and nothing grows.
LEMMA HInvOutside ==
  ASSUME HInv, UNCHANGED <<key_arr_, val_arr_, size_, memory_size_, temps>>,
         \/ pc = "idle" /\ pc' \in {"idle", "looping"}
         \/ pc = "grow" /\ pc' = "crashed"
         \/ pc' = pc
  PROVE  HInv'
<1>1. ArraySize' = ArraySize
  BY DEF ArraySize
<1>2. TypeOK'
  BY <1>1 DEF HInv, TypeOK, temps
<1>3. Sizes' /\ Counted' /\ Valued' /\ TempType'
  BY <1>1 DEF HInv, Sizes, Counted, Valued, TempType, temps
<1>4. Copying'
  BY <1>1 DEF HInv, Copying, Copied, temps
<1> QED
  BY <1>1, <1>2, <1>3, <1>4 DEF HInv, temps

LEMMA HInvSet ==
  ASSUME HInv, NEW k \in Key, NEW v \in Value, Set(k, v)
  PROVE  HInv'
<1> DEFINE s == First(k, memory_size_, Holding(key_arr_, memory_size_, k))
<1>1. /\ pc = "idle" /\ ArraySize = memory_size_ /\ has(k)
      /\ val_arr_' = [val_arr_ EXCEPT ![s] = v]
      /\ UNCHANGED <<key_arr_, size_, memory_size_, temps, pc>>
  BY TableNow DEF Set
<1>2. s \in Slots(ArraySize)
  BY <1>1, TableNow, FirstHolding DEF has
<1> HIDE DEF s
<1>3. ArraySize' = ArraySize
  BY <1>1 DEF ArraySize
<1>4. TypeOK'
  BY <1>1, <1>3 DEF HInv, TypeOK, temps
<1>5. Sizes' /\ Counted' /\ TempType'
  BY <1>1, <1>3 DEF HInv, Sizes, Counted, TempType
<1>6. Valued'
  BY <1>1, <1>2, <1>3 DEF HInv, TypeOK, Valued, temps
<1> QED
  BY <1>1, <1>3, <1>4, <1>5, <1>6 DEF HInv, Copying

LEMMA HInvGrowEnd ==
  ASSUME HInv, GrowEnd
  PROVE  HInv'
<1>1. /\ pc = "grow" /\ i = size_ /\ key_arr_' = tempKeys /\ val_arr_' = tempVals
      /\ pc' = "insert" /\ UNCHANGED <<size_, memory_size_, temps>>
  BY DEF GrowEnd
<1>2. /\ ArraySize \in Nat /\ memory_size_ = 2 * ArraySize /\ size_ \in Nat
      /\ IsTable(tempKeys, memory_size_) /\ Chained(tempKeys, memory_size_)
  BY <1>1, TableNow
<1>3. ArraySize' = memory_size_
  BY <1>1 DEF ArraySize
<1>4. TypeOK'
  BY <1>1, <1>2, <1>3 DEF HInv, TypeOK, TempType, IsTable, temps
<1>5. Sizes'
  BY <1>1, <1>2, <1>3 DEF HInv, Sizes, IsTable
<1>6. Counted' /\ Valued' /\ TempType' /\ Copying'
  BY <1>1, <1>2, <1>3 DEF HInv, Counted, Valued, TempType, Copying, temps
<1> QED
  BY <1>1, <1>2, <1>3, <1>4, <1>5, <1>6 DEF HInv

LEMMA HInvInsert ==
  ASSUME HInv, Insert
  PROVE  HInv'
<1> DEFINE k == adding.key
           s == First(k, memory_size_, Free(key_arr_, memory_size_, k))
<1>1. /\ pc = "insert" /\ ArraySize = memory_size_ /\ memory_size_ \in Nat
      /\ key_arr_' = [key_arr_ EXCEPT ![s] = k]
      /\ val_arr_' = [val_arr_ EXCEPT ![s] = adding.val]
      /\ size_' = size_ + 1 /\ pc' = "idle" /\ UNCHANGED <<memory_size_, temps>>
      /\ Free(key_arr_, memory_size_, k) # {}
      /\ k \in Key /\ adding.val \in Value /\ size_ \in Nat
  BY TableNow DEF Insert, HInv, Valued
<1>2. /\ s = First(k, memory_size_, Free(key_arr_, memory_size_, k))
      /\ IsTable(key_arr_, memory_size_) /\ Chained(key_arr_, memory_size_)
  BY <1>1, TableNow
<1> HIDE DEF s, k
<1>3. s \in Slots(memory_size_)
  BY <1>1, <1>2, FirstFree
<1>4. /\ IsTable(key_arr_', memory_size_) /\ Chained(key_arr_', memory_size_)
      /\ Cardinality(Taken(key_arr_', memory_size_))
           = Cardinality(Taken(key_arr_, memory_size_)) + 1
  <2>1. key_arr_' = PutKey(key_arr_, memory_size_, k)
    BY <1>1, <1>2 DEF PutKey, Spot
  <2>2. /\ IsTable(key_arr_, memory_size_) /\ Chained(key_arr_, memory_size_)
        /\ k \in Key /\ Free(key_arr_, memory_size_, k) # {}
    BY <1>1, <1>2
  <2> QED
    BY <2>1, <2>2, PlacedTable
<1>5. ArraySize' = memory_size_
  BY <1>1 DEF ArraySize
<1>6. TypeOK'
  BY <1>1, <1>3, <1>4, <1>5 DEF HInv, TypeOK, IsTable, temps
<1>7. Sizes'
  BY <1>1, <1>5 DEF HInv, Sizes
<1>8. Counted'
  BY <1>1, <1>4, <1>5 DEF HInv, Counted
<1>9. Valued'
  BY <1>1, <1>2, <1>3, <1>5, TableNow DEF HInv, Valued, IsTable
<1>10. TempType' /\ Copying'
  BY <1>1 DEF TempType, Copying
<1> QED
  BY <1>1, <1>4, <1>5, <1>6, <1>7, <1>8, <1>9, <1>10 DEF HInv

LEMMA HInvGrowCopy ==
  ASSUME HInv, GrowCopy
  PROVE  HInv'
<1> DEFINE k == key_arr_[i]
           v == val_arr_[i]
           m == memory_size_
           s == First(k, m, Free(tempKeys, m, k))
<1>1. /\ pc = "grow" /\ i < size_ /\ k # Null
      /\ tempKeys' = [tempKeys EXCEPT ![s] = k]
      /\ tempVals' = [tempVals EXCEPT ![s] = v]
      /\ i' = i + 1
      /\ UNCHANGED <<table, adding, pc>>
  BY DEF GrowCopy
<1>2. /\ ArraySize \in Nat /\ m = 2 * ArraySize /\ m \in Nat
      /\ i \in Nat /\ size_ \in Nat /\ 2 * size_ = ArraySize
      /\ IsTable(key_arr_, ArraySize) /\ Chained(key_arr_, ArraySize)
      /\ IsTable(tempKeys, m) /\ Chained(tempKeys, m)
      /\ Cardinality(Taken(tempKeys, m)) = i
  BY <1>1, TableNow DEF HInv, Sizes, Counted
<1>3. i \in Slots(ArraySize) /\ k \in Key /\ v \in Value
  BY <1>1, <1>2 DEF Slots, IsTable, HInv, Valued
<1>4. Free(tempKeys, m, k) # {}
  BY <1>1, <1>2, <1>3, RoomForKey
<1>5. s = First(k, m, Free(tempKeys, m, k))
  OBVIOUS
<1>6. ArraySize' = ArraySize
  BY <1>1 DEF ArraySize, table
<1>7. tempVals \in [Slots(m) -> Value \cup {Null}]
  BY <1>1 DEF HInv, TempType
<1> HIDE DEF s, k, v, m
<1>8. /\ IsTable(tempKeys', m) /\ Chained(tempKeys', m)
      /\ Cardinality(Taken(tempKeys', m)) = Cardinality(Taken(tempKeys, m)) + 1
  <2>1. /\ IsTable(tempKeys, m) /\ Chained(tempKeys, m) /\ k \in Key
        /\ Free(tempKeys, m, k) # {} /\ tempKeys' = PutKey(tempKeys, m, k)
    BY <1>1, <1>2, <1>3, <1>4, <1>5 DEF PutKey, Spot
  <2> QED
    BY <2>1, PlacedTable
<1>9. ASSUME NEW q \in Key
      PROVE  /\ Has(tempKeys', m, q) <=> (Has(tempKeys, m, q) \/ q = k)
             /\ q = k /\ ~Has(tempKeys, m, k) => Get(tempKeys', tempVals', m, q) = v
             /\ q # k \/ Has(tempKeys, m, k) =>
                  Get(tempKeys', tempVals', m, q) = Get(tempKeys, tempVals, m, q)
  <2>1. /\ IsTable(tempKeys, m) /\ Chained(tempKeys, m) /\ k \in Key /\ v \in Value
        /\ tempVals \in [Slots(m) -> Value \cup {Null}]
        /\ Free(tempKeys, m, k) # {} /\ tempKeys' = PutKey(tempKeys, m, k)
        /\ tempVals' = PutVal(tempKeys, tempVals, m, k, v)
    BY <1>1, <1>2, <1>3, <1>4, <1>5, <1>7 DEF PutKey, PutVal, Spot
  <2> QED
    BY <2>1, PlacedKeys
<1>10. s \in Slots(m)
  BY <1>2, <1>3, <1>4, <1>5, FirstFree
<1>11. m' = m /\ UNCHANGED <<key_arr_, val_arr_, size_>>
  BY <1>1 DEF table, m
<1>12. TypeOK'
  BY <1>1, <1>2, <1>6, <1>11 DEF HInv, TypeOK, table, m
<1>13. Sizes'
  BY <1>1, <1>2, <1>6, <1>11 DEF HInv, Sizes, table, m
<1>14. Counted'
  BY <1>1, <1>2, <1>6, <1>8, <1>11 DEF HInv, Counted, table, m
<1>15. Valued'
  BY <1>1, <1>6, <1>11 DEF HInv, Valued
<1>16. TempType'
  BY <1>1, <1>3, <1>7, <1>8, <1>10, <1>11 DEF HInv, TempType, IsTable, m
<1>17. Copying'
  <2>1. \A q \in Key : Copied(q)' = IF q = k THEN Copied(q) \cup {i} ELSE Copied(q)
    BY <1>1, <1>2, <1>3, <1>6, <1>11 DEF Copied, k, Slots
  <2>2. \A r \in Slots(ArraySize) : r < i + 1 => r < i \/ r = i
    BY <1>2 DEF Slots
  <2>3. ASSUME NEW q \in Key
        PROVE  /\ Has(tempKeys', m, q) <=> Copied(q)' # {}
               /\ \A t \in Copied(q)' :
                    (\A r \in Copied(q)' : t <= r)
                      => Get(tempKeys', tempVals', m, q) = val_arr_[t]
    <3>1. Has(tempKeys, m, q) <=> Copied(q) # {}
      BY <1>1 DEF HInv, Copying, m
    <3>2. Has(tempKeys', m, q) <=> Copied(q)' # {}
      BY <3>1, <2>1, <1>9
    <3>3. ASSUME NEW t \in Copied(q)', \A r \in Copied(q)' : t <= r
          PROVE  Get(tempKeys', tempVals', m, q) = val_arr_[t]
      <4>1. CASE Copied(q) = {}
        <5>1. q = k /\ t = i
          BY <4>1, <3>3, <2>1
        <5> QED
          BY <5>1, <4>1, <3>1, <1>9 DEF v
      <4>2. CASE Copied(q) # {}
        <5>1. \A r \in Copied(q) : r \in Nat /\ r < i
          BY DEF Copied, Slots
        <5>2. t \in Copied(q) /\ \A r \in Copied(q) : t <= r
          BY <4>2, <5>1, <3>3, <2>1, <1>2
        <5>3. Get(tempKeys, tempVals, m, q) = val_arr_[t]
          BY <5>2, <1>1 DEF HInv, Copying, m
        <5> QED
          BY <5>3, <4>2, <3>1, <1>9
      <4> QED
        BY <4>1, <4>2
    <3> QED
      BY <3>2, <3>3
  <2>4. \A r \in Slots(ArraySize) : r < i' => key_arr_[r] # Null
    BY <2>2, <1>1 DEF HInv, Copying, k
  <2> QED
    BY <2>3, <2>4, <1>6, <1>11 DEF Copying, m
<1> QED
  BY <1>1, <1>6, <1>8, <1>11, <1>12, <1>13, <1>14, <1>15, <1>16, <1>17 DEF HInv, m

LEMMA HInvStep == HInv /\ [Next]_vars => HInv'
<1> SUFFICES ASSUME HInv, [Next]_vars PROVE HInv'
  OBVIOUS
<1>1. CASE UNCHANGED vars
  BY <1>1, HInvOutside DEF vars, table
<1>2. ASSUME NEW k \in Key, NEW v \in Value, Add(k, v) \/ Set(k, v)
      PROVE  HInv'
  BY <1>2, HInvAdd, HInvSet
<1>3. CASE GrowCrash
  BY <1>3, HInvOutside DEF GrowCrash, table
<1>4. ASSUME NEW k \in Key, SetAbsent(k)
      PROVE  HInv'
  BY <1>4, HInvOutside DEF SetAbsent, table
<1> QED
  BY <1>1, <1>2, <1>3, <1>4, HInvGrowCopy, HInvGrowEnd, HInvInsert DEF Next

THEOREM HInvInductive == Spec => []HInv
BY HInvInit, HInvStep, PTL DEF Spec

(* The variables of the map have the values of their types: while it grows *)
(* the arrays have half of memory_size_, and otherwise all of it.          *)
THEOREM TypeCorrect == Spec => []TypeOK
<1>1. HInv => TypeOK
  BY DEF HInv
<1> QED
  BY <1>1, HInvInductive, PTL

(* An add that has decided to insert finds a slot, through any number of   *)
(* growths and whatever the hashes, although its loop skips slot 0.        *)
THEOREM AddFindsRoom == Spec => []FindsRoom
<1>1. HInv => FindsRoom
  <2> SUFFICES ASSUME HInv, pc = "insert"
               PROVE  Free(key_arr_, memory_size_, adding.key) # {}
    BY DEF FindsRoom
  <2>1. /\ IsTable(key_arr_, memory_size_) /\ adding.key \in Key
        /\ 2 * Cardinality(Taken(key_arr_, memory_size_)) < memory_size_
    BY TableNow DEF HInv, Sizes, Counted, Valued
  <2> QED
    BY <2>1, RoomForKey
<1> QED
  BY <1>1, HInvInductive, PTL
-----------------------------------------------------------------------------
\* The dictionary.

Dict == [k \in Key |-> Get(key_arr_, val_arr_, ArraySize, k)]

LEMMA FoundValues ==
  ASSUME HInv, NEW k \in Key
  PROVE  /\ Has(key_arr_, ArraySize, k) => Dict[k] \in Value
         /\ ~Has(key_arr_, ArraySize, k) => Dict[k] = Null
         /\ Dict[k] = Null <=> ~Has(key_arr_, ArraySize, k)
<1>1. k # Null /\ Null \notin Value
  BY HashMapAssumption
<1>2. ASSUME Has(key_arr_, ArraySize, k) PROVE Dict[k] \in Value
  <2>1. /\ First(k, ArraySize, Holding(key_arr_, ArraySize, k)) \in Slots(ArraySize)
        /\ key_arr_[First(k, ArraySize, Holding(key_arr_, ArraySize, k))] = k
    BY <1>2, TableNow, FirstHolding
  <2> QED
    BY <2>1, <1>1, <1>2 DEF Dict, Get, HInv, Valued
<1>3. ~Has(key_arr_, ArraySize, k) => Dict[k] = Null
  BY DEF Dict, Get
<1> QED
  BY <1>1, <1>2, <1>3

\* When all is copied, each key is found in the new arrays as in the old ones.
LEMMA GrownTheSame ==
  ASSUME HInv, pc = "grow", i = size_, NEW k \in Key
  PROVE  Get(tempKeys, tempVals, memory_size_, k) = Get(key_arr_, val_arr_, ArraySize, k)
<1> DEFINE A == ArraySize
           h == index(k, A)
           f == First(k, A, Holding(key_arr_, A, k))
<1>1. /\ A \in Nat /\ A >= 2 /\ size_ \in Nat /\ 2 * size_ = A
      /\ IsTable(key_arr_, A) /\ Chained(key_arr_, A)
      /\ Cardinality(Taken(key_arr_, A)) = size_
      /\ \A s \in Slots(A) : s < size_ => key_arr_[s] # Null
  BY TableNow DEF HInv, Sizes, Counted, Copying
<1>2. k # Null
  BY HashMapAssumption
<1>3. \A s \in Copied(k) : (\A r \in Copied(k) : s <= r)
        => Get(tempKeys, tempVals, memory_size_, k) = val_arr_[s]
  BY DEF HInv, Copying
<1>4. Has(tempKeys, memory_size_, k) <=> Copied(k) # {}
  BY DEF HInv, Copying
<1>5. Copied(k) = {s \in Slots(A) : s < size_ /\ key_arr_[s] = k}
  BY DEF Copied
<1>6. h \in Slots(A) /\ Reachable(k, A) \subseteq Slots(A)
  BY <1>1, SlotsOfLoop
<1>7. f = First(k, A, Holding(key_arr_, A, k))
  OBVIOUS
<1> HIDE DEF A, f
\* The keys are in the first slots, all of them.
<1>8. Taken(key_arr_, A) = 0 .. size_ - 1
  <2>1. IsFiniteSet(Taken(key_arr_, A))
    <3>1. IsFiniteSet(Slots(A))
      BY <1>1, FS_Interval DEF Slots
    <3> QED
      BY <3>1, FS_Subset DEF Taken
  <2>2. 0 .. size_ - 1 \subseteq Taken(key_arr_, A)
    BY <1>1 DEF Taken, Slots
  <2>3. Cardinality(0 .. size_ - 1) = size_
    BY <1>1, FS_Interval
  <2> QED
    BY <2>1, <2>2, <2>3, <1>1, FS_Subset
<1>9. Holding(key_arr_, A, k) = Copied(k)
  <2>1. ASSUME NEW s \in Holding(key_arr_, A, k) PROVE s \in Copied(k)
    <3>1. s \in Slots(A) /\ key_arr_[s] = k
      BY <1>6 DEF Holding
    <3>2. s \in 0 .. size_ - 1
      BY <3>1, <1>2, <1>8 DEF Taken
    <3> QED
      BY <3>1, <3>2, <1>1, <1>5
  <2>2. ASSUME NEW s \in Copied(k) PROVE s \in Holding(key_arr_, A, k)
    BY <1>1, <1>2, <1>5 DEF Chained, Holding
  <2> QED
    BY <2>1, <2>2
\* No loop for k has started over.
<1>10. ASSUME NEW s \in Copied(k) PROVE s >= h
  <2> SUFFICES ASSUME s < h PROVE FALSE
    BY <1>1, <1>5, <1>6 DEF Slots
  <2>1. s \in Slots(A) /\ key_arr_[s] = k
    BY <1>5
  <2>2. A - 1 \in Reachable(k, A)
    BY <1>1 DEF Reachable, Slots
  <2>3. Distance(k, A, A - 1) < Distance(k, A, s)
    BY <2>1, <1>1, <1>6 DEF Distance, Slots
  <2>4. key_arr_[A - 1] # Null
    BY <2>1, <2>2, <2>3, <1>1, <1>2 DEF Chained, Before
  <2>5. A - 1 \in Taken(key_arr_, A)
    BY <2>4, <1>1 DEF Taken, Slots
  <2> QED
    BY <2>5, <1>1, <1>8
<1>11. CASE Copied(k) = {}
  BY <1>4, <1>9, <1>11 DEF Get, Has, A
<1>12. CASE Copied(k) # {}
  <2>1. Copied(k) \subseteq Slots(A)
    BY <1>5
  <2>2. /\ f \in Copied(k)
        /\ \A r \in Copied(k) : Distance(k, A, f) <= Distance(k, A, r)
    BY <2>1, <1>1, <1>7, <1>9, <1>12, FirstOfSlots
  <2>3. ASSUME NEW r \in Copied(k) PROVE f <= r
    <3>1. f \in Nat /\ r \in Nat /\ h \in Nat /\ f >= h /\ r >= h
      BY <2>1, <2>2, <1>1, <1>6, <1>10 DEF Slots
    <3>2. Distance(k, A, f) = f - h /\ Distance(k, A, r) = r - h
      BY <3>1 DEF Distance
    <3> QED
      BY <3>1, <3>2, <2>2
  <2>4. Get(tempKeys, tempVals, memory_size_, k) = val_arr_[f]
    BY <2>2, <2>3, <1>3
  <2>5. Get(key_arr_, val_arr_, A, k) = val_arr_[f]
    BY <1>7, <1>9, <1>12 DEF Get, Has
  <2> QED
    BY <2>4, <2>5 DEF A
<1> QED
  BY <1>11, <1>12

LEMMA SetIsSet ==
  ASSUME HInv, NEW k \in Key, NEW v \in Value, Set(k, v)
  PROVE  Dict[k] # Null /\ Dict' = [Dict EXCEPT ![k] = v]
<1> DEFINE s == First(k, memory_size_, Holding(key_arr_, memory_size_, k))
<1>1. /\ ArraySize = memory_size_ /\ has(k)
      /\ val_arr_' = [val_arr_ EXCEPT ![s] = v]
      /\ UNCHANGED <<key_arr_, memory_size_, pc>>
  BY TableNow DEF Set
<1>2. s \in Slots(ArraySize) /\ key_arr_[s] = k
  BY <1>1, TableNow, FirstHolding DEF has
<1>3. s = First(k, ArraySize, Holding(key_arr_, ArraySize, k))
  BY <1>1
<1> HIDE DEF s
<1>4. ArraySize' = ArraySize
  BY <1>1 DEF ArraySize
<1>5. Dict[k] # Null
  BY <1>1, FoundValues DEF has
<1>6. ASSUME NEW q \in Key
      PROVE  Get(key_arr_, val_arr_', ArraySize, q)
               = IF q = k THEN v ELSE Get(key_arr_, val_arr_, ArraySize, q)
  <2>1. CASE q = k
    BY <2>1, <1>1, <1>2, <1>3, TableNow DEF Get, has
  <2>2. CASE q # k /\ Has(key_arr_, ArraySize, q)
    <3> DEFINE g == First(q, ArraySize, Holding(key_arr_, ArraySize, q))
    <3>1. g \in Slots(ArraySize) /\ key_arr_[g] = q
      BY <2>2, TableNow, FirstHolding
    <3>2. val_arr_'[g] = val_arr_[g]
      <4> HIDE DEF g
      <4> QED
        BY <3>1, <2>2, <1>1, <1>2, TableNow
    <3> QED
      BY <3>2, <2>2 DEF Get
  <2>3. CASE q # k /\ ~Has(key_arr_, ArraySize, q)
    BY <2>3 DEF Get
  <2> QED
    BY <2>1, <2>2, <2>3
<1>7. Dict' = [q \in Key |-> Get(key_arr_, val_arr_', ArraySize, q)]
  BY <1>1, <1>4 DEF Dict
<1>8. Dict' = [Dict EXCEPT ![k] = v]
  BY <1>6, <1>7 DEF Dict
<1> QED
  BY <1>5, <1>8

LEMMA InsertIsAdd ==
  ASSUME HInv, Insert
  PROVE  \/ Dict' = Dict
         \/ \E k \in Key, v \in Value : Dict[k] = Null /\ Dict' = [Dict EXCEPT ![k] = v]
<1> DEFINE k == adding.key
           v == adding.val
           m == memory_size_
<1>1. /\ pc = "insert" /\ ArraySize = m /\ k \in Key /\ v \in Value
      /\ key_arr_' = PutKey(key_arr_, m, k)
      /\ val_arr_' = PutVal(key_arr_, val_arr_, m, k, v)
      /\ pc' = "idle" /\ m' = m
      /\ Free(key_arr_, m, k) # {}
  BY TableNow DEF Insert, HInv, Valued, PutKey, PutVal, Spot
<1>2. /\ IsTable(key_arr_, m) /\ Chained(key_arr_, m)
      /\ val_arr_ \in [Slots(m) -> Value \cup {Null}]
  BY <1>1, TableNow
<1>3. ArraySize' = m
  BY <1>1 DEF ArraySize
<1> HIDE DEF k, v, m
<1>4. ASSUME NEW q \in Key
      PROVE  /\ q = k /\ ~Has(key_arr_, m, k) => Get(key_arr_', val_arr_', m, q) = v
             /\ q # k \/ Has(key_arr_, m, k) =>
                  Get(key_arr_', val_arr_', m, q) = Get(key_arr_, val_arr_, m, q)
  BY <1>1, <1>2, PlacedKeys
<1>5. /\ Dict = [q \in Key |-> Get(key_arr_, val_arr_, m, q)]
      /\ Dict' = [q \in Key |-> Get(key_arr_', val_arr_', m, q)]
  BY <1>1, <1>3 DEF Dict
<1>6. CASE Has(key_arr_, m, k)
  <2>1. Dict' = Dict
    BY <1>4, <1>5, <1>6
  <2> QED
    BY <2>1
<1>7. CASE ~Has(key_arr_, m, k)
  <2>1. Dict' = [Dict EXCEPT ![k] = v]
    BY <1>4, <1>5, <1>7
  <2>2. Dict[k] = Null
    BY <1>1, <1>7, FoundValues
  <2> QED
    BY <2>1, <2>2, <1>1
<1> QED
  BY <1>6, <1>7

LEMMA GrowEndIsNothing ==
  ASSUME HInv, GrowEnd
  PROVE  Dict' = Dict
<1>1. /\ pc = "grow" /\ i = size_ /\ key_arr_' = tempKeys /\ val_arr_' = tempVals
      /\ pc' = "insert" /\ memory_size_' = memory_size_
  BY DEF GrowEnd
<1>2. ArraySize' = memory_size_
  BY <1>1 DEF ArraySize
<1>3. \A k \in Key : Get(tempKeys, tempVals, memory_size_, k)
                       = Get(key_arr_, val_arr_, ArraySize, k)
  BY <1>1, GrownTheSame
<1>4. Dict' = [k \in Key |-> Get(tempKeys, tempVals, memory_size_, k)]
  BY <1>1, <1>2 DEF Dict
<1> QED
  BY <1>3, <1>4 DEF Dict

\* Every other step leaves the arrays and their size.
LEMMA OthersAreNothing ==
  ASSUME HInv, UNCHANGED <<key_arr_, val_arr_>>,
         \/ UNCHANGED <<memory_size_, pc>>
         \/ pc = "grow" /\ pc' = "crashed" /\ UNCHANGED memory_size_
         \/ pc = "idle" /\ pc' \in {"idle", "looping", "insert", "aborted"}
              /\ UNCHANGED memory_size_
         \/ pc = "idle" /\ pc' = "grow" /\ memory_size_' = 2 * memory_size_
  PROVE  Dict' = Dict
<1>1. ArraySize' = ArraySize
  BY TableNow DEF ArraySize
<1> QED
  BY <1>1 DEF Dict

LEMMA StepIsDictionary ==
  ASSUME HInv, [Next]_vars
  PROVE  \/ Dict' = Dict
         \/ \E k \in Key, v \in Value :
              \/ Dict[k] = Null /\ Dict' = [Dict EXCEPT ![k] = v]
              \/ Dict[k] # Null /\ Dict' = [Dict EXCEPT ![k] = v]
<1>1. CASE UNCHANGED vars \/ GrowCrash \/ GrowCopy \/ \E k \in Key : SetAbsent(k)
  BY <1>1, OthersAreNothing DEF vars, table, GrowCrash, GrowCopy, SetAbsent
<1>2. ASSUME NEW k \in Key, NEW v \in Value, Add(k, v)
      PROVE  Dict' = Dict
  BY <1>2, OthersAreNothing DEF Add, table
<1>3. ASSUME NEW k \in Key, NEW v \in Value, Set(k, v)
      PROVE  Dict[k] # Null /\ Dict' = [Dict EXCEPT ![k] = v]
  BY <1>3, SetIsSet
<1> QED
  BY <1>1, <1>2, <1>3, InsertIsAdd, GrowEndIsNothing DEF Next

(* The map implements the dictionary: with any hashes, through collisions, *)
(* loops that start over and every growth that does not end the program,   *)
(* get finds the value a key was added or last set with, and no other; a   *)
(* key added twice, in a build without assertions, keeps its first value.  *)
THEOREM RefinesDictionary == Spec => DictionarySpec
<1>1. Init => AsDictionary!Init
  <2> SUFFICES ASSUME Init PROVE Dict = [k \in Key |-> Null]
    BY DEF AsDictionary!Init, Dict
  <2>1. /\ ArraySize = InitialMemory /\ key_arr_ = Empty(InitialMemory)
        /\ InitialMemory \in Nat /\ InitialMemory >= 2
    BY HashMapAssumption DEF Init, ArraySize
  <2>2. \A k \in Key : ~Has(key_arr_, ArraySize, k)
    BY <2>1, EmptyTable
  <2> QED
    BY <2>2 DEF Dict, Get
<1>2. HInv /\ [Next]_vars =>
        [AsDictionary!Next]_[k \in Key |-> Get(key_arr_, val_arr_, ArraySize, k)]
  BY StepIsDictionary DEF AsDictionary!Next, AsDictionary!Add, AsDictionary!Set, Dict
<1> QED
  BY <1>1, <1>2, HInvInductive, PTL DEF Spec, DictionarySpec, AsDictionary!Spec
=============================================================================
