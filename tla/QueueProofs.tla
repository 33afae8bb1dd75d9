---------------------------- MODULE QueueProofs -----------------------------
(***************************************************************************)
(* Theorems about the circular queue and about the message queue that has  *)
(* one as a part.  First what the operations do, for every queue whose     *)
(* fields agree; then a queue in one thread, for every InitialMemory and   *)
(* any number of calls; then a message queue, for any number of producers: *)
(* no wakeup is lost, and while the array does not grow at a moved head    *)
(* the interleaved pushes and pops are a first-in first-out queue.         *)
(***************************************************************************)
EXTENDS MessageQueue, SequenceFacts

\* What IsQueue says of each field, and a record it accepts.
LEMMA Fields ==
  ASSUME NEW r, IsQueue(r)
  PROVE  /\ r.memory_size_ \in Nat \ {0}
         /\ r.size_ \in Nat /\ r.size_ <= r.memory_size_
         /\ r.firstIndex_ \in Nat /\ r.firstIndex_ < r.memory_size_
         /\ r.arr_ \in [0 .. r.memory_size_ - 1 -> Item \cup {Garbage}]
  BY DEF IsQueue

LEMMA MakesQueue ==
  ASSUME NEW n \in Nat \ {0}, NEW c \in 0 .. n, NEW f \in 0 .. n - 1,
         NEW a \in [0 .. n - 1 -> Item \cup {Garbage}]
  PROVE  IsQueue([arr_ |-> a, size_ |-> c, memory_size_ |-> n,
                  firstIndex_ |-> f])
  BY DEF IsQueue

\* The index of an element: it lies in the array, and as it is below twice the
\* size, taking it modulo the size subtracts the size at most once.
LEMMA IndexInArray ==
  ASSUME NEW r, IsQueue(r), NEW e \in 0 .. r.memory_size_ - 1
  PROVE  /\ get_index_at(r, e) \in 0 .. r.memory_size_ - 1
         /\ get_index_at(r, e) = IF r.firstIndex_ + e < r.memory_size_
                                 THEN r.firstIndex_ + e
                                 ELSE r.firstIndex_ + e - r.memory_size_
<1> DEFINE n == r.memory_size_
           f == r.firstIndex_
<1>1. n \in Nat \ {0} /\ f \in Nat /\ f < n /\ e \in Nat /\ e < n
  BY Fields
<1>2. get_index_at(r, e) = (f + e) % n
  BY DEF get_index_at
<1> HIDE DEF n, f
<1>3. (f + e) % n = IF f + e < n THEN f + e ELSE f + e - n
  BY <1>1
<1>4. get_index_at(r, e) \in 0 .. n - 1
  BY <1>1, <1>2, <1>3
<1> QED
  BY <1>2, <1>3, <1>4 DEF n, f

LEMMA NewIsQueue == IsQueue(NewQueue) /\ NewQueue.memory_size_ = InitialMemory
<1> DEFINE a == [i \in 0 .. InitialMemory - 1 |-> Garbage]
<1>1. /\ InitialMemory \in Nat \ {0}
      /\ 0 \in 0 .. InitialMemory
      /\ 0 \in 0 .. InitialMemory - 1
      /\ a \in [0 .. InitialMemory - 1 -> Item \cup {Garbage}]
  BY QueueAssumption
<1>2. NewQueue = [arr_ |-> a, size_ |-> 0,
                  memory_size_ |-> InitialMemory, firstIndex_ |-> 0]
  BY DEF NewQueue
<1> HIDE DEF a
<1> QED
  BY <1>1, <1>2, MakesQueue

\* The elements form a sequence as long as the count.
LEMMA ContentsIsSeq ==
  ASSUME NEW r, IsQueue(r)
  PROVE  /\ Contents(r) \in Seq(Item \cup {Garbage})
         /\ Len(Contents(r)) = r.size_
         /\ \A i \in 1 .. r.size_ : Contents(r)[i] = get_el_at(r, i - 1)
<1> DEFINE S == Item \cup {Garbage}
           c == [i \in 1 .. r.size_ |-> get_el_at(r, i - 1)]
<1>1. r.size_ \in Nat
  BY Fields
<1>2. ASSUME NEW i \in 1 .. r.size_
      PROVE  get_el_at(r, i - 1) \in S
  <2>1. i - 1 \in 0 .. r.memory_size_ - 1
    BY Fields
  <2>2. get_index_at(r, i - 1) \in 0 .. r.memory_size_ - 1
    BY <2>1, IndexInArray
  <2> QED
    BY <2>2, Fields DEF get_el_at
<1>3. c \in [1 .. r.size_ -> S]
  BY <1>2
<1> HIDE DEF c, S
<1>4. c \in Seq(S)
  BY <1>1, <1>3, SeqDef
<1>5. Len(c) = r.size_
  BY <1>1, <1>3, <1>4, LenProperties
<1> QED
  BY <1>4, <1>5 DEF c, S, Contents

\* incrementSize doubles the array and keeps the count.
LEMMA Grows ==
  ASSUME NEW r, IsQueue(r)
  PROVE  /\ IsQueue(incrementSize(r))
         /\ incrementSize(r).size_ = r.size_
         /\ incrementSize(r).memory_size_ = 2 * r.memory_size_
<1> DEFINE n      == 2 * r.memory_size_
           old(i) == (r.firstIndex_ + i) % n
           a      == [i \in 0 .. n - 1 |->
                        IF i <= r.size_ /\ old(i) < r.memory_size_
                        THEN r.arr_[old(i)] ELSE Garbage]
<1>1. incrementSize(r) = [arr_ |-> a, size_ |-> r.size_,
                          memory_size_ |-> n, firstIndex_ |-> 0]
  BY DEF incrementSize
<1>2. n \in Nat \ {0} /\ r.size_ \in 0 .. n /\ 0 \in 0 .. n - 1
  BY Fields
<1>3. ASSUME NEW i \in 0 .. n - 1
      PROVE  old(i) \in Nat
  BY <1>2, Fields
<1>4. ASSUME NEW j \in Nat, j < r.memory_size_
      PROVE  r.arr_[j] \in Item \cup {Garbage}
  BY <1>4, Fields
<1> HIDE DEF n, old
<1>5. a \in [0 .. n - 1 -> Item \cup {Garbage}]
  BY <1>3, <1>4
<1> HIDE DEF a
<1>6. IsQueue(incrementSize(r))
  BY <1>1, <1>2, <1>5, MakesQueue
<1> QED
  BY <1>1, <1>6 DEF n

\* MakeRoom leaves a queue with the same count and a free slot.
LEMMA MakesRoom ==
  ASSUME NEW r, IsQueue(r)
  PROVE  /\ IsQueue(MakeRoom(r))
         /\ MakeRoom(r).size_ = r.size_
         /\ MakeRoom(r).size_ < MakeRoom(r).memory_size_
<1>1. CASE r.size_ # r.memory_size_
  BY <1>1, Fields DEF MakeRoom
<1>2. CASE r.size_ = r.memory_size_
  BY <1>2, Fields, Grows DEF MakeRoom
<1> QED
  BY <1>1, <1>2

LEMMA AddIsQueue ==
  ASSUME NEW r, IsQueue(r), NEW m \in Item \cup {Garbage}
  PROVE  IsQueue(add(r, m))
<1> DEFINE s == MakeRoom(r)
           i == get_index_at(s, s.size_)
           a == [s.arr_ EXCEPT ![i] = m]
<1>1. IsQueue(s) /\ s.size_ < s.memory_size_
  BY MakesRoom
<1>2. add(r, m) = [arr_ |-> a, size_ |-> s.size_ + 1,
                   memory_size_ |-> s.memory_size_,
                   firstIndex_ |-> s.firstIndex_]
  BY DEF add
<1> HIDE DEF s
<1>3. a \in [0 .. s.memory_size_ - 1 -> Item \cup {Garbage}]
  BY <1>1, Fields
<1>4. /\ s.memory_size_ \in Nat \ {0}
      /\ s.size_ + 1 \in 0 .. s.memory_size_
      /\ s.firstIndex_ \in 0 .. s.memory_size_ - 1
  BY <1>1, Fields
<1> HIDE DEF a
<1> QED
  BY <1>2, <1>3, <1>4, MakesQueue

LEMMA RemoveIsQueue ==
  ASSUME NEW r, IsQueue(r), r.size_ > 0
  PROVE  /\ IsQueue(remove(r))
         /\ Removed(r) \in Item \cup {Garbage}
<1> DEFINE f == IF r.firstIndex_ = r.memory_size_ - 1
                THEN 0 ELSE r.firstIndex_ + 1
<1>1. remove(r) = [arr_ |-> r.arr_, size_ |-> r.size_ - 1,
                   memory_size_ |-> r.memory_size_, firstIndex_ |-> f]
  BY DEF remove
<1>2. /\ r.memory_size_ \in Nat \ {0}
      /\ r.size_ - 1 \in 0 .. r.memory_size_
      /\ f \in 0 .. r.memory_size_ - 1
  BY Fields
<1>3. Removed(r) \in Item \cup {Garbage}
  BY Fields DEF Removed
<1> HIDE DEF f
<1> QED
  BY <1>1, <1>2, <1>3, Fields, MakesQueue

\* add appends, as long as it does not grow an array whose head has moved.
LEMMA AddAppends ==
  ASSUME NEW r, IsQueue(r), NEW m \in Item \cup {Garbage},
         r.size_ < r.memory_size_ \/ r.firstIndex_ = 0
  PROVE  Contents(add(r, m)) = Append(Contents(r), m)
<1> DEFINE s == MakeRoom(r)
           t == add(r, m)
<1>1. /\ IsQueue(s)
      /\ s.size_ < s.memory_size_
      /\ s.size_ = r.size_
  BY MakesRoom
<1>2. r.size_ \in Nat /\ s.memory_size_ \in Nat
  BY <1>1, Fields
<1>3. ASSUME NEW e \in 0 .. r.size_ - 1
      PROVE  get_el_at(s, e) = get_el_at(r, e)
  <2>1. CASE r.size_ # r.memory_size_
    BY <2>1 DEF MakeRoom
  <2>2. CASE r.size_ = r.memory_size_
    <3>1. /\ r.firstIndex_ = 0
          /\ r.memory_size_ \in Nat \ {0}
          /\ e \in Nat /\ e < r.memory_size_
      BY <2>2, Fields
    <3>2. s = incrementSize(r)
      BY <2>2 DEF MakeRoom
    <3>3. s.firstIndex_ = 0 /\ s.memory_size_ = 2 * r.memory_size_
      BY <3>2 DEF incrementSize
    <3>4. get_index_at(r, e) = e
      BY <3>1, IndexInArray
    <3>5. (0 + e) % (2 * r.memory_size_) = e
      <4> DEFINE n == 2 * r.memory_size_
      <4>1. n \in Nat \ {0} /\ e < n
        BY <3>1
      <4> HIDE DEF n
      <4>2. (0 + e) % n = e
        BY <3>1, <4>1
      <4> QED
        BY <4>2 DEF n
    <3>6. get_index_at(s, e) = e
      BY <3>3, <3>5 DEF get_index_at
    <3>7. s.arr_[e] = r.arr_[e]
      BY <2>2, <3>1, <3>2, <3>5 DEF incrementSize
    <3> QED
      BY <3>4, <3>6, <3>7 DEF get_el_at
  <2> QED
    BY <2>1, <2>2
<1>4. t = [arr_ |-> [s.arr_ EXCEPT ![get_index_at(s, s.size_)] = m],
           size_ |-> s.size_ + 1,
           memory_size_ |-> s.memory_size_,
           firstIndex_ |-> s.firstIndex_]
  BY DEF add
<1> HIDE DEF s, t
<1>5. /\ t.size_ = r.size_ + 1
      /\ t.memory_size_ = s.memory_size_
      /\ t.firstIndex_ = s.firstIndex_
      /\ t.arr_ = [s.arr_ EXCEPT ![get_index_at(s, r.size_)] = m]
  BY <1>1, <1>4
<1>6. ASSUME NEW e \in 0 .. r.size_
      PROVE  get_index_at(t, e) = get_index_at(s, e)
  BY <1>5 DEF get_index_at
<1>7. get_el_at(t, r.size_) = m
  <2>1. get_index_at(s, r.size_) \in 0 .. s.memory_size_ - 1
    BY <1>1, <1>2, IndexInArray
  <2>2. t.arr_[get_index_at(s, r.size_)] = m
    BY <1>1, <1>5, <2>1, Fields
  <2> QED
    BY <1>2, <1>6, <2>2 DEF get_el_at
<1>8. ASSUME NEW e \in 0 .. r.size_ - 1
      PROVE  get_el_at(t, e) = get_el_at(r, e)
  <2>1. /\ e \in 0 .. s.memory_size_ - 1
        /\ r.size_ \in 0 .. s.memory_size_ - 1
        /\ e \in Nat /\ e < r.size_
    BY <1>1, <1>2
  <2>2. s.firstIndex_ \in Nat /\ s.firstIndex_ < s.memory_size_
    BY <1>1, Fields
  <2>3. /\ get_index_at(s, e) \in 0 .. s.memory_size_ - 1
        /\ get_index_at(s, e) = IF s.firstIndex_ + e < s.memory_size_
                                THEN s.firstIndex_ + e
                                ELSE s.firstIndex_ + e - s.memory_size_
        /\ get_index_at(s, r.size_) =
             IF s.firstIndex_ + r.size_ < s.memory_size_
             THEN s.firstIndex_ + r.size_
             ELSE s.firstIndex_ + r.size_ - s.memory_size_
    BY <1>1, <2>1, IndexInArray
  <2>4. get_index_at(s, e) # get_index_at(s, r.size_)
    BY <1>1, <1>2, <2>1, <2>2, <2>3
  <2>5. t.arr_[get_index_at(s, e)] = s.arr_[get_index_at(s, e)]
    BY <1>1, <1>5, <2>3, <2>4, Fields
  <2>6. get_el_at(t, e) = get_el_at(s, e)
    BY <1>2, <1>6, <2>5 DEF get_el_at
  <2> QED
    BY <1>3, <2>6
<1>9. IsQueue(t)
  BY AddIsQueue DEF t
<1>10. Contents(t) = Append(Contents(r), m)
  <2> DEFINE S == Item \cup {Garbage}
             c == Contents(r)
             d == Contents(t)
  <2>1. /\ c \in Seq(S) /\ Len(c) = r.size_
        /\ d \in Seq(S) /\ Len(d) = r.size_ + 1
        /\ m \in S
    BY <1>5, <1>9, ContentsIsSeq
  <2>2. \A i \in 1 .. r.size_ : c[i] = get_el_at(r, i - 1)
    BY ContentsIsSeq
  <2>3. \A i \in 1 .. r.size_ + 1 : d[i] = get_el_at(t, i - 1)
    BY <1>5, <1>9, ContentsIsSeq
  <2> HIDE DEF c, d, S
  <2>4. \A i \in 1 .. r.size_ : d[i] = c[i]
    BY <1>2, <1>8, <2>2, <2>3
  <2>5. d[r.size_ + 1] = m
    <3>1. r.size_ + 1 \in 1 .. r.size_ + 1 /\ (r.size_ + 1) - 1 = r.size_
      BY <1>2
    <3> QED
      BY <1>7, <2>3, <3>1
  <2>6. /\ Append(c, m) \in Seq(S)
        /\ Len(Append(c, m)) = r.size_ + 1
        /\ \A i \in 1 .. r.size_ : Append(c, m)[i] = c[i]
        /\ Append(c, m)[r.size_ + 1] = m
    BY <1>2, <2>1
  <2>7. \A i \in 1 .. Len(d) : d[i] = Append(c, m)[i]
    BY <1>2, <2>1, <2>4, <2>5, <2>6
  <2>8. d = Append(c, m)
    BY <2>1, <2>6, <2>7, SeqEqual
  <2> QED
    BY <2>8 DEF c, d
<1> QED
  BY <1>10 DEF t

\* remove takes the oldest element and leaves the others in order.
LEMMA RemoveTakesHead ==
  ASSUME NEW r, IsQueue(r), r.size_ > 0
  PROVE  /\ Contents(r) # <<>>
         /\ Removed(r) = Head(Contents(r))
         /\ Contents(remove(r)) = Tail(Contents(r))
<1> DEFINE c == Contents(r)
           t == remove(r)
<1>1. /\ r.size_ \in Nat \ {0}
      /\ r.memory_size_ \in Nat \ {0}
      /\ r.size_ <= r.memory_size_
      /\ r.firstIndex_ \in Nat
      /\ r.firstIndex_ < r.memory_size_
  BY Fields
<1>2. IsQueue(t)
  BY RemoveIsQueue
<1>3. /\ t.size_ = r.size_ - 1
      /\ t.memory_size_ = r.memory_size_
      /\ t.arr_ = r.arr_
      /\ t.firstIndex_ = IF r.firstIndex_ = r.memory_size_ - 1
                         THEN 0 ELSE r.firstIndex_ + 1
  BY DEF remove
<1>4. /\ c \in Seq(Item \cup {Garbage})
      /\ Len(c) = r.size_
      /\ \A i \in 1 .. r.size_ : c[i] = get_el_at(r, i - 1)
  BY ContentsIsSeq
<1>5. c # <<>> /\ Head(c) = c[1]
  <2> HIDE DEF c
  <2> QED
    BY <1>1, <1>4
<1>6. c[1] = Removed(r)
  <2>1. get_index_at(r, 0) = r.firstIndex_
    BY <1>1, IndexInArray
  <2>2. get_el_at(r, 0) = Removed(r)
    BY <2>1 DEF get_el_at, Removed
  <2>3. 1 \in 1 .. r.size_ /\ 1 - 1 = 0
    BY <1>1
  <2> HIDE DEF c
  <2>4. c[1] = get_el_at(r, 1 - 1)
    BY <1>4, <2>3
  <2> QED
    BY <2>2, <2>3, <2>4
<1>7. ASSUME NEW e \in 0 .. r.size_ - 2
      PROVE  get_el_at(t, e) = get_el_at(r, e + 1)
  <2> HIDE DEF t
  <2>1. /\ e \in 0 .. t.memory_size_ - 1
        /\ e + 1 \in 0 .. r.memory_size_ - 1
        /\ e \in Nat
    BY <1>1, <1>3
  <2>2. /\ get_index_at(t, e) = IF t.firstIndex_ + e < t.memory_size_
                                THEN t.firstIndex_ + e
                                ELSE t.firstIndex_ + e - t.memory_size_
        /\ get_index_at(r, e + 1) =
             IF r.firstIndex_ + (e + 1) < r.memory_size_
             THEN r.firstIndex_ + (e + 1)
             ELSE r.firstIndex_ + (e + 1) - r.memory_size_
    BY <1>2, <2>1, IndexInArray
  <2>3. get_index_at(t, e) = get_index_at(r, e + 1)
    BY <1>1, <1>3, <2>1, <2>2
  <2> QED
    BY <1>3, <2>3 DEF get_el_at
<1>8. Contents(t) = Tail(c)
  <2> DEFINE S == Item \cup {Garbage}
             d == Contents(t)
  <2>1. /\ d \in Seq(S) /\ Len(d) = r.size_ - 1
        /\ \A i \in 1 .. r.size_ - 1 : d[i] = get_el_at(t, i - 1)
    BY <1>2, <1>3, ContentsIsSeq
  <2>2. c \in Seq(S)
    BY <1>4
  <2> HIDE DEF c, d, t, S
  <2>3. /\ Tail(c) \in Seq(S)
        /\ Len(Tail(c)) = r.size_ - 1
        /\ \A i \in 1 .. r.size_ - 1 : Tail(c)[i] = c[i + 1]
    BY <1>4, <1>5, <2>2, HeadTailProperties
  <2>4. \A i \in 1 .. r.size_ - 1 : d[i] = c[i + 1]
    <3> SUFFICES ASSUME NEW i \in 1 .. r.size_ - 1 PROVE d[i] = c[i + 1]
      OBVIOUS
    <3>1. /\ i - 1 \in 0 .. r.size_ - 2
          /\ i + 1 \in 1 .. r.size_
          /\ (i - 1) + 1 = (i + 1) - 1
      BY <1>1
    <3>2. d[i] = get_el_at(r, (i - 1) + 1)
      BY <1>7, <2>1, <3>1
    <3> QED
      BY <1>4, <3>1, <3>2
  <2>5. \A i \in 1 .. Len(d) : d[i] = Tail(c)[i]
    BY <2>1, <2>3, <2>4
  <2>6. d = Tail(c)
    BY <2>1, <2>3, <2>5, SeqEqual
  <2> QED
    BY <2>6 DEF d
<1> QED
  BY <1>5, <1>6, <1>8
-----------------------------------------------------------------------------
(***************************************************************************)
(* clone: a fold of add over the contents, followed one add at a time.     *)
(***************************************************************************)
\* f is what the fold has made of the sets of positions up to m.
FoldTo(f, c, m) ==
  f = [p \in SUBSET (1 .. m) |->
         IF p = {} THEN NewQueue ELSE add(f[p \ {Max(p)}], c[Max(p)])]

LEMMA FoldExists ==
  ASSUME NEW c
  PROVE  \A m \in Nat : \E f : FoldTo(f, c, m)
<1> DEFINE T == {m \in Nat : \E f : FoldTo(f, c, m)}
<1>1. 0 \in T
  <2>1. SUBSET (1 .. 0) = {{}}
    OBVIOUS
  <2> DEFINE f == [p \in {{}} |-> NewQueue]
  <2>2. f = [p \in {{}} |-> IF p = {} THEN NewQueue ELSE add(f[p \ {Max(p)}], c[Max(p)])]
    OBVIOUS
  <2>3. FoldTo(f, c, 0)
    BY <2>1, <2>2, Zenon DEF FoldTo
  <2> QED
    BY <2>3
<1>2. ASSUME NEW m \in Nat, m \in T PROVE m + 1 \in T
  <2>1. PICK f : FoldTo(f, c, m)
    BY <1>2
  <2> DEFINE g == [p \in SUBSET (1 .. m + 1) |->
                     IF m + 1 \in p THEN add(f[p \ {m + 1}], c[m + 1]) ELSE f[p]]
  <2>2. ASSUME NEW p \in SUBSET (1 .. m + 1), p # {}
        PROVE  /\ Max(p) \in p /\ \A y \in p : Max(p) >= y
    <3>1. p \subseteq Nat /\ m + 1 \in Nat /\ \A y \in p : y <= m + 1
      OBVIOUS
    <3> HIDE DEF g
    <3> QED
      BY <2>2, <3>1, LargestNumber
  <2>3. ASSUME NEW p \in SUBSET (1 .. m + 1)
        PROVE  g[p] = IF p = {} THEN NewQueue ELSE add(g[p \ {Max(p)}], c[Max(p)])
    <3>1. CASE m + 1 \in p
      <4>1. Max(p) = m + 1
        <5>1. Max(p) \in 1 .. m + 1 /\ Max(p) >= m + 1
          BY <3>1, <2>2
        <5> QED
          BY <5>1
      <4>2. p \ {m + 1} \in SUBSET (1 .. m) /\ p \ {m + 1} \in SUBSET (1 .. m + 1)
        OBVIOUS
      <4>3. g[p] = add(f[p \ {m + 1}], c[m + 1]) /\ g[p \ {m + 1}] = f[p \ {m + 1}]
        BY <3>1, <4>2
      <4> HIDE DEF g
      <4> QED
        BY <3>1, <4>1, <4>3
    <3>2. CASE m + 1 \notin p
      <4>1. p \in SUBSET (1 .. m)
        BY <3>2
      <4>2. g[p] = f[p] /\ g[p \ {Max(p)}] = f[p \ {Max(p)}]
        BY <3>2
      <4>3. f[p] = IF p = {} THEN NewQueue ELSE add(f[p \ {Max(p)}], c[Max(p)])
        BY <4>1, <2>1, Zenon DEF FoldTo
      <4> HIDE DEF g
      <4> QED
        BY <4>2, <4>3
    <3> QED
      BY <3>1, <3>2
  <2>4. FoldTo(g, c, m + 1)
    <3>1. g = [p \in SUBSET (1 .. m + 1) |-> g[p]]
      OBVIOUS
    <3> HIDE DEF g
    <3> QED
      BY <3>1, <2>3 DEF FoldTo
  <2> HIDE DEF g
  <2> QED
    BY <2>4
<1> HIDE DEF T
<1>3. Nat \subseteq T
  BY <1>1, <1>2, AllNumbers
<1> QED
  BY <1>3 DEF T

\* The queues that clone makes on its way.
LEMMA CloneSteps ==
  ASSUME NEW r, IsQueue(r)
  PROVE  \E g : /\ g[0] = NewQueue /\ g[r.size_] = clone(r)
                /\ \A m \in 1 .. r.size_ : g[m] = add(g[m - 1], Contents(r)[m])
<1> DEFINE c == Contents(r)
<1>1. DOMAIN c = 1 .. r.size_ /\ r.size_ \in Nat
  BY Fields DEF Contents
<1>2. clone(r) =
        (CHOOSE h : h = [p \in SUBSET (DOMAIN c) |->
           IF p = {} THEN NewQueue ELSE add(h[p \ {Max(p)}], c[Max(p)])])[DOMAIN c]
  BY DEF clone, FoldLeft, MapThenFoldSet
<1> HIDE DEF c
<1> DEFINE f == CHOOSE f : FoldTo(f, c, r.size_)
<1>3. FoldTo(f, c, r.size_)
  BY <1>1, FoldExists
<1>4. clone(r) = f[1 .. r.size_]
  BY <1>1, <1>2, Zenon DEF FoldTo
<1> HIDE DEF f
<1> DEFINE g == [m \in 0 .. r.size_ |-> f[1 .. m]]
<1>5. g[0] = NewQueue
  <2>1. g[0] = f[1 .. 0] /\ 1 .. 0 = {}
    BY <1>1
  <2>2. f[{}] = NewQueue
    BY <1>3, Zenon DEF FoldTo
  <2> QED
    BY <2>1, <2>2
<1>6. ASSUME NEW m \in 1 .. r.size_ PROVE g[m] = add(g[m - 1], c[m])
  <2>1. 1 .. m \in SUBSET (1 .. r.size_) /\ 1 .. m # {}
    BY <1>1
  <2>2. Max(1 .. m) = m
    <3>1. 1 .. m \subseteq Nat /\ m \in Nat /\ m \in 1 .. m /\ \A y \in 1 .. m : y <= m
      BY <1>1
    <3>2. Max(1 .. m) \in 1 .. m /\ \A y \in 1 .. m : Max(1 .. m) >= y
      BY <3>1, <2>1, LargestNumber
    <3> QED
      BY <3>1, <3>2
  <2>3. (1 .. m) \ {m} = 1 .. m - 1
    BY <1>1
  <2>4. f[1 .. m] = add(f[(1 .. m) \ {Max(1 .. m)}], c[Max(1 .. m)])
    BY <2>1, <1>3, Zenon DEF FoldTo
  <2>5. g[m] = f[1 .. m] /\ g[m - 1] = f[1 .. m - 1]
    BY <1>1
  <2> HIDE DEF g
  <2> QED
    BY <2>2, <2>3, <2>4, <2>5
<1>7. g[r.size_] = clone(r)
  BY <1>1, <1>4
<1> HIDE DEF g
<1> QED
  BY <1>5, <1>6, <1>7 DEF c

\* A head that has not moved stays where it is when elements are added.
LEMMA HeadStays ==
  ASSUME NEW r, r.firstIndex_ = 0, NEW m
  PROVE  add(r, m).firstIndex_ = 0
  BY DEF add, MakeRoom, incrementSize

\* After m rounds the clone is a queue, with its head at slot 0, of the first m
\* elements.
LEMMA CloneIsEqual ==
  ASSUME NEW r, IsQueue(r)
  PROVE  IsQueue(clone(r)) /\ equals(clone(r), r)
<1> DEFINE S == Item \cup {Garbage}
           c == Contents(r)
<1>1. r.size_ \in Nat /\ c \in Seq(S) /\ Len(c) = r.size_
  BY Fields, ContentsIsSeq
<1>2. PICK g : /\ g[0] = NewQueue /\ g[r.size_] = clone(r)
               /\ \A m \in 1 .. r.size_ : g[m] = add(g[m - 1], c[m])
  BY CloneSteps
<1> HIDE DEF c
<1> DEFINE Copy(q, m) == /\ IsQueue(q) /\ q.firstIndex_ = 0
                         /\ Contents(q) = SubSeq(c, 1, m)
           T == {m \in Nat : m <= r.size_ => Copy(g[m], m)}
<1>3. Copy(NewQueue, 0)
  <2>1. IsQueue(NewQueue) /\ NewQueue.firstIndex_ = 0 /\ NewQueue.size_ = 0
    BY NewIsQueue DEF NewQueue
  <2>2. Contents(NewQueue) = <<>>
    <3>1. Contents(NewQueue) \in Seq(S) /\ Len(Contents(NewQueue)) = 0
      BY <2>1, ContentsIsSeq
    <3> QED
      BY <3>1, EmptySeq
  <2>3. SubSeq(c, 1, 0) = <<>>
    BY <1>1
  <2> QED
    BY <2>1, <2>2, <2>3
<1>4. 0 \in T
  BY <1>2, <1>3
<1>5. ASSUME NEW m \in Nat, m \in T PROVE m + 1 \in T
  <2>1. SUFFICES ASSUME m + 1 <= r.size_ PROVE Copy(g[m + 1], m + 1)
    OBVIOUS
  <2>2. m + 1 \in 1 .. r.size_ /\ (m + 1) - 1 = m
    BY <1>1, <2>1
  <2>3. Copy(g[m], m)
    BY <1>1, <1>5, <2>1
  <2>4. g[m + 1] = add(g[m], c[m + 1]) /\ c[m + 1] \in S
    BY <1>1, <1>2, <2>2
  <2>5. IsQueue(g[m + 1]) /\ g[m + 1].firstIndex_ = 0
    BY <2>3, <2>4, AddIsQueue, HeadStays
  <2>6. Contents(g[m + 1]) = Append(SubSeq(c, 1, m), c[m + 1])
    BY <2>3, <2>4, AddAppends
  <2>7. SubSeq(c, 1, m + 1) = Append(SubSeq(c, 1, m), c[m + 1])
    BY <1>1, <2>1, FrontOneMore
  <2> QED
    BY <2>5, <2>6, <2>7
<1> HIDE DEF T
<1>6. Nat \subseteq T
  BY <1>4, <1>5, AllNumbers
<1>7. Copy(clone(r), r.size_)
  BY <1>1, <1>2, <1>6 DEF T
<1>8. SubSeq(c, 1, r.size_) = c
  BY <1>1
<1> QED
  BY <1>7, <1>8 DEF c, equals

(***************************************************************************)
(* A queue in one thread.                                                  *)
(***************************************************************************)
\* The fields of the queue stay consistent through any calls of add and
\* remove: growing, wrapping and removing never take the head or the count
\* out of the array.
THEOREM RingTypeCorrect == RingSpec => []RingTypeOK
<1>1. RingInit => RingTypeOK
  BY NewIsQueue DEF RingInit, RingTypeOK
<1>2. RingTypeOK /\ [RingNext]_ringVars => RingTypeOK'
  <2> SUFFICES ASSUME RingTypeOK, [RingNext]_ringVars PROVE RingTypeOK'
    OBVIOUS
  <2>1. ASSUME NEW m \in Item, Add(m) PROVE RingTypeOK'
    BY <2>1, AddIsQueue DEF Add, RingTypeOK
  <2>2. CASE Take
    <3>1. ring.size_ > 0
      BY <2>2 DEF Take
    <3>2. IsQueue(remove(ring)) /\ Removed(ring) \in Item \cup {Garbage}
      BY <3>1, RemoveIsQueue DEF RingTypeOK
    <3> QED
      BY <2>2, <3>2 DEF Take, RingTypeOK
  <2>3. CASE UNCHANGED ringVars
    BY <2>3 DEF ringVars, RingTypeOK
  <2> QED
    BY <2>1, <2>2, <2>3 DEF RingNext
<1> QED
  BY <1>1, <1>2, PTL DEF RingSpec

\* A clone of the queue equals it, in every reachable state, however the head
\* has moved and whatever a growth has left, though the clone lays the
\* elements out from slot 0 and grows while it takes them.
THEOREM ClonesAreEqual == RingSpec => []CloneEquals
<1>1. RingTypeOK => CloneEquals
  BY CloneIsEqual DEF RingTypeOK, CloneEquals
<1> QED
  BY <1>1, RingTypeCorrect, PTL

\* Each step of a queue is a step of a first-in first-out queue unless it
\* grows an array whose head has moved.
LEMMA RingStepIsFifo ==
  ASSUME RingTypeOK, RingNext, ~WrappedGrowth
  PROVE  FifoStep \/ UNCHANGED <<ring, taken>>
<1>1. ASSUME NEW m \in Item, Add(m) PROVE FifoStep
  <2>1. ring' = add(ring, m) /\ taken' = taken
    BY <1>1 DEF Add
  <2>2. ring.size_ < ring.memory_size_ \/ ring.firstIndex_ = 0
    <3> SUFFICES ASSUME ring.size_ >= ring.memory_size_, ring.firstIndex_ # 0
                 PROVE  FALSE
      BY DEF RingTypeOK, IsQueue
    <3>1. ring.size_ = ring.memory_size_
      BY DEF RingTypeOK, IsQueue
    <3>2. ring'.memory_size_ = MakeRoom(ring).memory_size_
      BY <2>1, MakesRoom DEF add, RingTypeOK, IsQueue
    <3>3. ring'.memory_size_ > ring.memory_size_
      BY <2>1, <3>1, <3>2, MakesRoom DEF RingTypeOK, IsQueue
    <3> QED
      BY <3>1, <3>3 DEF WrappedGrowth, RingTypeOK, IsQueue
  <2>3. Contents(ring') = Append(Contents(ring), m)
    BY <2>1, <2>2, AddAppends DEF RingTypeOK
  <2> QED
    BY <2>1, <2>3 DEF FifoStep
<1>2. CASE Take
  <2>1. CASE asserts /\ RemoveAborts(ring)
    BY <1>2, <2>1 DEF Take
  <2>2. CASE ~(asserts /\ RemoveAborts(ring))
    <3>1. /\ ring.size_ > 0
          /\ taken' = Removed(ring)
          /\ ring' = remove(ring)
      BY <1>2, <2>2 DEF Take
    <3>2. /\ taken' = Head(Contents(ring))
          /\ Contents(ring') = Tail(Contents(ring))
      BY <3>1, RemoveTakesHead DEF RingTypeOK
    <3> QED
      BY <3>1, <3>2 DEF FifoStep
  <2> QED
    BY <2>1, <2>2
<1> QED
  BY <1>1, <1>2 DEF RingNext

\* The circular array is a queue as long as it does not grow at a head that
\* has moved: with any number of slots and through any history.
THEOREM FifoUntilWrappedGrowth == RingSpec => FifoUnlessWrappedGrowth
<1>1. RingTypeOK /\ [RingNext]_ringVars
        => [WrappedGrowth \/ FifoStep]_<<ring, taken>>
  BY RingStepIsFifo DEF ringVars
<1> QED
  BY <1>1, RingTypeCorrect, PTL DEF RingSpec, FifoUnlessWrappedGrowth

\* With no more elements at a time than the array has slots at first, a queue
\* never grows, and implements the abstract queue.
THEOREM RingRefinesFifo ==
  ASSUME Limit <= InitialMemory
  PROVE  RingSpec => FifoSpec
<1> DEFINE RingInv == RingTypeOK /\ ring.memory_size_ = InitialMemory
<1>1. RingInit => RingInv
  BY NewIsQueue DEF RingInit, RingTypeOK
<1>2. RingInv /\ [RingNext]_ringVars => ring'.memory_size_ = InitialMemory
  <2> SUFFICES ASSUME RingInv, [RingNext]_ringVars
               PROVE  ring'.memory_size_ = InitialMemory
    OBVIOUS
  <2>1. ASSUME NEW m \in Item, Add(m) PROVE ring'.memory_size_ = InitialMemory
    <3>1. ring' = add(ring, m) /\ ring.size_ < ring.memory_size_
      BY <2>1, RingAssumption, QueueAssumption DEF Add, RingTypeOK, IsQueue
    <3>2. MakeRoom(ring) = ring
      BY <3>1 DEF MakeRoom, RingTypeOK, IsQueue
    <3> QED
      BY <3>1, <3>2 DEF add, RingTypeOK, IsQueue
  <2>2. CASE Take
    BY <2>2 DEF Take, remove, RingTypeOK, IsQueue
  <2>3. CASE UNCHANGED ringVars
    BY <2>3 DEF ringVars
  <2> QED
    BY <2>1, <2>2, <2>3 DEF RingNext
<1>3. RingInv /\ [RingNext]_ringVars => ~WrappedGrowth
  BY <1>2 DEF WrappedGrowth
<1>4. RingInit => AsFifo!Init
  BY DEF RingInit, AsFifo!Init, NewQueue, Contents
<1>5. FifoStep /\ RingInv => AsFifo!Next
  <2> SUFFICES ASSUME FifoStep, RingInv PROVE AsFifo!Next
    OBVIOUS
  <2>1. CASE /\ ring.size_ > 0
             /\ taken' = Head(Contents(ring))
             /\ Contents(ring') = Tail(Contents(ring))
    BY <2>1, RemoveTakesHead DEF AsFifo!Next, AsFifo!Take, RingTypeOK
  <2>2. ASSUME NEW m \in Item,
               Contents(ring') = Append(Contents(ring), m), taken' = taken
        PROVE  AsFifo!Next
    BY <2>2 DEF AsFifo!Next, AsFifo!Put
  <2> QED
    BY <2>1, <2>2 DEF FifoStep
<1>6. RingInv /\ [RingNext]_ringVars => [AsFifo!Next]_AsFifo!vars
  <2> SUFFICES ASSUME RingInv, [RingNext]_ringVars PROVE [AsFifo!Next]_AsFifo!vars
    OBVIOUS
  <2>1. ~WrappedGrowth
    BY <1>3
  <2>2. CASE RingNext
    <3>1. FifoStep \/ UNCHANGED <<ring, taken>>
      BY <2>1, <2>2, RingStepIsFifo
    <3>2. CASE FifoStep
      BY <1>5, <3>2
    <3>3. CASE UNCHANGED <<ring, taken>>
      BY <3>3 DEF AsFifo!vars, Contents, get_el_at, get_index_at
    <3> QED
      BY <3>1, <3>2, <3>3
  <2>3. CASE UNCHANGED ringVars
    BY <2>3 DEF ringVars, AsFifo!vars, Contents, get_el_at, get_index_at
  <2> QED
    BY <2>2, <2>3
<1>7. RingSpec => []RingInv
  <2>1. RingInv /\ [RingNext]_ringVars /\ RingTypeOK' => RingInv'
    BY <1>2
  <2> QED
    BY <1>1, <2>1, RingTypeCorrect, PTL DEF RingSpec
<1> QED
  BY <1>4, <1>6, <1>7, PTL DEF RingSpec, FifoSpec, AsFifo!Spec

(***************************************************************************)
(* A message queue.                                                        *)
(***************************************************************************)
\* The calls a producer makes, and those of the popper.
Places ==
  /\ \A p \in Producers : pc[p] \in {"idle", "lock", "add", "notify", "unlock"}
  /\ pc[Popper] \in {"idle", "test", "wait", "waiting", "woken", "remove",
                     "unlock"}

\* A producer that is inside push has a message to push.
HasMessage == \A p \in Producers : pc[p] # "idle" => msg[p] \in Item

\* The threads between lock and unlock are the owner of the mutex.
Mutex == \A t \in Threads : Inside(t) <=> owner = t

\* Between the test of size_ and the wait the queue stays as it was tested.
Tested == /\ pc[Popper] = "wait" => ring.size_ = 0
          /\ pc[Popper] = "remove" => ring.size_ > 0

IInv == TypeOK /\ Places /\ HasMessage /\ Mutex /\ Tested /\ NoLostWakeup

LEMMA InitIInv == Init => IInv
<1> SUFFICES ASSUME Init PROVE IInv
  OBVIOUS
<1>1. ring.size_ = 0 /\ IsQueue(ring)
  BY NewIsQueue DEF Init, RingInit, NewQueue
<1>2. TypeOK
  BY <1>1, MessageQueueAssumption, QueueAssumption, RingAssumption DEF Init,
     RingInit, TypeOK, RingTypeOK, Threads, Labels
<1>3. \A t \in Threads : pc[t] = "idle"
  BY DEF Init, RingInit
<1>4. Places /\ HasMessage /\ Tested /\ NoLostWakeup
  BY <1>3 DEF Places, HasMessage, Tested, NoLostWakeup, Threads
<1>5. Mutex
  BY <1>3, MessageQueueAssumption DEF Init, RingInit, Mutex, Inside
<1> QED
  BY <1>2, <1>4, <1>5 DEF IInv

LEMMA PushStep ==
  ASSUME IInv, NEW p \in Producers,
         \/ \E m \in Item : Alive(Push(p, m))
         \/ Alive(ProducerStep(p))
  PROVE  IInv'
<1> USE MessageQueueAssumption DEF Threads, Goto, Labels
<1>1. ASSUME NEW m \in Item, Alive(Push(p, m)) PROVE IInv'
  BY <1>1 DEF IInv, TypeOK, RingTypeOK, Places, HasMessage, Mutex, Inside,
     Tested, NoLostWakeup, Alive, Push
<1>2. ASSUME Alive(PushLock(p)) PROVE IInv'
  BY <1>2 DEF IInv, TypeOK, RingTypeOK, Places, HasMessage, Mutex, Inside,
     Tested, NoLostWakeup, Alive, PushLock, Acquire
<1>3. ASSUME Alive(PushAdd(p)) PROVE IInv'
  <2>1. ring' = add(ring, msg[p]) /\ msg[p] \in Item /\ IsQueue(ring)
    BY <1>3 DEF IInv, HasMessage, TypeOK, RingTypeOK, Alive, PushAdd
  <2>2. IsQueue(ring')
    BY <2>1, AddIsQueue
  <2>3. owner = p
    BY <1>3 DEF IInv, Mutex, Inside, Alive, PushAdd
  <2>4. pc[Popper] \notin {"test", "wait", "remove", "unlock"}
    BY <2>3 DEF IInv, Mutex, Inside
  <2>5. pc' = [pc EXCEPT ![p] = "notify"] /\ pc \in [Threads -> Labels]
    BY <1>3 DEF IInv, TypeOK, RingTypeOK, Alive, PushAdd
  <2>6. pc'[p] = "notify" /\ pc'[Popper] = pc[Popper]
    BY <2>5
  <2>7. TypeOK'
    BY <1>3, <2>2, <2>5 DEF IInv, TypeOK, RingTypeOK, Alive, PushAdd
  <2>8. Places' /\ HasMessage' /\ Mutex'
    BY <1>3 DEF IInv, TypeOK, RingTypeOK, Places, HasMessage, Mutex, Inside,
       Alive, PushAdd
  <2>9. Tested' /\ NoLostWakeup'
    BY <2>4, <2>6 DEF Tested, NoLostWakeup
  <2> QED
    BY <2>7, <2>8, <2>9 DEF IInv
<1>4. ASSUME Alive(PushNotify(p)) PROVE IInv'
  <2>1. TypeOK' /\ Places' /\ HasMessage'
    BY <1>4 DEF IInv, TypeOK, RingTypeOK, Places, HasMessage, Alive, PushNotify
  <2>2. Mutex'
    BY <1>4 DEF IInv, TypeOK, RingTypeOK, Mutex, Inside, Alive, PushNotify
  <2>3. owner = p
    BY <1>4 DEF IInv, Mutex, Inside, Alive, PushNotify
  <2>4. pc[Popper] \notin {"test", "wait", "remove", "unlock"}
    BY <2>3 DEF IInv, Mutex, Inside
  <2>5. pc'[Popper] \notin {"wait", "remove", "waiting"}
    BY <1>4, <2>4 DEF IInv, TypeOK, RingTypeOK, Alive, PushNotify
  <2>6. Tested' /\ NoLostWakeup'
    BY <2>5 DEF Tested, NoLostWakeup
  <2> QED
    BY <2>1, <2>2, <2>6 DEF IInv
<1>5. ASSUME Alive(PushUnlock(p)) PROVE IInv'
  BY <1>5 DEF IInv, TypeOK, RingTypeOK, Places, HasMessage, Mutex, Inside,
     Tested, NoLostWakeup, Alive, PushUnlock, Release
<1> QED
  BY <1>1, <1>2, <1>3, <1>4, <1>5 DEF ProducerStep, Alive

LEMMA PopStep ==
  ASSUME IInv, Alive(PopperStep) \/ Alive(SpuriousWakeup)
  PROVE  IInv'
<1> USE MessageQueueAssumption DEF Threads, Goto, Labels
<1>1. ASSUME Alive(Pop) \/ Alive(PopRelock) PROVE IInv'
  BY <1>1 DEF IInv, TypeOK, RingTypeOK, Places, HasMessage, Mutex, Inside,
     Tested, NoLostWakeup, Alive, Pop, PopRelock, Acquire
<1>2. ASSUME Alive(PopTest) PROVE IInv'
  <2>1. ring' = ring /\ ring.size_ \in Nat
    BY <1>2, Fields DEF IInv, TypeOK, RingTypeOK, Alive, PopTest
  <2> QED
    BY <1>2, <2>1 DEF IInv, TypeOK, RingTypeOK, Places, HasMessage, Mutex,
       Inside, Tested, NoLostWakeup, Alive, PopTest
<1>3. ASSUME Alive(PopWait) PROVE IInv'
  BY <1>3 DEF IInv, TypeOK, RingTypeOK, Places, HasMessage, Mutex, Inside,
     Tested, NoLostWakeup, Alive, PopWait, Release
<1>4. ASSUME Alive(SpuriousWakeup) PROVE IInv'
  BY <1>4 DEF IInv, TypeOK, RingTypeOK, Places, HasMessage, Mutex, Inside,
     Tested, NoLostWakeup, Alive, SpuriousWakeup
<1>5. ASSUME Alive(PopRemove) PROVE IInv'
  <2>1. IsQueue(ring) /\ ring.size_ > 0
    BY <1>5 DEF IInv, TypeOK, RingTypeOK, Tested, Alive, PopRemove
  <2>2. IsQueue(ring') /\ taken' \in Item \cup {Garbage}
    BY <1>5, <2>1, RemoveIsQueue DEF Alive, PopRemove
  <2>3. pc' = [pc EXCEPT ![Popper] = "unlock"] /\ pc \in [Threads -> Labels]
    BY <1>5 DEF IInv, TypeOK, RingTypeOK, Alive, PopRemove
  <2>4. TypeOK'
    BY <1>5, <2>2, <2>3 DEF IInv, TypeOK, RingTypeOK, Alive, PopRemove
  <2>5. Places' /\ HasMessage' /\ Mutex'
    BY <1>5, <2>3 DEF IInv, Places, HasMessage, Mutex, Inside, Alive, PopRemove
  <2>6. Tested' /\ NoLostWakeup'
    BY <2>3 DEF Tested, NoLostWakeup
  <2> QED
    BY <2>4, <2>5, <2>6 DEF IInv
<1>6. ASSUME Alive(PopUnlock) PROVE IInv'
  BY <1>6 DEF IInv, TypeOK, RingTypeOK, Places, HasMessage, Mutex, Inside,
     Tested, NoLostWakeup, Alive, PopUnlock, Release
<1> QED
  BY <1>1, <1>2, <1>3, <1>4, <1>5, <1>6 DEF PopperStep, Alive

\* The inductive invariant: where each thread is, that the mutex excludes, and
\* what the popper knows of the queue between its test and its next call.
THEOREM Inductive == Spec => []IInv
<1>1. IInv /\ [Next]_vars => IInv'
  <2> SUFFICES ASSUME IInv, [Next]_vars PROVE IInv'
    OBVIOUS
  <2>1. CASE ~aborted /\ PopAbort
    BY <2>1 DEF PopAbort, IInv, TypeOK, RingTypeOK, Places, HasMessage, Mutex,
       Inside, Tested, NoLostWakeup
  <2>2. CASE UNCHANGED vars
    BY <2>2 DEF vars, IInv, TypeOK, RingTypeOK, Places, HasMessage, Mutex,
       Inside, Tested, NoLostWakeup
  <2> QED
    BY <2>1, <2>2, PushStep, PopStep DEF Next
<1> QED
  BY <1>1, InitIInv, PTL DEF Spec

\* The state in which a push grows the array at a head that has moved.
FullWrapped == ring.size_ = ring.memory_size_ /\ ring.firstIndex_ # 0

\* Each step is one of a first-in first-out queue: an add puts, a remove takes,
\* and the others leave the queue alone.
LEMMA StepIsFifo ==
  ASSUME IInv, [Next]_vars, \A p \in Producers : Alive(PushAdd(p)) => ~FullWrapped
  PROVE  [AsFifo!Next]_AsFifo!vars
<1>1. CASE UNCHANGED <<ring, taken>>
  BY <1>1 DEF AsFifo!vars, Contents, get_el_at, get_index_at
<1>2. ASSUME NEW p \in Producers, Alive(PushAdd(p))
      PROVE  AsFifo!Next
  <2>1. /\ ring' = add(ring, msg[p]) /\ taken' = taken
        /\ msg[p] \in Item /\ IsQueue(ring)
    BY <1>2 DEF IInv, HasMessage, TypeOK, RingTypeOK, Alive, PushAdd
  <2>2. Contents(ring') = Append(Contents(ring), msg[p])
    BY <1>2, <2>1, AddAppends, Fields DEF FullWrapped
  <2> QED
    BY <2>1, <2>2 DEF AsFifo!Next, AsFifo!Put
<1>3. ASSUME Alive(PopRemove)
      PROVE  AsFifo!Next
  <2>1. /\ ring' = remove(ring) /\ taken' = Removed(ring)
        /\ IsQueue(ring) /\ ring.size_ > 0
    BY <1>3 DEF IInv, Tested, TypeOK, RingTypeOK, Alive, PopRemove
  <2> QED
    BY <2>1, RemoveTakesHead DEF AsFifo!Next, AsFifo!Take
<1> QED
  BY <1>1, <1>2, <1>3 DEF Next, Alive, vars, ProducerStep, PopperStep, Push,
     PushLock, PushNotify, PushUnlock, Pop, PopTest, PopWait, PopRelock,
     PopUnlock, SpuriousWakeup, PopAbort

\* Unless the array is ever full with its head moved, when the next push would
\* tear it, the pushes and pops of all threads are the abstract queue.
THEOREM RefinesFifo == Spec /\ []~FullWrapped => FifoSpec
<1>1. Init => AsFifo!Init
  BY DEF Init, RingInit, AsFifo!Init, NewQueue, Contents
<1>2. IInv /\ [Next]_vars /\ ~FullWrapped => [AsFifo!Next]_AsFifo!vars
  BY StepIsFifo
<1> QED
  BY <1>1, <1>2, Inductive, PTL DEF Spec, FifoSpec, AsFifo!Spec

\* The producers that will add their message.
Pushing == {p \in Producers : pc[p] \in {"lock", "add"}}

\* Each of them has seen the queue below the limit, before the others added.
Reserved ==
  /\ ring.memory_size_ = InitialMemory
  /\ Pushing # {} =>
       ring.size_ + Cardinality(Pushing) < Limit + Cardinality(Producers)

LEMMA ReservedStep ==
  ASSUME IsFiniteSet(Producers), Limit + Cardinality(Producers) <= InitialMemory + 1,
         IInv, Reserved, [Next]_vars
  PROVE  /\ Reserved'
         /\ \A p \in Producers : Alive(PushAdd(p)) => ring.size_ < ring.memory_size_
<1> USE DEF Goto
<1>0. /\ InitialMemory \in Nat /\ Limit \in Nat /\ IsQueue(ring)
      /\ ring.size_ \in Nat /\ ring.memory_size_ = InitialMemory
      /\ Cardinality(Producers) \in Nat /\ Cardinality(Pushing) \in Nat
      /\ IsFiniteSet(Pushing)
      /\ Pushing # {} =>
           ring.size_ + Cardinality(Pushing) < Limit + Cardinality(Producers)
      /\ pc \in [Threads -> Labels] /\ Popper \notin Producers
  <2>1. IsFiniteSet(Pushing) /\ Cardinality(Pushing) \in Nat
    BY FS_Subset, FS_CardinalityType DEF Pushing
  <2>2. IsQueue(ring) /\ pc \in [Threads -> Labels]
    BY DEF IInv, TypeOK, RingTypeOK
  <2>3. ring.size_ \in Nat
    BY <2>2, Fields
  <2> QED
    BY <2>1, <2>2, <2>3, FS_CardinalityType, QueueAssumption, RingAssumption,
       MessageQueueAssumption DEF Reserved
<1>1. ASSUME NEW p \in Producers, Alive(PushAdd(p))
      PROVE  ring.size_ < ring.memory_size_ /\ Reserved'
  <2>1. /\ pc[p] = "add" /\ pc' = [pc EXCEPT ![p] = "notify"]
        /\ ring' = add(ring, msg[p])
    BY <1>1 DEF Alive, PushAdd
  <2>2. p \in Pushing
    BY <2>1 DEF Pushing
  <2>3. Cardinality(Pushing \ {p}) = Cardinality(Pushing) - 1
    BY <1>0, <2>2, FS_RemoveElement
  <2>4. Cardinality(Pushing \ {p}) \in Nat
    BY <1>0, FS_RemoveElement, FS_CardinalityType
  <2>5. ring.size_ < ring.memory_size_
    BY <1>0, <2>2, <2>3, <2>4
  <2>6. MakeRoom(ring) = ring
    BY <1>0, <2>5 DEF MakeRoom
  <2>7. ring'.size_ = ring.size_ + 1 /\ ring'.memory_size_ = ring.memory_size_
    BY <2>1, <2>6 DEF add
  <2>8. Pushing' = Pushing \ {p}
    BY <1>0, <2>1 DEF Pushing, Threads
  <2>9. ring'.size_ + Cardinality(Pushing') < Limit + Cardinality(Producers)
    BY <1>0, <2>2, <2>3, <2>7, <2>8
  <2> QED
    BY <1>0, <2>5, <2>7, <2>9 DEF Reserved
<1>2. ASSUME NEW p \in Producers, NEW m \in Item, Alive(Push(p, m)) PROVE Reserved'
  <2>1. ring.size_ < Limit /\ ring' = ring
    BY <1>2 DEF Alive, Push
  <2>2. IsFiniteSet(Pushing') /\ Cardinality(Pushing') <= Cardinality(Producers)
    <3>1. Pushing' \subseteq Producers
      BY DEF Pushing
    <3> QED
      BY <3>1, FS_Subset
  <2>3. Cardinality(Pushing') \in Nat
    BY <2>2, FS_CardinalityType
  <2>4. ring.size_ + Cardinality(Pushing') < Limit + Cardinality(Producers)
    BY <1>0, <2>1, <2>2, <2>3
  <2> QED
    BY <1>0, <2>1, <2>4 DEF Reserved
<1>3. ASSUME Alive(PopRemove) PROVE Reserved'
  <2>1. /\ ring' = remove(ring) /\ IsQueue(ring) /\ ring.size_ > 0
        /\ pc' = [pc EXCEPT ![Popper] = "unlock"]
    BY <1>3 DEF IInv, Tested, TypeOK, RingTypeOK, Alive, PopRemove
  <2>2. ring'.size_ = ring.size_ - 1 /\ ring'.memory_size_ = ring.memory_size_
    BY <2>1 DEF remove, IsQueue
  <2>3. Pushing' = Pushing
    BY <1>0, <2>1 DEF Pushing, Threads
  <2>4. Pushing # {} =>
          ring'.size_ + Cardinality(Pushing) < Limit + Cardinality(Producers)
    BY <1>0, <2>2
  <2> QED
    BY <1>0, <2>2, <2>3, <2>4 DEF Reserved
<1>4. ASSUME ring' = ring, Pushing' = Pushing PROVE Reserved'
  BY <1>4 DEF Reserved
<1>5. ASSUME NEW p \in Producers,
             Alive(PushLock(p)) \/ Alive(PushNotify(p)) \/ Alive(PushUnlock(p))
      PROVE  ring' = ring /\ Pushing' = Pushing
  BY <1>0, <1>5 DEF Alive, PushLock, PushNotify, PushUnlock, Pushing, Threads
<1>6. ASSUME Alive(PopperStep) \/ Alive(SpuriousWakeup), ~Alive(PopRemove)
      PROVE  ring' = ring /\ Pushing' = Pushing
  BY <1>0, <1>6 DEF Alive, PopperStep, Pop, PopTest, PopWait, PopRelock, PopRemove,
     PopUnlock, SpuriousWakeup, Pushing, Threads
<1>7. ASSUME UNCHANGED vars \/ PopAbort PROVE ring' = ring /\ Pushing' = Pushing
  BY <1>7 DEF vars, PopAbort, Pushing
<1>8. Reserved'
  BY <1>1, <1>2, <1>3, <1>4, <1>5, <1>6, <1>7 DEF Next, ProducerStep, Alive
<1> QED
  BY <1>1, <1>8

\* Producers that each find less than Limit messages before they push, and do not
\* look again, never fill an array with room for one message less than Limit and
\* one for each of them: for any number of producers the queue never grows, and
\* is the abstract queue (push, pop, add, remove).
THEOREM RefinesFifoWithRoom ==
  ASSUME IsFiniteSet(Producers), Limit + Cardinality(Producers) <= InitialMemory + 1
  PROVE  Spec => FifoSpec
<1>1. Init => Reserved
  <2> SUFFICES ASSUME Init PROVE Reserved
    OBVIOUS
  <2>1. ring.memory_size_ = InitialMemory /\ Pushing = {}
    BY DEF Init, RingInit, NewQueue, Pushing, Threads
  <2> QED
    BY <2>1 DEF Reserved
<1>2. IInv /\ Reserved /\ [Next]_vars => Reserved'
  BY ReservedStep
<1>3. IInv /\ Reserved /\ [Next]_vars => [AsFifo!Next]_AsFifo!vars
  <2> SUFFICES ASSUME IInv, Reserved, [Next]_vars
               PROVE  [AsFifo!Next]_AsFifo!vars
    OBVIOUS
  <2>1. \A p \in Producers : Alive(PushAdd(p)) => ~FullWrapped
    <3>1. \A p \in Producers : Alive(PushAdd(p)) => ring.size_ < ring.memory_size_
      BY ReservedStep
    <3>2. ring.size_ \in Nat /\ ring.memory_size_ \in Nat
      BY Fields DEF IInv, TypeOK, RingTypeOK
    <3> QED
      BY <3>1, <3>2 DEF FullWrapped
  <2> QED
    BY <2>1, StepIsFifo
<1>4. Init => AsFifo!Init
  BY DEF Init, RingInit, AsFifo!Init, NewQueue, Contents
<1> QED
  BY <1>1, <1>2, <1>3, <1>4, Inductive, PTL DEF Spec, FifoSpec, AsFifo!Spec

\* The popper never sleeps through a message, whatever the producers do.
THEOREM WakeupsKept == Spec => []NoLostWakeup
<1>1. IInv => NoLostWakeup
  BY DEF IInv
<1> QED
  BY <1>1, Inductive, PTL

\* The fields of the queue agree, and the mutex has an owner or none, under any
\* interleaving.
THEOREM TypeCorrect == Spec => []TypeOK
<1>1. IInv => TypeOK
  BY DEF IInv
<1> QED
  BY <1>1, Inductive, PTL

\* A build with assertions never pops a message: the popper gets to remove only
\* with a queue that is not empty, and remove asserts the opposite.
THEOREM PopsNothing == Spec => []PopNeverReturns
<1>1. Init => PopNeverReturns
  BY DEF Init, RingInit, PopNeverReturns
<1>2. IInv /\ PopNeverReturns /\ [Next]_vars => PopNeverReturns'
  <2> SUFFICES ASSUME IInv, PopNeverReturns, [Next]_vars
               PROVE  PopNeverReturns'
    OBVIOUS
  <2>1. ASSUME Alive(PopRemove) PROVE ~asserts /\ asserts' = asserts
    <3>1. ring.size_ > 0 /\ ring.size_ \in Nat
      BY <2>1, Fields DEF IInv, TypeOK, RingTypeOK, Tested, Alive, PopRemove
    <3> QED
      BY <2>1, <3>1 DEF Alive, PopRemove, RemoveAborts
  <2>2. CASE UNCHANGED <<taken, asserts>>
    BY <2>2 DEF PopNeverReturns
  <2> QED
    BY <2>1, <2>2 DEF Next, Alive, vars, ProducerStep, PopperStep, Push,
       PushLock, PushAdd, PushNotify, PushUnlock, Pop, PopTest, PopWait,
       PopRelock, PopUnlock, SpuriousWakeup, PopAbort, PopNeverReturns
<1> QED
  BY <1>1, <1>2, Inductive, PTL DEF Spec
=============================================================================
