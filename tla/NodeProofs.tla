----------------------------- MODULE NodeProofs -----------------------------
(***************************************************************************)
(* Theorems about the nodes.  For any number of nodes and clients, any use *)
(* of the operations, with spurious wakeups and messages that kill: every  *)
(* message and every stored value is at the home of its key.  When one     *)
(* thread adds to each store, the first value of a key stays.              *)
(***************************************************************************)
EXTENDS NodeService, SequenceTheorems, FiniteSetTheorems, TLAPS

Requests == {"Get", "WaitAndGet"}

\* A message about a key is in the queue of its home, whose thread may add.
Addressed(n, m) == /\ m.kind \in {"Put"} \cup Requests => home[m.key] = n
                   /\ m.kind = "Put" => n \in Adders(n)

WellSent(queues) ==
  /\ queues \in [Nodes -> Seq(Message)]
  /\ \A n \in Nodes : \A i \in 1 .. Len(queues[n]) : Addressed(n, queues[n][i])

\* A thread is in an operation of its store where its loop or call says so.
Placed == /\ \A n \in Nodes : loop[n] = "serve" <=> step[n] # "none"
          /\ \A c \in Clients : pc[c] = "store" <=> step[c] # "none"
          /\ \A c \in Clients : pc[c] \in SentLabels => call[c] \in ReadCall

AddJob(t)  == IF t \in Nodes THEN PutMsg ELSE AddCall
ReadJob(t) == IF t \in Nodes THEN RequestMsg ELSE ReadCall

\* What a thread needs its store for is at home there.
Employed(t) ==
  /\ step[t] # "none" => job(t).key \in Key /\ home[job(t).key] = storeOf(t)
  /\ step[t] \in AddSteps => job(t) \in AddJob(t) /\ t \in Adders(storeOf(t))
  /\ step[t] \in ReadSteps => job(t) \in ReadJob(t)

Jobs == \A t \in Threads : Employed(t)

KeysAtHome == \A n \in Nodes : \A s \in Slot :
  key_arr_[n][s] # NoKey => home[key_arr_[n][s]] = n

IInv == TypeOK /\ WellSent(qs) /\ Placed /\ Jobs /\ KeysAtHome
-----------------------------------------------------------------------------
\* Threads, messages and queues.

LEMMA ThreadsAre ==
  /\ \A n \in Nodes : n \in Threads /\ n \notin Clients /\ storeOf(n) = n /\ job(n) = cur[n]
  /\ \A c \in Clients : /\ c \in Threads /\ c \notin Nodes
                        /\ on[c] \in Nodes /\ storeOf(c) = on[c] /\ job(c) = call[c]
  /\ \A t \in Threads : t \in Nodes \/ t \in Clients
  /\ \A t \in Threads : storeOf(t) \in Nodes
  /\ \A n \in Nodes : AddJob(n) = PutMsg /\ ReadJob(n) = RequestMsg
  /\ \A c \in Clients : AddJob(c) = AddCall /\ ReadJob(c) = ReadCall
  BY NodeAssumption DEF Threads, storeOf, job, AddJob, ReadJob

LEMMA MessageKinds ==
  ASSUME NEW m \in Message
  PROVE  /\ m.kind = "Put" => m \in PutMsg
         /\ m.kind \in Requests => m \in RequestMsg
         /\ m.kind = "Reply" => m \in ReplyMsg
  BY DEF Message, PutMsg, RequestMsg, ReplyMsg, KillMsg, Requests

LEMMA KindsOf ==
  /\ \A m \in PutMsg : m.kind = "Put" /\ m.key \in Key /\ m.val \in Values /\ m \in Message
  /\ \A m \in RequestMsg : /\ m.kind \in Requests /\ m.key \in Key
                           /\ m.sender \in Nodes /\ m \in Message
  /\ \A m \in ReplyMsg : m.kind = "Reply" /\ m.val \in Values \cup {Null, Garbage} /\ m \in Message
  /\ \A x \in AddCall : x.op = "add" /\ x.key \in Key /\ x.val \in Values
  /\ \A x \in ReadCall : x.op \in {"get", "waitAndGet"} /\ x.key \in Key
  BY DEF Message, PutMsg, RequestMsg, ReplyMsg, AddCall, ReadCall, Requests

LEMMA SendKeeps ==
  ASSUME WellSent(qs), NEW t \in Nodes, NEW m \in Message, Addressed(t, m)
  PROVE  WellSent(Sent(t, m))
<1> DEFINE r == Sent(t, m)
<1>1. r \in [Nodes -> Seq(Message)]
  BY DEF WellSent, Sent
<1>2. ASSUME NEW n \in Nodes, NEW i \in 1 .. Len(r[n]) PROVE Addressed(n, r[n][i])
  <2>1. CASE n # t
    <3>1. r[n] = qs[n]
      BY <2>1 DEF WellSent, Sent
    <3> QED
      BY <1>2, <3>1 DEF WellSent
  <2>2. CASE n = t
    <3>1. r[n] = Append(qs[n], m) /\ qs[n] \in Seq(Message)
      BY <2>2 DEF WellSent, Sent
    <3>2. CASE i \in 1 .. Len(qs[n])
      <4>1. r[n][i] = qs[n][i]
        BY <3>1, <3>2
      <4> QED
        BY <1>2, <3>2, <4>1 DEF WellSent
    <3>3. CASE i \notin 1 .. Len(qs[n])
      <4>1. r[n][i] = m
        BY <1>2, <3>1, <3>3
      <4> QED
        BY <2>2, <4>1
    <3> QED
      BY <3>2, <3>3
  <2> QED
    BY <2>1, <2>2
<1> QED
  BY <1>1, <1>2 DEF WellSent

\* The message a node receives, and the queues without it.
LEMMA PopKeeps ==
  ASSUME WellSent(qs), NEW t \in Nodes, qs[t] # <<>>
  PROVE  /\ WellSent(Popped(t))
         /\ Head(qs[t]) \in Message
         /\ Addressed(t, Head(qs[t]))
<1> DEFINE r == Popped(t)
<1>1. qs \in [Nodes -> Seq(Message)] /\ qs[t] \in Seq(Message)
  BY DEF WellSent
<1>2. /\ Head(qs[t]) = qs[t][1] /\ 1 \in 1 .. Len(qs[t])
      /\ Head(qs[t]) \in Message
      /\ Tail(qs[t]) \in Seq(Message)
      /\ Len(Tail(qs[t])) = Len(qs[t]) - 1
      /\ \A i \in 1 .. Len(Tail(qs[t])) : Tail(qs[t])[i] = qs[t][i + 1]
  BY <1>1, HeadTailProperties
<1>3. r \in [Nodes -> Seq(Message)]
  BY <1>1, <1>2 DEF Popped
<1>4. ASSUME NEW n \in Nodes, NEW i \in 1 .. Len(r[n]) PROVE Addressed(n, r[n][i])
  <2>1. CASE n # t
    <3>1. r[n] = qs[n]
      BY <1>1, <2>1 DEF Popped
    <3> QED
      BY <1>4, <3>1 DEF WellSent
  <2>2. CASE n = t
    <3>1. r[n] = Tail(qs[n])
      BY <1>1, <2>2 DEF Popped
    <3>2. r[n][i] = qs[n][i + 1] /\ i + 1 \in 1 .. Len(qs[n])
      BY <1>1, <1>2, <1>4, <2>2, <3>1
    <3> QED
      BY <1>4, <3>2 DEF WellSent
  <2> QED
    BY <2>1, <2>2
<1>5. Addressed(t, Head(qs[t]))
  BY <1>2 DEF WellSent
<1> QED
  BY <1>2, <1>3, <1>4, <1>5 DEF WellSent

LEMMA ReceivedAtHome ==
  ASSUME WellSent(qs), NEW n \in Nodes, NEW kinds, Receives(n, kinds)
  PROVE  /\ WellSent(Popped(n))
         /\ Head(qs[n]) \in Message
         /\ Head(qs[n]).kind \in kinds
         /\ Addressed(n, Head(qs[n]))
  BY PopKeeps DEF Receives

\* What a step leaves alone stays right.
LEMMA QueuesKept ==
  ASSUME WellSent(qs), qs' = qs
  PROVE  WellSent(qs)'
  BY DEF WellSent

LEMMA StoresKept ==
  ASSUME KeysAtHome, key_arr_' = key_arr_
  PROVE  KeysAtHome'
  BY DEF KeysAtHome

LEMMA SlotsHome ==
  ASSUME TypeOK, KeysAtHome
  PROVE  StoredAtHome
<1> SUFFICES ASSUME NEW n \in Nodes, NEW k \in Key, has(n, k) PROVE home[k] = n
  BY DEF StoredAtHome
<1>1. PICK s \in Reachable(k, MemorySize) : key_arr_[n][s] = k
  BY DEF has, Holding
<1>2. s \in Slot
  BY <1>1 DEF Reachable, Slot
<1> QED
  BY <1>1, <1>2, NodeAssumption DEF KeysAtHome
-----------------------------------------------------------------------------
\* Slots.

\* A set of numbers that is not empty has a least one.
LEMMA LeastNumber ==
  ASSUME NEW T, T \subseteq Nat, T # {}
  PROVE  \E x \in T : \A y \in T : x <= y
<1> DEFINE R == OpToRel(<, Nat)
<1>1. IsWellFoundedOn(R, Nat)
  BY NatLessThanWellFounded
<1>2. \A x, y \in Nat : y < x => <<y, x>> \in R
  BY DEF OpToRel
<1> HIDE DEF R
<1>3. PICK x \in T : \A y \in T : ~ (<<y, x>> \in R)
  BY <1>1, WFMin
<1>4. \A y \in T : y \in Nat /\ x \in Nat /\ ~ (y < x)
  BY <1>2, <1>3
<1>5. \A y \in T : x <= y
  BY <1>4
<1> QED
  BY <1>5

\* The rounds of the loop for k until it meets slot s.
Rounds(k, s) == Distance(k, MemorySize, s)

Loop(k) == Reachable(k, MemorySize)

LEMMA SlotsOfLoop ==
  ASSUME NEW k \in Key
  PROVE  /\ Loop(k) \subseteq Slot
         /\ \A s \in Slot : Rounds(k, s) \in Nat
         /\ \A r, s \in Slot : Rounds(k, r) = Rounds(k, s) => r = s
<1>1. MemorySize \in Nat /\ MemorySize >= 2 /\ hash[k] \in Nat
  BY NodeAssumption, ProbingAssumption
<1>2. index(k, MemorySize) \in Slot
  BY <1>1 DEF index, Slots, Slot
<1>3. Loop(k) \subseteq Slot
  BY DEF Reachable, Loop, Slot
<1> QED
  BY <1>1, <1>2, <1>3 DEF Distance, Slots, Slot, Rounds

\* The first of some slots is there, and it is the only one that is first.
LEMMA FirstOfSlots ==
  ASSUME NEW k \in Key, NEW T, T \subseteq Slot, T # {}
  PROVE  /\ First(k, MemorySize, T) \in T
         /\ \A t \in T : Rounds(k, First(k, MemorySize, T)) <= Rounds(k, t)
         /\ \A s \in T : (\A t \in T : Rounds(k, s) <= Rounds(k, t))
                           => s = First(k, MemorySize, T)
<1> DEFINE D == {Rounds(k, t) : t \in T}
<1>1. \A s \in T : s \in Slot /\ Rounds(k, s) \in Nat
  BY SlotsOfLoop
<1>2. D \subseteq Nat /\ D # {}
  BY <1>1
<1>3. PICK x \in D : \A y \in D : x <= y
  <2> HIDE DEF D
  <2> QED
    BY <1>2, LeastNumber
<1>4. \E s \in T : \A t \in T : Rounds(k, s) <= Rounds(k, t)
  BY <1>3
<1>5. /\ First(k, MemorySize, T) \in T
      /\ \A t \in T : Rounds(k, First(k, MemorySize, T)) <= Rounds(k, t)
  BY <1>4 DEF First, Rounds
<1>6. ASSUME NEW s \in T, \A t \in T : Rounds(k, s) <= Rounds(k, t)
      PROVE  s = First(k, MemorySize, T)
  <2>1. Rounds(k, s) = Rounds(k, First(k, MemorySize, T))
    BY <1>1, <1>5, <1>6
  <2> QED
    BY <2>1, <1>1, <1>5, SlotsOfLoop
<1> QED
  BY <1>5, <1>6

\* The slot a search ends at.
LEMMA SearchEnds ==
  ASSUME NEW n \in Nodes, NEW k \in Key, NEW x, Holding(n, k, x) # {}
  PROVE  LET s == First(k, MemorySize, Holding(n, k, x))
         IN  /\ s \in Loop(k) /\ s \in Slot /\ key_arr_[n][s] = x
             /\ \A r \in Loop(k) : key_arr_[n][r] = x => Rounds(k, s) <= Rounds(k, r)
<1> DEFINE H == Holding(n, k, x)
           s == First(k, MemorySize, H)
<1>1. H = {r \in Loop(k) : key_arr_[n][r] = x}
  BY DEF Holding, Loop
<1>2. H \subseteq Slot /\ H # {}
  BY <1>1, SlotsOfLoop
<1>3. s \in H /\ \A r \in H : Rounds(k, s) <= Rounds(k, r)
  <2> HIDE DEF H
  <2> QED
    BY <1>2, FirstOfSlots
<1> HIDE DEF s
<1>4. s \in Loop(k) /\ s \in Slot /\ key_arr_[n][s] = x
  BY <1>1, <1>2, <1>3
<1>5. \A r \in Loop(k) : key_arr_[n][r] = x => Rounds(k, s) <= Rounds(k, r)
  BY <1>1, <1>3
<1> QED
  BY <1>4, <1>5 DEF s
-----------------------------------------------------------------------------
\* The steps of an operation of a store.

LEMMA FailKeeps ==
  ASSUME IInv, NEW what \in {"assert", "store", "reply", "join"}, Fail(what),
         UNCHANGED asserts
  PROVE  IInv'
<1>1. /\ UNCHANGED <<qs, key_arr_, val_arr_, loop, cur, reply_, mtx_>>
      /\ UNCHANGED <<pc, call, returned, calls, step, slot, val, asserts>>
      /\ fault' = what
  BY DEF Fail, arrays, nodeVars, clientVars, stepVars
<1>2. TypeOK'
  BY <1>1 DEF IInv, TypeOK
<1>3. WellSent(qs)' /\ KeysAtHome'
  BY <1>1, QueuesKept, StoresKept DEF IInv
<1>4. Placed' /\ Jobs'
  BY <1>1 DEF IInv, Placed, Jobs, Employed, job
<1> QED
  BY <1>2, <1>3, <1>4 DEF IInv

StepLabels == {"none"} \cup AddSteps \cup ReadSteps

\* A thread goes on with its operation.
LEMMA GoesOn ==
  ASSUME IInv, NEW t \in Threads, NEW label,
         \/ label \in AddSteps /\ step[t] \in AddSteps
         \/ label \in ReadSteps /\ step[t] \in ReadSteps,
         Goto(t, label), loop' = loop, cur' = cur, pc' = pc, call' = call
  PROVE  step' \in [Threads -> StepLabels] /\ Placed' /\ Jobs'
<1>1. step \in [Threads -> StepLabels]
  BY DEF IInv, TypeOK, StepLabels
<1>2. /\ "none" \notin AddSteps \cup ReadSteps
      /\ AddSteps \cap ReadSteps = {}
  BY DEF AddSteps, ReadSteps
<1>3. step' \in [Threads -> StepLabels]
  BY <1>1 DEF Goto, StepLabels
<1>4. \A u \in Threads : /\ step'[u] = "none" <=> step[u] = "none"
                         /\ step'[u] \in AddSteps <=> step[u] \in AddSteps
                         /\ step'[u] \in ReadSteps <=> step[u] \in ReadSteps
  BY <1>1, <1>2 DEF Goto
<1>5. Placed'
  BY <1>4, ThreadsAre DEF IInv, Placed
<1>6. \A u \in Threads : job(u)' = job(u)
  BY DEF job
<1>7. Jobs'
  BY <1>4, <1>6 DEF IInv, Jobs, Employed
<1> QED
  BY <1>3, <1>5, <1>7

\* The writes of an add.
LEMMA WritesKeep ==
  ASSUME TypeOK, KeysAtHome, NEW t \in Threads, step[t] \in AddSteps, Employed(t),
         WritesKey(t) \/ WritesValue(t)
  PROVE  /\ key_arr_' \in [Nodes -> [Slot -> Key \cup {NoKey}]]
         /\ val_arr_' \in [Nodes -> [Slot -> Values \cup {Garbage}]]
         /\ KeysAtHome'
<1>1. /\ storeOf(t) \in Nodes /\ slot[t] \in Slot
      /\ job(t).key \in Key /\ home[job(t).key] = storeOf(t)
      /\ job(t).val \in Values
  BY ThreadsAre, KindsOf DEF TypeOK, Employed, AddSteps, AddJob
<1>2. /\ key_arr_ \in [Nodes -> [Slot -> Key \cup {NoKey}]]
      /\ val_arr_ \in [Nodes -> [Slot -> Values \cup {Garbage}]]
  BY DEF TypeOK
<1>3. CASE WritesKey(t)
  <2>1. /\ key_arr_' = [key_arr_ EXCEPT ![storeOf(t)][slot[t]] = job(t).key]
        /\ val_arr_' = val_arr_
    BY <1>3 DEF WritesKey
  <2>2. key_arr_' \in [Nodes -> [Slot -> Key \cup {NoKey}]]
    BY <1>1, <1>2, <2>1
  <2>3. \A n \in Nodes, s \in Slot :
          key_arr_'[n][s] = IF n = storeOf(t) /\ s = slot[t] THEN job(t).key
                            ELSE key_arr_[n][s]
    BY <1>1, <1>2, <2>1
  <2>4. KeysAtHome'
    BY <1>1, <2>3 DEF KeysAtHome
  <2> QED
    BY <1>2, <2>1, <2>2, <2>4
<1>4. CASE WritesValue(t)
  <2>1. /\ val_arr_' = [val_arr_ EXCEPT ![storeOf(t)][slot[t]] = job(t).val]
        /\ key_arr_' = key_arr_
    BY <1>4 DEF WritesValue
  <2>2. val_arr_' \in [Nodes -> [Slot -> Values \cup {Garbage}]]
    BY <1>1, <1>2, <2>1
  <2> QED
    BY <1>2, <2>1, <2>2, StoresKept
<1> QED
  BY <1>3, <1>4

\* What a step inside an operation does to the rest of the invariant.
LEMMA InsideKeeps ==
  ASSUME IInv, Inside, UNCHANGED asserts, fault' = fault,
         key_arr_' \in [Nodes -> [Slot -> Key \cup {NoKey}]],
         val_arr_' \in [Nodes -> [Slot -> Values \cup {Garbage}]],
         step' \in [Threads -> StepLabels],
         slot' \in [Threads -> Slot],
         val' \in [Threads -> Values \cup {Null, Garbage}],
         KeysAtHome', Placed', Jobs'
  PROVE  IInv'
<1>1. UNCHANGED <<qs, loop, cur, reply_, mtx_, pc, call, returned, calls>>
  BY DEF Inside, nodeVars, clientVars
<1>2. TypeOK'
  BY <1>1 DEF IInv, TypeOK, StepLabels
<1>3. WellSent(qs)'
  BY <1>1, QueuesKept DEF IInv
<1> QED
  BY <1>2, <1>3 DEF IInv

LEMMA StoreStepKeeps ==
  ASSUME IInv, NEW t \in Threads, StoreStep(t), UNCHANGED asserts
  PROVE  IInv'
<1>a. /\ key_arr_ \in [Nodes -> [Slot -> Key \cup {NoKey}]]
      /\ val_arr_ \in [Nodes -> [Slot -> Values \cup {Garbage}]]
      /\ slot \in [Threads -> Slot]
      /\ val \in [Threads -> Values \cup {Null, Garbage}]
      /\ KeysAtHome /\ Employed(t) /\ TypeOK
  BY DEF IInv, TypeOK, Jobs
<1>b. ASSUME Inside PROVE loop' = loop /\ cur' = cur /\ pc' = pc /\ call' = call
  BY <1>b DEF Inside, nodeVars, clientVars
<1>c. storeOf(t) \in Nodes
  BY ThreadsAre
<1>1. ASSUME Check(t) PROVE IInv'
  <2>1. CASE has(storeOf(t), job(t).key)
    BY <1>1, <2>1, FailKeeps DEF Check
  <2>2. CASE ~has(storeOf(t), job(t).key)
    <3>1. /\ step[t] = "check" /\ Goto(t, "find") /\ Inside
          /\ key_arr_' = key_arr_ /\ val_arr_' = val_arr_ /\ slot' = slot /\ val' = val
          /\ fault' = fault
      BY <1>1, <2>2 DEF Check, At, arrays
    <3>2. step' \in [Threads -> StepLabels] /\ Placed' /\ Jobs'
      BY <3>1, <1>b, GoesOn DEF AddSteps
    <3>3. KeysAtHome'
      BY <1>a, <3>1, StoresKept
    <3> QED
      BY <1>a, <3>1, <3>2, <3>3, InsideKeeps
  <2> QED
    BY <2>1, <2>2
<1>2. ASSUME FindSlot(t) PROVE IInv'
  <2> DEFINE k == job(t).key
             free == Holding(storeOf(t), k, NoKey)
  <2>1. /\ step[t] = "find" /\ Goto(t, "write") /\ Inside
        /\ key_arr_' = key_arr_ /\ val_arr_' = val_arr_ /\ val' = val /\ fault' = fault
        /\ free # {} /\ slot' = [slot EXCEPT ![t] = First(k, MemorySize, free)]
    BY <1>2 DEF FindSlot, At, arrays
  <2>2. k \in Key
    BY <1>a, <2>1 DEF Employed
  <2>3. First(k, MemorySize, free) \in Slot
    BY <1>c, <2>1, <2>2, SearchEnds
  <2>4. slot' \in [Threads -> Slot]
    BY <1>a, <2>1, <2>3
  <2>5. step' \in [Threads -> StepLabels] /\ Placed' /\ Jobs'
    BY <2>1, <1>b, GoesOn DEF AddSteps
  <2>6. KeysAtHome'
    BY <1>a, <2>1, StoresKept
  <2> QED
    BY <1>a, <2>1, <2>4, <2>5, <2>6, InsideKeeps
<1>3. ASSUME WriteFirst(t) PROVE IInv'
  <2>1. /\ step[t] = "write" /\ Inside /\ slot' = slot /\ val' = val /\ fault' = fault
        /\ \/ WritesKey(t) /\ Goto(t, "value")
           \/ WritesValue(t) /\ Goto(t, "key")
    BY <1>3 DEF WriteFirst, At
  <2>2. step' \in [Threads -> StepLabels] /\ Placed' /\ Jobs'
    <3>1. CASE Goto(t, "value")
      BY <2>1, <3>1, <1>b, GoesOn DEF AddSteps
    <3>2. CASE Goto(t, "key")
      BY <2>1, <3>2, <1>b, GoesOn DEF AddSteps
    <3> QED
      BY <2>1, <3>1, <3>2
  <2>3. /\ key_arr_' \in [Nodes -> [Slot -> Key \cup {NoKey}]]
        /\ val_arr_' \in [Nodes -> [Slot -> Values \cup {Garbage}]]
        /\ KeysAtHome'
    BY <1>a, <2>1, WritesKeep DEF AddSteps
  <2> QED
    BY <1>a, <2>1, <2>2, <2>3, InsideKeeps
<1>4. ASSUME PollStore(t) PROVE IInv'
  <2>1. /\ step[t] = "poll" /\ Goto(t, "look") /\ Inside
        /\ key_arr_' = key_arr_ /\ val_arr_' = val_arr_ /\ slot' = slot /\ val' = val
        /\ fault' = fault
    BY <1>4 DEF PollStore, At, arrays
  <2>2. step' \in [Threads -> StepLabels] /\ Placed' /\ Jobs'
    BY <2>1, <1>b, GoesOn DEF ReadSteps
  <2>3. KeysAtHome'
    BY <1>a, <2>1, StoresKept
  <2> QED
    BY <1>a, <2>1, <2>2, <2>3, InsideKeeps
<1>5. ASSUME Look(t) PROVE IInv'
  <2> DEFINE k == job(t).key
             n == storeOf(t)
  <2>1. /\ step[t] = "look" /\ Inside
        /\ key_arr_' = key_arr_ /\ val_arr_' = val_arr_ /\ val' = val /\ fault' = fault
        /\ \/ has(n, k) /\ slot' = [slot EXCEPT ![t] = SlotOf(n, k)] /\ Goto(t, "read")
           \/ slot' = slot /\ Goto(t, "got")
    BY <1>5 DEF Look, At, arrays
  <2>2. k \in Key
    BY <1>a, <2>1 DEF Employed, ReadSteps
  <2>3. has(n, k) => SlotOf(n, k) \in Slot
    BY <1>c, <2>2, SearchEnds DEF has, SlotOf
  <2> HIDE DEF k, n
  <2>4. slot' \in [Threads -> Slot]
    BY <1>a, <2>1, <2>3
  <2>5. step' \in [Threads -> StepLabels] /\ Placed' /\ Jobs'
    <3>1. CASE Goto(t, "read")
      BY <2>1, <3>1, <1>b, GoesOn DEF ReadSteps
    <3>2. CASE Goto(t, "got")
      BY <2>1, <3>2, <1>b, GoesOn DEF ReadSteps
    <3> QED
      BY <2>1, <3>1, <3>2
  <2>6. KeysAtHome'
    BY <1>a, <2>1, StoresKept
  <2> QED
    BY <1>a, <2>1, <2>4, <2>5, <2>6, InsideKeeps
<1>6. ASSUME ReadValue(t) PROVE IInv'
  <2>1. /\ step[t] = "read" /\ Goto(t, "got") /\ Inside
        /\ key_arr_' = key_arr_ /\ val_arr_' = val_arr_ /\ slot' = slot /\ fault' = fault
        /\ val' = [val EXCEPT ![t] = val_arr_[storeOf(t)][slot[t]]]
    BY <1>6 DEF ReadValue, At, arrays
  <2>2. val_arr_[storeOf(t)][slot[t]] \in Values \cup {Null, Garbage}
    BY <1>a, <1>c
  <2>3. val' \in [Threads -> Values \cup {Null, Garbage}]
    BY <1>a, <2>1, <2>2
  <2>4. step' \in [Threads -> StepLabels] /\ Placed' /\ Jobs'
    BY <2>1, <1>b, GoesOn DEF ReadSteps
  <2>5. KeysAtHome'
    BY <1>a, <2>1, StoresKept
  <2> QED
    BY <1>a, <2>1, <2>3, <2>4, <2>5, InsideKeeps
<1> QED
  BY <1>1, <1>2, <1>3, <1>4, <1>5, <1>6 DEF StoreStep
-----------------------------------------------------------------------------
\* The steps of a node.

\* A step that leaves the threads where they are in their operations.
LEMMA OtherJobs ==
  ASSUME IInv, NEW t \in Threads,
         \A u \in Threads \ {t} : step'[u] = step[u],
         \A u \in Threads \ {t} : job(u)' = job(u),
         Employed(t)'
  PROVE  Jobs'
<1> SUFFICES ASSUME NEW u \in Threads PROVE Employed(u)'
  BY DEF Jobs
<1>1. CASE u = t
  BY <1>1
<1>2. CASE u # t
  BY <1>2 DEF IInv, Jobs, Employed
<1> QED
  BY <1>1, <1>2

LEMMA JobsKept ==
  ASSUME IInv, step' = step, cur' = cur, call' = call
  PROVE  Jobs'
  BY DEF IInv, Jobs, Employed, job

LEMMA EntersKeeps ==
  ASSUME IInv, NEW t \in Threads, NEW label \in AddSteps \cup ReadSteps, NEW others,
         Enters(t, label, others), UNCHANGED asserts, ~IInv'
  PROVE  /\ StoreAttached
         /\ step' = [step EXCEPT ![t] = label]
         /\ key_arr_' = key_arr_ /\ val_arr_' = val_arr_ /\ slot' = slot /\ val' = val
         /\ reply_' = reply_ /\ mtx_' = mtx_ /\ fault' = fault
         /\ others
<1>1. StoreAttached
  BY FailKeeps DEF Enters
<1> QED
  BY <1>1 DEF Enters, arrays

\* A node takes up a message.
LEMMA ServesKeeps ==
  ASSUME IInv, NEW n \in Nodes, NEW kinds, Receives(n, kinds),
         NEW label \in AddSteps \cup ReadSteps, Serves(n, label),
         \/ kinds = {"Put"} /\ label \in AddSteps
         \/ kinds \subseteq Requests /\ label \in ReadSteps,
         UNCHANGED asserts
  PROVE  IInv'
<1> SUFFICES ASSUME ~IInv' PROVE FALSE
  OBVIOUS
<1> DEFINE m == Head(qs[n])
<1>1. /\ step' = [step EXCEPT ![n] = label]
      /\ key_arr_' = key_arr_ /\ val_arr_' = val_arr_ /\ slot' = slot /\ val' = val
      /\ reply_' = reply_ /\ mtx_' = mtx_ /\ fault' = fault
      /\ qs' = Popped(n)
      /\ cur' = [cur EXCEPT ![n] = m]
      /\ loop' = [loop EXCEPT ![n] = "serve"]
      /\ pc' = pc /\ call' = call /\ returned' = returned /\ calls' = calls
  BY ThreadsAre, EntersKeeps DEF Serves, clientVars
<1>2. /\ WellSent(Popped(n)) /\ m \in Message /\ m.kind \in kinds /\ Addressed(n, m)
      /\ loop[n] = "recv"
  BY ReceivedAtHome DEF IInv, Receives
<1> HIDE DEF m
<1>3. /\ loop \in [Nodes -> {"start", "recv", "notify", "serve"}]
      /\ cur \in [Nodes -> PutMsg \cup RequestMsg \cup {NoMsg}]
      /\ step \in [Threads -> StepLabels]
      /\ n \in Threads /\ n \notin Clients
  BY ThreadsAre DEF IInv, TypeOK, StepLabels
<1>4. m \in PutMsg \cup RequestMsg
  BY <1>2, MessageKinds
<1>5. /\ loop' \in [Nodes -> {"start", "recv", "notify", "serve"}]
      /\ cur' \in [Nodes -> PutMsg \cup RequestMsg \cup {NoMsg}]
      /\ step' \in [Threads -> StepLabels]
  BY <1>1, <1>3, <1>4 DEF StepLabels
<1>6. WellSent(qs)'
  BY <1>1, <1>2
<1>7. TypeOK'
  BY <1>1, <1>5, <1>6 DEF IInv, TypeOK, WellSent, StepLabels
<1>8. KeysAtHome'
  BY <1>1, StoresKept DEF IInv
<1>9. Placed'
  <2>1. label # "none" /\ step'[n] = label /\ loop'[n] = "serve"
    BY <1>1, <1>3 DEF AddSteps, ReadSteps
  <2>2. \A i \in Nodes \ {n} : loop'[i] = loop[i]
    BY <1>1, <1>3
  <2>3. \A u \in Threads \ {n} : step'[u] = step[u]
    BY <1>1, <1>3
  <2> QED
    BY <1>1, <1>3, <2>1, <2>2, <2>3, ThreadsAre DEF IInv, Placed
<1>10. Jobs'
  <2>1. \A u \in Threads \ {n} : step'[u] = step[u] /\ job(u)' = job(u)
    BY <1>1, <1>3 DEF job
  <2>2. job(n)' = m /\ step'[n] = label
    BY <1>1, <1>3 DEF job
  <2>3. m.key \in Key /\ home[m.key] = n
    BY <1>2, <1>4, KindsOf DEF Addressed
  <2>4. /\ label \in AddSteps => m \in PutMsg /\ n \in Adders(n)
        /\ label \in ReadSteps => m \in RequestMsg
    BY <1>2, MessageKinds DEF Addressed, Requests, AddSteps, ReadSteps
  <2>5. Employed(n)'
    BY <2>2, <2>3, <2>4, ThreadsAre DEF Employed
  <2> QED
    BY <1>3, <2>1, <2>5, OtherJobs
<1> QED
  BY <1>6, <1>7, <1>8, <1>9, <1>10 DEF IInv

\* A thread leaves its operation.
LEMMA EndsType ==
  ASSUME TypeOK, NEW t \in Threads, Ends(t)
  PROVE  /\ step' \in [Threads -> StepLabels]
         /\ slot' \in [Threads -> Slot]
         /\ val' \in [Threads -> Values \cup {Null, Garbage}]
         /\ step'[t] = "none"
         /\ \A u \in Threads \ {t} : step'[u] = step[u]
<1>1. 0 \in Slot
  BY NodeAssumption DEF Slot, Slots
<1> QED
  BY <1>1 DEF TypeOK, Ends, StepLabels

\* A node is done with a message.
LEMMA ServedKeeps ==
  ASSUME IInv, NEW n \in Nodes, step[n] # "none", Ends(n), Served(n), UNCHANGED asserts,
         WellSent(qs)',
         key_arr_' \in [Nodes -> [Slot -> Key \cup {NoKey}]],
         val_arr_' \in [Nodes -> [Slot -> Values \cup {Garbage}]],
         KeysAtHome'
  PROVE  IInv'
<1>1. /\ loop' = [loop EXCEPT ![n] = "recv"]
      /\ cur' = [cur EXCEPT ![n] = NoMsg]
      /\ reply_' = reply_ /\ mtx_' = mtx_ /\ fault' = fault /\ asserts' = asserts
      /\ pc' = pc /\ call' = call /\ returned' = returned /\ calls' = calls
  BY DEF Served, clientVars
<1>2. /\ n \in Threads /\ n \notin Clients
      /\ loop \in [Nodes -> {"start", "recv", "notify", "serve"}]
      /\ cur \in [Nodes -> PutMsg \cup RequestMsg \cup {NoMsg}]
  BY ThreadsAre DEF IInv, TypeOK
<1>3. /\ step' \in [Threads -> StepLabels]
      /\ slot' \in [Threads -> Slot]
      /\ val' \in [Threads -> Values \cup {Null, Garbage}]
      /\ step'[n] = "none"
      /\ \A u \in Threads \ {n} : step'[u] = step[u]
  BY <1>2, EndsType DEF IInv
<1>4. TypeOK'
  BY <1>1, <1>2, <1>3 DEF IInv, TypeOK, WellSent, StepLabels
<1>5. Placed'
  <2>1. \A i \in Nodes \ {n} : loop'[i] = loop[i]
    BY <1>1, <1>2
  <2>2. loop'[n] = "recv"
    BY <1>1, <1>2
  <2>3. \A i \in Nodes : loop'[i] = "serve" <=> step'[i] # "none"
    BY <1>3, <2>1, <2>2, ThreadsAre DEF IInv, Placed
  <2>4. \A c \in Clients : step'[c] = step[c]
    BY <1>2, <1>3, ThreadsAre
  <2> QED
    BY <1>1, <2>3, <2>4 DEF IInv, Placed
<1>6. Jobs'
  <2>1. \A u \in Threads \ {n} : job(u)' = job(u)
    BY <1>1, <1>2 DEF job
  <2>2. Employed(n)'
    BY <1>3 DEF Employed, AddSteps, ReadSteps
  <2> QED
    BY <1>2, <1>3, <2>1, <2>2, OtherJobs
<1> QED
  BY <1>4, <1>5, <1>6 DEF IInv

LEMMA WriteSecondKeeps ==
  ASSUME IInv, NEW t \in Threads, WriteSecond(t)
  PROVE  /\ step[t] \in {"value", "key"} /\ Ends(t)
         /\ key_arr_' \in [Nodes -> [Slot -> Key \cup {NoKey}]]
         /\ val_arr_' \in [Nodes -> [Slot -> Values \cup {Garbage}]]
         /\ KeysAtHome'
<1>1. step[t] \in {"value", "key"} /\ Ends(t) /\ (WritesKey(t) \/ WritesValue(t))
  BY DEF WriteSecond, At
<1>2. step[t] \in AddSteps
  BY <1>1 DEF AddSteps
<1> QED
  BY <1>1, <1>2, WritesKeep DEF IInv, Jobs

\* The reply to a request: a message for the node of its sender.
LEMMA ReplyKeeps ==
  ASSUME IInv, NEW n \in Nodes, step[n] = "got"
  PROVE  WellSent(ReplyTo(n)) /\ cur[n] \in RequestMsg
<1> DEFINE r == [kind |-> "Reply", sender |-> n, val |-> val[n]]
<1>1. cur[n] \in RequestMsg
  BY ThreadsAre DEF IInv, Jobs, Employed, ReadSteps
<1>2. cur[n].sender \in Nodes
  BY <1>1, KindsOf
<1>3. r \in ReplyMsg
  BY ThreadsAre DEF IInv, TypeOK, ReplyMsg
<1>4. r \in Message /\ Addressed(cur[n].sender, r)
  BY <1>3 DEF Message, Addressed, Requests
<1> HIDE DEF r
<1>5. WellSent(Sent(cur[n].sender, r))
  BY <1>2, <1>4, SendKeeps DEF IInv
<1> QED
  BY <1>1, <1>5 DEF r, ReplyTo

LEMMA NodeStepKeeps ==
  ASSUME IInv, NEW n \in Nodes, NodeStep(n), UNCHANGED asserts
  PROVE  IInv'
<1>a. WellSent(qs) /\ n \in Threads
  BY ThreadsAre DEF IInv
<1>1. ASSUME Register(n) PROVE IInv'
  <2>1. /\ loop[n] = "start" /\ loop' = [loop EXCEPT ![n] = "recv"]
        /\ qs' = qs /\ key_arr_' = key_arr_ /\ val_arr_' = val_arr_ /\ cur' = cur
        /\ reply_' = reply_ /\ mtx_' = mtx_ /\ fault' = fault
        /\ pc' = pc /\ call' = call /\ returned' = returned /\ calls' = calls
        /\ step' = step /\ slot' = slot /\ val' = val
    BY <1>1 DEF Register, arrays, clientVars, stepVars
  <2>2. TypeOK'
    BY <2>1 DEF IInv, TypeOK
  <2>3. Placed'
    BY <2>1 DEF IInv, TypeOK, Placed
  <2> QED
    BY <1>a, <2>1, <2>2, <2>3, QueuesKept, StoresKept, JobsKept DEF IInv
<1>2. ASSUME RecvAborts(n) PROVE IInv'
  BY <1>2, FailKeeps DEF RecvAborts
<1>3. ASSUME RecvReply(n) PROVE IInv'
  <2>1. WellSent(qs)' /\ Head(qs[n]) \in ReplyMsg
    BY <1>3, <1>a, ReceivedAtHome, MessageKinds DEF RecvReply
  <2>2. /\ loop[n] = "recv" /\ loop' = [loop EXCEPT ![n] = "notify"]
        /\ reply_' = [reply_ EXCEPT ![n] = Head(qs[n])]
        /\ key_arr_' = key_arr_ /\ val_arr_' = val_arr_ /\ cur' = cur
        /\ mtx_' = mtx_ /\ fault' = fault
        /\ pc' = pc /\ call' = call /\ returned' = returned /\ calls' = calls
        /\ step' = step /\ slot' = slot /\ val' = val
    BY <1>3 DEF RecvReply, Receives, arrays, clientVars, stepVars
  <2>3. TypeOK'
    BY <2>1, <2>2 DEF IInv, TypeOK, WellSent
  <2>4. Placed'
    BY <2>2 DEF IInv, TypeOK, Placed
  <2> QED
    BY <2>1, <2>2, <2>3, <2>4, StoresKept, JobsKept DEF IInv
<1>4. ASSUME NotifyAll(n) PROVE IInv'
  <2>1. /\ loop[n] = "notify" /\ loop' = [loop EXCEPT ![n] = "recv"]
        /\ pc' = [c \in Clients |-> IF on[c] = n /\ pc[c] = "waiting"
                                    THEN "woken" ELSE pc[c]]
        /\ qs' = qs /\ key_arr_' = key_arr_ /\ val_arr_' = val_arr_ /\ cur' = cur
        /\ reply_' = reply_ /\ mtx_' = mtx_ /\ fault' = fault
        /\ call' = call /\ returned' = returned /\ calls' = calls
        /\ step' = step /\ slot' = slot /\ val' = val
    BY <1>4 DEF NotifyAll, arrays, stepVars
  <2>2. pc' \in [Clients -> {"idle", "store"} \cup SentLabels]
    BY <2>1 DEF IInv, TypeOK, SentLabels
  <2>3. TypeOK'
    BY <2>1, <2>2 DEF IInv, TypeOK
  <2>4. Placed'
    BY <2>1 DEF IInv, TypeOK, Placed, SentLabels
  <2> QED
    BY <1>a, <2>1, <2>3, <2>4, QueuesKept, StoresKept, JobsKept DEF IInv
<1>5. ASSUME RecvGet(n) PROVE IInv'
  <2>1. "look" \in AddSteps \cup ReadSteps /\ "look" \in ReadSteps /\ {"Get"} \subseteq Requests
    BY DEF ReadSteps, Requests
  <2> QED
    BY <1>5, <2>1, ServesKeeps DEF RecvGet
<1>6. ASSUME RecvWaitAndGet(n) PROVE IInv'
  <2>1. /\ "poll" \in AddSteps \cup ReadSteps /\ "poll" \in ReadSteps
        /\ {"WaitAndGet"} \subseteq Requests
    BY DEF ReadSteps, Requests
  <2> QED
    BY <1>6, <2>1, ServesKeeps DEF RecvWaitAndGet
<1>7. ASSUME RecvPut(n) PROVE IInv'
  <2>1. AddLabel \in AddSteps
    BY DEF AddLabel, AddSteps
  <2>2. AddLabel \in AddSteps \cup ReadSteps
    BY <2>1
  <2> QED
    BY <1>7, <2>1, <2>2, ServesKeeps DEF RecvPut
<1>8. ASSUME StoreStep(n) PROVE IInv'
  BY <1>8, <1>a, StoreStepKeeps
<1>9. ASSUME PutServed(n) PROVE IInv'
  <2>1. /\ step[n] \in {"value", "key"} /\ Ends(n)
        /\ key_arr_' \in [Nodes -> [Slot -> Key \cup {NoKey}]]
        /\ val_arr_' \in [Nodes -> [Slot -> Values \cup {Garbage}]]
        /\ KeysAtHome'
    BY <1>9, <1>a, WriteSecondKeeps DEF PutServed
  <2>2. WellSent(qs)' /\ Served(n) /\ step[n] # "none"
    BY <1>9, <1>a, <2>1, QueuesKept DEF PutServed
  <2> QED
    BY <2>1, <2>2, ServedKeeps
<1>10. ASSUME SendReply(n) PROVE IInv'
  <2>1. step[n] = "got" /\ Ends(n) /\ Served(n) /\ key_arr_' = key_arr_ /\ val_arr_' = val_arr_
        /\ qs' = ReplyTo(n)
    BY <1>10 DEF SendReply, At, arrays
  <2>2. WellSent(qs)'
    BY <2>1, ReplyKeeps
  <2>3. /\ key_arr_' \in [Nodes -> [Slot -> Key \cup {NoKey}]]
        /\ val_arr_' \in [Nodes -> [Slot -> Values \cup {Garbage}]]
        /\ KeysAtHome'
    BY <2>1, StoresKept DEF IInv, TypeOK
  <2> QED
    BY <2>1, <2>2, <2>3, ServedKeeps
<1>11. ASSUME RecvKill(n) PROVE IInv'
  BY <1>11, FailKeeps DEF RecvKill
<1> QED
  BY <1>1, <1>2, <1>3, <1>4, <1>5, <1>6, <1>7, <1>8, <1>9, <1>10, <1>11 DEF NodeStep
-----------------------------------------------------------------------------
\* The steps of a client.

ReturnedType == [Clients -> [key : Key \cup {NoCall}, val : Values \cup {Null, Garbage}]]

\* A client begins a call in its own store.
LEMMA HereKeeps ==
  ASSUME IInv, NEW c \in Clients, NEW x \in AddCall \cup ReadCall,
         NEW label \in AddSteps \cup ReadSteps,
         \/ x \in AddCall /\ label \in AddSteps
         \/ x \in ReadCall /\ label \in ReadSteps,
         Here(c, x, label), UNCHANGED asserts
  PROVE  IInv'
<1> SUFFICES ASSUME ~IInv' PROVE FALSE
  OBVIOUS
<1>1. /\ step' = [step EXCEPT ![c] = label]
      /\ key_arr_' = key_arr_ /\ val_arr_' = val_arr_ /\ slot' = slot /\ val' = val
      /\ reply_' = reply_ /\ mtx_' = mtx_ /\ fault' = fault
      /\ qs' = qs /\ cur' = cur /\ loop' = loop
      /\ pc' = [pc EXCEPT ![c] = "store"] /\ call' = [call EXCEPT ![c] = x]
      /\ calls' = [calls EXCEPT ![c] = @ + 1] /\ returned' = returned
      /\ <<x.op, x.key>> \in MayCall[c] /\ home[x.key] = on[c]
  <2>1. c \in Threads
    BY ThreadsAre
  <2> QED
    BY <2>1, EntersKeeps DEF Here, Calls, Counted, nodeVars
<1>2. /\ pc \in [Clients -> {"idle", "store"} \cup SentLabels]
      /\ call \in [Clients -> AddCall \cup ReadCall \cup {NoCall}]
      /\ step \in [Threads -> StepLabels]
      /\ c \in Threads /\ c \notin Nodes
  BY ThreadsAre DEF IInv, TypeOK, StepLabels
<1>3. /\ pc' \in [Clients -> {"idle", "store"} \cup SentLabels]
      /\ call' \in [Clients -> AddCall \cup ReadCall \cup {NoCall}]
      /\ step' \in [Threads -> StepLabels]
  BY <1>1, <1>2 DEF StepLabels
<1>4. TypeOK'
  BY <1>1, <1>3 DEF IInv, TypeOK, StepLabels
<1>5. Placed'
  <2>1. label # "none" /\ step'[c] = label /\ pc'[c] = "store" /\ "store" \notin SentLabels
    BY <1>1, <1>2 DEF AddSteps, ReadSteps, SentLabels
  <2>2. \A d \in Clients \ {c} : pc'[d] = pc[d] /\ call'[d] = call[d]
    BY <1>1, <1>2
  <2>3. \A u \in Threads \ {c} : step'[u] = step[u]
    BY <1>1, <1>2
  <2>4. \A n \in Nodes : step'[n] = step[n]
    BY <1>2, <2>3, ThreadsAre
  <2>5. \A d \in Clients : pc'[d] = "store" <=> step'[d] # "none"
    BY <2>1, <2>2, <2>3, ThreadsAre DEF IInv, Placed
  <2>6. \A d \in Clients : pc'[d] \in SentLabels => call'[d] \in ReadCall
    BY <2>1, <2>2 DEF IInv, Placed
  <2> QED
    BY <1>1, <2>4, <2>5, <2>6 DEF IInv, Placed
<1>6. Jobs'
  <2>1. \A u \in Threads \ {c} : step'[u] = step[u] /\ job(u)' = job(u)
    BY <1>1, <1>2 DEF job
  <2>2. job(c)' = x /\ step'[c] = label
    BY <1>1, <1>2, ThreadsAre DEF job
  <2>3. x.key \in Key /\ home[x.key] = storeOf(c)
    BY <1>1, KindsOf, ThreadsAre
  <2>4. AddSteps \cap ReadSteps = {}
    BY DEF AddSteps, ReadSteps
  <2>5. label \in AddSteps => x \in AddCall /\ c \in Adders(on[c])
    <3>1. SUFFICES ASSUME label \in AddSteps PROVE x \in AddCall /\ c \in Adders(on[c])
      OBVIOUS
    <3>2. x \in AddCall /\ x.op = "add"
      BY <2>4, <3>1, KindsOf
    <3>3. MayAdd(c, x.key)
      BY <1>1, <3>2 DEF MayAdd
    <3> QED
      BY <1>1, <2>3, <3>2, <3>3 DEF Adders
  <2>6. label \in ReadSteps => x \in ReadCall
    BY <2>4
  <2>7. Employed(c)'
    BY <2>2, <2>3, <2>5, <2>6, ThreadsAre DEF Employed
  <2> QED
    BY <1>2, <2>1, <2>7, OtherJobs
<1> QED
  BY <1>1, <1>4, <1>5, <1>6, QueuesKept, StoresKept DEF IInv

\* A client sends a message and waits, or does not.
LEMMA ThereKeeps ==
  ASSUME IInv, NEW c \in Clients, NEW n \in Nodes, NEW m \in Message, Addressed(n, m),
         qs' = Sent(n, m), calls' \in [Clients -> Nat], returned' = returned,
         UNCHANGED <<arrays, nodeVars, reply_, mtx_, stepVars, fault>>,
         UNCHANGED asserts, pc[c] = "idle",
         \/ pc' = pc /\ call' = call
         \/ \E x \in ReadCall : /\ pc' = [pc EXCEPT ![c] = "sent"]
                                /\ call' = [call EXCEPT ![c] = x]
  PROVE  IInv'
<1>1. /\ key_arr_' = key_arr_ /\ val_arr_' = val_arr_ /\ loop' = loop /\ cur' = cur
      /\ reply_' = reply_ /\ mtx_' = mtx_ /\ step' = step /\ slot' = slot /\ val' = val
      /\ fault' = fault /\ asserts' = asserts
  BY DEF arrays, nodeVars, stepVars
<1>2. WellSent(qs)'
  BY SendKeeps DEF IInv
<1>3. /\ pc \in [Clients -> {"idle", "store"} \cup SentLabels]
      /\ call \in [Clients -> AddCall \cup ReadCall \cup {NoCall}]
      /\ step[c] = "none" /\ c \in Threads /\ c \notin Nodes
  BY ThreadsAre DEF IInv, TypeOK, Placed
<1>4. /\ pc' \in [Clients -> {"idle", "store"} \cup SentLabels]
      /\ call' \in [Clients -> AddCall \cup ReadCall \cup {NoCall}]
  BY <1>3 DEF SentLabels
<1>5. TypeOK'
  BY <1>1, <1>2, <1>4 DEF IInv, TypeOK, WellSent
<1>6. Placed'
  <2>1. \A d \in Clients : pc'[d] = "store" <=> pc[d] = "store"
    BY <1>3
  <2>2. \A d \in Clients : pc'[d] \in SentLabels => call'[d] \in ReadCall
    BY <1>3 DEF IInv, Placed
  <2> QED
    BY <1>1, <2>1, <2>2 DEF IInv, Placed
<1>7. Jobs'
  <2>1. \A u \in Threads \ {c} : step'[u] = step[u] /\ job(u)' = job(u)
    BY <1>1, <1>3, ThreadsAre DEF job
  <2>2. Employed(c)'
    BY <1>1, <1>3 DEF Employed, AddSteps, ReadSteps
  <2> QED
    BY <1>3, <2>1, <2>2, OtherJobs
<1> QED
  BY <1>1, <1>2, <1>5, <1>6, <1>7, StoresKept DEF IInv

LEMMA BeginKeeps ==
  ASSUME IInv, NEW c \in Clients, Begin(c) \/ Kills(c), UNCHANGED asserts
  PROVE  IInv'
<1>a. on[c] \in Nodes /\ 0 \in Nodes /\ \A k \in Key : home[k] \in Nodes
  BY NodeAssumption DEF Nodes
<1>b. ASSUME Counted(c) PROVE calls' \in [Clients -> Nat]
  BY <1>b DEF Counted, IInv, TypeOK
<1>1. ASSUME NEW k \in Key, NEW v \in Values, AddHere(c, k, v) PROVE IInv'
  <2> DEFINE x == [op |-> "add", key |-> k, val |-> v]
  <2>1. x \in AddCall /\ x \in AddCall \cup ReadCall
    BY DEF AddCall
  <2>2. AddLabel \in AddSteps /\ AddLabel \in AddSteps \cup ReadSteps
    BY DEF AddLabel, AddSteps
  <2>3. Here(c, x, AddLabel)
    BY <1>1 DEF AddHere
  <2> HIDE DEF x
  <2> QED
    BY <2>1, <2>2, <2>3, HereKeeps
<1>2. ASSUME NEW k \in Key, NEW v \in Values, AddThere(c, k, v) PROVE IInv'
  <2> DEFINE m == [kind |-> "Put", sender |-> on[c], key |-> k, val |-> v]
  <2>1. m \in Message /\ m.key = k /\ home[k] \in Nodes
    BY <1>a DEF Message, PutMsg
  <2>2. <<"add", k>> \in MayCall[c] /\ home[k] # on[c]
    BY <1>2 DEF AddThere, There
  <2>3. home[k] \in Adders(home[k])
    BY <2>1, <2>2 DEF Adders, MayAdd
  <2>4. Addressed(home[k], m)
    BY <2>1, <2>3 DEF Addressed
  <2>5. /\ qs' = Sent(home[k], m) /\ pc' = pc /\ call' = call /\ returned' = returned
        /\ UNCHANGED <<arrays, nodeVars, reply_, mtx_, stepVars, fault>>
        /\ Counted(c) /\ pc[c] = "idle"
    BY <1>2 DEF AddThere, There, Ready
  <2> HIDE DEF m
  <2> QED
    BY <1>b, <2>1, <2>4, <2>5, ThereKeeps
<1>3. ASSUME NEW k \in Key, GetHere(c, k) PROVE IInv'
  <2> DEFINE x == [op |-> "get", key |-> k]
  <2>1. x \in ReadCall /\ x \in AddCall \cup ReadCall
    BY DEF ReadCall
  <2>2. "look" \in ReadSteps /\ "look" \in AddSteps \cup ReadSteps
    BY DEF ReadSteps
  <2>3. Here(c, x, "look")
    BY <1>3 DEF GetHere
  <2> HIDE DEF x
  <2> QED
    BY <2>1, <2>2, <2>3, HereKeeps
<1>4. ASSUME NEW k \in Key, WaitAndGetHere(c, k) PROVE IInv'
  <2> DEFINE x == [op |-> "waitAndGet", key |-> k]
  <2>1. x \in ReadCall /\ x \in AddCall \cup ReadCall
    BY DEF ReadCall
  <2>2. "poll" \in ReadSteps /\ "poll" \in AddSteps \cup ReadSteps
    BY DEF ReadSteps
  <2>3. Here(c, x, "poll")
    BY <1>4 DEF WaitAndGetHere
  <2> HIDE DEF x
  <2> QED
    BY <2>1, <2>2, <2>3, HereKeeps
<1>5. ASSUME NEW k \in Key, GetThere(c, k) PROVE IInv'
  <2> DEFINE m == [kind |-> "Get", sender |-> 0, key |-> k]
             x == [op |-> "get", key |-> k]
  <2>1. m \in Message /\ m.key = k /\ m.kind = "Get" /\ x \in ReadCall
    BY <1>a DEF Message, RequestMsg, ReadCall
  <2>2. Addressed(home[k], m)
    BY <2>1 DEF Addressed
  <2>3. /\ qs' = Sent(home[k], m) /\ returned' = returned
        /\ pc' = [pc EXCEPT ![c] = "sent"] /\ call' = [call EXCEPT ![c] = x]
        /\ UNCHANGED <<arrays, nodeVars, reply_, mtx_, stepVars, fault>>
        /\ Counted(c) /\ pc[c] = "idle"
    BY <1>5 DEF GetThere, There, Ready, Calls
  <2> HIDE DEF m, x
  <2> QED
    BY <1>a, <1>b, <2>1, <2>2, <2>3, ThereKeeps
<1>6. ASSUME NEW k \in Key, WaitAndGetThere(c, k) PROVE IInv'
  <2> DEFINE m == [kind |-> "WaitAndGet", sender |-> on[c], key |-> k]
             x == [op |-> "waitAndGet", key |-> k]
  <2>1. m \in Message /\ m.key = k /\ m.kind = "WaitAndGet" /\ x \in ReadCall
    BY <1>a DEF Message, RequestMsg, ReadCall
  <2>2. Addressed(home[k], m)
    BY <2>1 DEF Addressed
  <2>3. /\ qs' = Sent(home[k], m) /\ returned' = returned
        /\ pc' = [pc EXCEPT ![c] = "sent"] /\ call' = [call EXCEPT ![c] = x]
        /\ UNCHANGED <<arrays, nodeVars, reply_, mtx_, stepVars, fault>>
        /\ Counted(c) /\ pc[c] = "idle"
    BY <1>6 DEF WaitAndGetThere, There, Ready, Calls
  <2> HIDE DEF m, x
  <2> QED
    BY <1>a, <1>b, <2>1, <2>2, <2>3, ThereKeeps
<1>7. ASSUME NEW n \in Nodes, SendKill(c, n) PROVE IInv'
  <2> DEFINE m == [kind |-> "Kill", sender |-> on[c]]
  <2>1. m \in Message /\ Addressed(n, m)
    BY <1>a DEF Message, KillMsg, Addressed, Requests
  <2>2. /\ qs' = Sent(n, m) /\ pc' = pc /\ call' = call /\ returned' = returned
        /\ UNCHANGED <<arrays, nodeVars, reply_, mtx_, stepVars, fault>>
        /\ Counted(c) /\ pc[c] = "idle"
    BY <1>7 DEF SendKill, Ready
  <2> HIDE DEF m
  <2> QED
    BY <1>b, <2>1, <2>2, ThereKeeps
<1> QED
  BY <1>1, <1>2, <1>3, <1>4, <1>5, <1>6, <1>7 DEF Begin, Kills

\* The end of a call.
LEMMA LeavesKeeps ==
  ASSUME IInv, NEW c \in Clients, Leaves(c), UNCHANGED asserts,
         step' \in [Threads -> StepLabels],
         slot' \in [Threads -> Slot],
         val' \in [Threads -> Values \cup {Null, Garbage}],
         step'[c] = "none",
         \A u \in Threads \ {c} : step'[u] = step[u],
         key_arr_' \in [Nodes -> [Slot -> Key \cup {NoKey}]],
         val_arr_' \in [Nodes -> [Slot -> Values \cup {Garbage}]],
         KeysAtHome',
         reply_' \in [Nodes -> ReplyMsg \cup {NoReply}],
         returned' \in ReturnedType
  PROVE  IInv'
<1>1. /\ pc' = [pc EXCEPT ![c] = "idle"] /\ call' = [call EXCEPT ![c] = NoCall]
      /\ qs' = qs /\ loop' = loop /\ cur' = cur /\ mtx_' = mtx_
      /\ calls' = calls /\ fault' = fault /\ asserts' = asserts
  BY DEF Leaves, nodeVars
<1>2. /\ pc \in [Clients -> {"idle", "store"} \cup SentLabels]
      /\ call \in [Clients -> AddCall \cup ReadCall \cup {NoCall}]
      /\ c \in Threads /\ c \notin Nodes
  BY ThreadsAre DEF IInv, TypeOK
<1>3. /\ pc' \in [Clients -> {"idle", "store"} \cup SentLabels]
      /\ call' \in [Clients -> AddCall \cup ReadCall \cup {NoCall}]
  BY <1>1, <1>2
<1>4. TypeOK'
  BY <1>1, <1>3 DEF IInv, TypeOK, StepLabels, ReturnedType
<1>5. Placed'
  <2>1. pc'[c] = "idle" /\ "idle" \notin SentLabels
    BY <1>1, <1>2 DEF SentLabels
  <2>2. \A d \in Clients \ {c} : pc'[d] = pc[d] /\ call'[d] = call[d]
    BY <1>1, <1>2
  <2>3. \A n \in Nodes : step'[n] = step[n]
    BY <1>2, ThreadsAre
  <2>4. \A d \in Clients : pc'[d] = "store" <=> step'[d] # "none"
    BY <2>1, <2>2, ThreadsAre DEF IInv, Placed
  <2>5. \A d \in Clients : pc'[d] \in SentLabels => call'[d] \in ReadCall
    BY <2>1, <2>2 DEF IInv, Placed
  <2> QED
    BY <1>1, <2>3, <2>4, <2>5 DEF IInv, Placed
<1>6. Jobs'
  <2>1. \A u \in Threads \ {c} : job(u)' = job(u)
    BY <1>1, <1>2 DEF job
  <2>2. Employed(c)'
    BY DEF Employed, AddSteps, ReadSteps
  <2> QED
    BY <1>2, <2>1, <2>2, OtherJobs
<1> QED
  BY <1>1, <1>4, <1>5, <1>6, QueuesKept DEF IInv

LEMMA ReturnsType ==
  ASSUME TypeOK, NEW c \in Clients, call[c] \in ReadCall,
         NEW v \in Values \cup {Null, Garbage}, Returns(c, v)
  PROVE  returned' \in ReturnedType
<1>1. call[c].key \in Key
  BY KindsOf
<1>2. [key |-> call[c].key, val |-> v] \in [key : Key \cup {NoCall},
                                            val : Values \cup {Null, Garbage}]
  BY <1>1
<1> QED
  BY <1>2 DEF Returns, TypeOK, ReturnedType

\* A client that waits goes on.
LEMMA WaitingKeeps ==
  ASSUME IInv, NEW c \in Clients, NEW from \in SentLabels, NEW to \in SentLabels,
         pc[c] = from, pc' = [pc EXCEPT ![c] = to],
         mtx_' \in [Nodes -> BOOLEAN],
         UNCHANGED <<qs, arrays, nodeVars, reply_, call, returned, calls, stepVars, fault>>,
         UNCHANGED asserts
  PROVE  IInv'
<1>1. /\ qs' = qs /\ key_arr_' = key_arr_ /\ val_arr_' = val_arr_ /\ loop' = loop /\ cur' = cur
      /\ reply_' = reply_ /\ call' = call /\ returned' = returned /\ calls' = calls
      /\ step' = step /\ slot' = slot /\ val' = val /\ fault' = fault /\ asserts' = asserts
  BY DEF arrays, nodeVars, stepVars
<1>2. pc \in [Clients -> {"idle", "store"} \cup SentLabels]
  BY DEF IInv, TypeOK
<1>3. TypeOK'
  BY <1>1, <1>2 DEF IInv, TypeOK
<1>4. \A d \in Clients : /\ pc'[d] = "store" <=> pc[d] = "store"
                         /\ pc'[d] \in SentLabels <=> pc[d] \in SentLabels
  BY <1>2 DEF SentLabels
<1>5. Placed'
  BY <1>1, <1>4 DEF IInv, Placed
<1> QED
  BY <1>1, <1>3, <1>5, QueuesKept, StoresKept, JobsKept DEF IInv

LEMMA ProceedKeeps ==
  ASSUME IInv, NEW c \in Clients, Proceed(c) \/ SpuriousWakeup(c), UNCHANGED asserts
  PROVE  IInv'
<1>a. c \in Threads /\ on[c] \in Nodes /\ TypeOK /\ KeysAtHome
  BY ThreadsAre DEF IInv
<1>b. /\ key_arr_ \in [Nodes -> [Slot -> Key \cup {NoKey}]]
      /\ val_arr_ \in [Nodes -> [Slot -> Values \cup {Garbage}]]
      /\ reply_ \in [Nodes -> ReplyMsg \cup {NoReply}]
      /\ returned \in ReturnedType
      /\ mtx_ \in [Nodes -> BOOLEAN]
      /\ step \in [Threads -> StepLabels]
      /\ slot \in [Threads -> Slot]
      /\ val \in [Threads -> Values \cup {Null, Garbage}]
  BY DEF IInv, TypeOK, ReturnedType, StepLabels
<1>1. ASSUME StoreStep(c) PROVE IInv'
  BY <1>1, <1>a, StoreStepKeeps
<1>2. ASSUME AddReturns(c) PROVE IInv'
  <2>1. /\ step[c] \in {"value", "key"} /\ Ends(c)
        /\ key_arr_' \in [Nodes -> [Slot -> Key \cup {NoKey}]]
        /\ val_arr_' \in [Nodes -> [Slot -> Values \cup {Garbage}]]
        /\ KeysAtHome'
    BY <1>2, <1>a, WriteSecondKeeps DEF AddReturns
  <2>2. Leaves(c) /\ reply_' = reply_ /\ returned' = returned
    BY <1>2 DEF AddReturns
  <2> QED
    BY <1>a, <1>b, <2>1, <2>2, EndsType, LeavesKeeps
<1>3. ASSUME ReturnHere(c) PROVE IInv'
  <2>1. /\ step[c] = "got" /\ Returns(c, val[c]) /\ Ends(c) /\ Leaves(c)
        /\ key_arr_' = key_arr_ /\ val_arr_' = val_arr_ /\ reply_' = reply_
    BY <1>3 DEF ReturnHere, At, arrays
  <2>2. call[c] \in ReadCall
    BY <1>a, <2>1, ThreadsAre DEF IInv, Jobs, Employed, ReadSteps
  <2>3. returned' \in ReturnedType
    BY <1>a, <1>b, <2>1, <2>2, ReturnsType
  <2>4. KeysAtHome'
    BY <1>a, <2>1, StoresKept
  <2> QED
    BY <1>a, <1>b, <2>1, <2>3, <2>4, EndsType, LeavesKeeps
<1>4. ASSUME Wait(c) PROVE IInv'
  <2>1. mtx_' \in [Nodes -> BOOLEAN]
    BY <1>4, <1>b DEF Wait
  <2>2. "sent" \in SentLabels /\ "waiting" \in SentLabels
    BY DEF SentLabels
  <2> QED
    BY <1>4, <2>1, <2>2, WaitingKeeps DEF Wait
<1>5. ASSUME Relock(c) PROVE IInv'
  <2>1. mtx_' \in [Nodes -> BOOLEAN]
    BY <1>5, <1>b DEF Relock
  <2>2. "woken" \in SentLabels /\ "read" \in SentLabels
    BY DEF SentLabels
  <2> QED
    BY <1>5, <2>1, <2>2, WaitingKeeps DEF Relock
<1>6. ASSUME Read(c) PROVE IInv'
  <2>1. CASE reply_[on[c]] = NoReply
    BY <1>6, <2>1, FailKeeps DEF Read
  <2>2. CASE reply_[on[c]] # NoReply
    <3>1. /\ pc[c] = "read" /\ Returns(c, reply_[on[c]].val) /\ Leaves(c)
          /\ reply_' = [reply_ EXCEPT ![on[c]] = NoReply]
          /\ key_arr_' = key_arr_ /\ val_arr_' = val_arr_
          /\ step' = step /\ slot' = slot /\ val' = val
      BY <1>6, <2>2 DEF Read, arrays, stepVars
    <3>2. reply_[on[c]] \in ReplyMsg
      BY <1>a, <1>b, <2>2
    <3>3. reply_[on[c]].val \in Values \cup {Null, Garbage}
      BY <3>2, KindsOf
    <3>4. call[c] \in ReadCall /\ step[c] = "none"
      BY <3>1 DEF IInv, Placed, SentLabels
    <3>5. returned' \in ReturnedType
      BY <1>a, <3>1, <3>3, <3>4, ReturnsType
    <3>6. reply_' \in [Nodes -> ReplyMsg \cup {NoReply}]
      BY <1>b, <3>1
    <3>7. KeysAtHome'
      BY <1>a, <3>1, StoresKept
    <3> QED
      BY <1>b, <3>1, <3>4, <3>5, <3>6, <3>7, LeavesKeeps
  <2> QED
    BY <2>1, <2>2
<1>7. ASSUME SpuriousWakeup(c) PROVE IInv'
  <2>1. mtx_' \in [Nodes -> BOOLEAN]
    BY <1>7, <1>b DEF SpuriousWakeup
  <2>2. "waiting" \in SentLabels /\ "woken" \in SentLabels
    BY DEF SentLabels
  <2> QED
    BY <1>7, <2>1, <2>2, WaitingKeeps DEF SpuriousWakeup
<1> QED
  BY <1>1, <1>2, <1>3, <1>4, <1>5, <1>6, <1>7 DEF Proceed

LEMMA InitKeeps == Init => IInv
<1> SUFFICES ASSUME Init PROVE IInv
  OBVIOUS
<1>1. 0 \in Slot
  BY NodeAssumption DEF Slot, Slots
<1>2. TypeOK
  BY <1>1 DEF Init, TypeOK, NoResult, SentLabels
<1>3. WellSent(qs)
  BY DEF Init, WellSent
<1>4. Placed /\ Jobs /\ KeysAtHome
  BY ThreadsAre DEF Init, Placed, Jobs, Employed, KeysAtHome, SentLabels, AddSteps, ReadSteps
<1> QED
  BY <1>2, <1>3, <1>4 DEF IInv

LEMMA StutterKeeps == IInv /\ UNCHANGED vars => IInv'
<1> SUFFICES ASSUME IInv, UNCHANGED vars PROVE IInv'
  OBVIOUS
<1>1. /\ UNCHANGED <<qs, key_arr_, val_arr_, loop, cur, reply_, mtx_>>
      /\ UNCHANGED <<pc, call, returned, calls, step, slot, val, asserts, fault>>
  BY DEF vars, arrays, nodeVars, clientVars, stepVars
<1>2. TypeOK'
  BY <1>1 DEF IInv, TypeOK
<1>3. WellSent(qs)' /\ KeysAtHome' /\ Jobs'
  BY <1>1, QueuesKept, StoresKept, JobsKept DEF IInv
<1>4. Placed'
  BY <1>1 DEF IInv, Placed
<1> QED
  BY <1>2, <1>3, <1>4 DEF IInv

LEMMA StepKeeps == IInv /\ [Next]_vars => IInv'
  BY StutterKeeps, NodeStepKeeps, BeginKeeps, ProceedKeeps DEF Next, Alive

(* The invariant holds in every reachable state: messages about a key are  *)
(* in the queue of its home, and what a thread does in its store is of a   *)
(* key that is at home there.                                              *)
THEOREM Inductive == Spec => []IInv
  BY InitKeeps, StepKeeps, PTL DEF Spec

(* The values of the variables, for any instance.                          *)
THEOREM TypeCorrect == Spec => []TypeOK
<1>1. IInv => TypeOK
  BY DEF IInv
<1> QED
  BY <1>1, Inductive, PTL

(* A value is stored only at the home of its key, for any number of nodes  *)
(* and clients, any calls and any interleaving of them in the stores.      *)
THEOREM StoredAtHomeAlways == Spec => []StoredAtHome
<1>1. IInv => StoredAtHome
  BY SlotsHome DEF IInv
<1> QED
  BY <1>1, Inductive, PTL
-----------------------------------------------------------------------------
\* What stays in a store when one thread adds to it.

Before(k, s) == {r \in Loop(k) : Rounds(k, r) < Rounds(k, s)}

\* A search for k that meets slot s has met taken slots only.
TakenBefore(n, k, s) == /\ s \in Loop(k)
                        /\ \A r \in Before(k, s) : key_arr_[n][r] # NoKey

Chained == \A n \in Nodes, s \in Slot, k \in Key :
  key_arr_[n][s] = k => TakenBefore(n, k, s)

Writes == {"write", "value", "key"}

\* The slot an add has found, before its writes and between them.
Slotted(t) == step[t] \in Writes =>
  /\ TakenBefore(storeOf(t), job(t).key, slot[t])
  /\ step[t] = "write" => /\ key_arr_[storeOf(t)][slot[t]] = NoKey
                          /\ val_arr_[storeOf(t)][slot[t]] = Garbage
  /\ step[t] = "key" => key_arr_[storeOf(t)][slot[t]] = NoKey
  /\ step[t] = "value" => /\ key_arr_[storeOf(t)][slot[t]] = job(t).key
                          /\ val_arr_[storeOf(t)][slot[t]] = Garbage

\* The slot a lookup has found stays the one it would find.
Found(t) == step[t] = "read" =>
  has(storeOf(t), job(t).key) /\ slot[t] = SlotOf(storeOf(t), job(t).key)

\* A slot without a key has no value, unless an add writes the value first.
Blank(n, s) ==
  \/ val_arr_[n][s] = Garbage
  \/ \E t \in Threads : step[t] = "key" /\ storeOf(t) = n /\ slot[t] = s

Blanks == \A n \in Nodes, s \in Slot : key_arr_[n][s] = NoKey => Blank(n, s)

FInv == Chained /\ Blanks /\ \A t \in Threads : Slotted(t) /\ Found(t)

\* The store of n answers as before.
Answering(n, k) == /\ has(n, k) => has(n, k)' /\ SlotOf(n, k)' = SlotOf(n, k)
                   /\ Stored(n, k) \in Values => Stored(n, k)' = Stored(n, k)

SameAnswers == \A n \in Nodes, k \in Key : Answering(n, k)

LEMMA OnlyAdder ==
  ASSUME OneAdder, Jobs, NEW t \in Threads, NEW u \in Threads,
         step[t] \in AddSteps, step[u] \in AddSteps, storeOf(t) = storeOf(u)
  PROVE  t = u
  BY ThreadsAre DEF Jobs, Employed, OneAdder

LEMMA SlotFound ==
  ASSUME NEW n \in Nodes, NEW k \in Key, has(n, k)
  PROVE  /\ SlotOf(n, k) \in Loop(k) /\ SlotOf(n, k) \in Slot
         /\ key_arr_[n][SlotOf(n, k)] = k
         /\ \A r \in Loop(k) : key_arr_[n][r] = k => Rounds(k, SlotOf(n, k)) <= Rounds(k, r)
  BY SearchEnds DEF has, SlotOf

\* The slot in which a search has to end.
EndsAt(n, k, s) ==
  /\ key_arr_[n][s] = k
  /\ \A r \in Loop(k) : key_arr_[n][r] = k => Rounds(k, s) <= Rounds(k, r)

LEMMA SlotIs ==
  \A n \in Nodes, k \in Key : \A s \in Loop(k) :
    EndsAt(n, k, s) => has(n, k) /\ SlotOf(n, k) = s
<1> SUFFICES ASSUME NEW n \in Nodes, NEW k \in Key, NEW s \in Loop(k), EndsAt(n, k, s)
             PROVE  has(n, k) /\ SlotOf(n, k) = s
  OBVIOUS
<1> DEFINE H == Holding(n, k, k)
<1>1. H = {r \in Loop(k) : key_arr_[n][r] = k}
  BY DEF Holding, Loop
<1>2. H \subseteq Slot /\ s \in H /\ \A r \in H : Rounds(k, s) <= Rounds(k, r)
  BY <1>1, SlotsOfLoop DEF EndsAt
<1>3. H # {} /\ s = First(k, MemorySize, H)
  <2> HIDE DEF H
  <2> QED
    BY <1>2, FirstOfSlots
<1> QED
  BY <1>3 DEF has, SlotOf

LEMMA SlotIsThen ==
  \A n \in Nodes, k \in Key : \A s \in Loop(k) :
    EndsAt(n, k, s)' => has(n, k)' /\ SlotOf(n, k)' = s
<1>1. (\A n \in Nodes, k \in Key : \A s \in Loop(k) :
         EndsAt(n, k, s) => has(n, k) /\ SlotOf(n, k) = s)'
  BY SlotIs, PTL
<1> QED
  BY <1>1

\* An add writes its key into a slot without one.
LEMMA KeyWritten ==
  ASSUME TypeOK, FInv, NEW t \in Threads, Employed(t), step[t] \in {"write", "key"},
         WritesKey(t)
  PROVE  /\ SameAnswers /\ Chained'
         /\ \A n \in Nodes, k \in Key, s \in Slot : TakenBefore(n, k, s) => TakenBefore(n, k, s)'
         /\ \A n \in Nodes, s \in Slot :
              key_arr_'[n][s] = IF n = storeOf(t) /\ s = slot[t] THEN job(t).key
                                ELSE key_arr_[n][s]
         /\ val_arr_' = val_arr_
<1> DEFINE N == storeOf(t)
           K == job(t).key
           S == slot[t]
<1>1. /\ N \in Nodes /\ S \in Slot /\ K \in Key /\ K # NoKey
      /\ S \in Loop(K) /\ TakenBefore(N, K, S) /\ key_arr_[N][S] = NoKey
  <2>1. S \in Slot /\ N \in Nodes /\ K \in Key
    BY ThreadsAre DEF TypeOK, Employed
  <2>2. TakenBefore(N, K, S) /\ key_arr_[N][S] = NoKey
    BY DEF FInv, Slotted, Writes
  <2> QED
    BY <2>1, <2>2, NodeAssumption DEF TakenBefore
<1>2. /\ val_arr_' = val_arr_
      /\ \A n \in Nodes, s \in Slot :
           key_arr_'[n][s] = IF n = N /\ s = S THEN K ELSE key_arr_[n][s]
  <2>1. key_arr_ \in [Nodes -> [Slot -> Key \cup {NoKey}]]
    BY DEF TypeOK
  <2>2. key_arr_' = [key_arr_ EXCEPT ![N][S] = K] /\ val_arr_' = val_arr_
    BY DEF WritesKey
  <2> HIDE DEF N, K, S
  <2> QED
    BY <1>1, <2>1, <2>2
<1>3. \A n \in Nodes, k \in Key, s \in Slot : TakenBefore(n, k, s) => TakenBefore(n, k, s)'
  <2> HIDE DEF N, K, S
  <2> SUFFICES ASSUME NEW n \in Nodes, NEW k \in Key, NEW s \in Slot, TakenBefore(n, k, s)
               PROVE  TakenBefore(n, k, s)'
    OBVIOUS
  <2>1. \A r \in Before(k, s) : r \in Slot /\ key_arr_[n][r] # NoKey
    BY SlotsOfLoop DEF TakenBefore, Before
  <2>2. \A r \in Before(k, s) : key_arr_'[n][r] # NoKey
    BY <1>1, <1>2, <2>1
  <2> QED
    BY <2>2 DEF TakenBefore
<1>4. Chained'
  <2> HIDE DEF N, K, S
  <2> SUFFICES ASSUME NEW n \in Nodes, NEW s \in Slot, NEW k \in Key, key_arr_'[n][s] = k
               PROVE  TakenBefore(n, k, s)'
    BY DEF Chained
  <2>1. CASE n = N /\ s = S
    BY <1>1, <1>2, <1>3, <2>1
  <2>2. CASE ~(n = N /\ s = S)
    <3>1. key_arr_[n][s] = k
      BY <1>2, <2>2
    <3> QED
      BY <1>3, <3>1 DEF FInv, Chained
  <2> QED
    BY <2>1, <2>2
<1>5. SameAnswers
  <2> HIDE DEF N, K, S
  <2> SUFFICES ASSUME NEW n \in Nodes, NEW k \in Key PROVE Answering(n, k)
    BY DEF SameAnswers
  <2>1. SUFFICES ASSUME has(n, k)
                 PROVE  /\ has(n, k)' /\ SlotOf(n, k)' = SlotOf(n, k)
                        /\ Stored(n, k)' = Stored(n, k)
    <3>1. CASE has(n, k)
      BY <2>1, <3>1 DEF Answering
    <3>2. CASE ~has(n, k)
      BY <3>2, NodeAssumption DEF Answering, Stored
    <3> QED
      BY <3>1, <3>2
  <2>2. PICK f \in Slot : f = SlotOf(n, k)
    BY <2>1, SlotFound
  <2>3. /\ f \in Loop(k) /\ f \in Slot /\ key_arr_[n][f] = k
        /\ \A r \in Loop(k) : key_arr_[n][r] = k => Rounds(k, f) <= Rounds(k, r)
    BY <2>1, <2>2, SlotFound
  <2>4. key_arr_'[n][f] = k
    BY <1>1, <1>2, <2>3, NodeAssumption
  <2>5. ASSUME NEW r \in Loop(k), key_arr_'[n][r] = k PROVE Rounds(k, f) <= Rounds(k, r)
    <3>1. r \in Slot
      BY SlotsOfLoop
    <3>2. CASE n = N /\ r = S
      <4>1. K = k
        BY <1>2, <2>5, <3>1, <3>2
      <4>2. TakenBefore(n, k, f)
        BY <2>3, NodeAssumption DEF FInv, Chained
      <4>3. r \notin Before(k, f)
        BY <1>1, <3>2, <4>2 DEF TakenBefore
      <4>4. ~ (Rounds(k, r) < Rounds(k, f))
        BY <4>3 DEF Before
      <4>5. Rounds(k, r) \in Nat /\ Rounds(k, f) \in Nat
        BY <3>1, SlotsOfLoop
      <4> QED
        BY <4>4, <4>5
    <3>3. CASE ~(n = N /\ r = S)
      BY <1>2, <2>3, <2>5, <3>1, <3>3
    <3> QED
      BY <3>2, <3>3
  <2>6. (has(n, k) /\ SlotOf(n, k) = f)'
    <3>1. EndsAt(n, k, f)'
      BY <2>4, <2>5 DEF EndsAt
    <3> QED
      BY <2>3, <3>1, SlotIsThen
  <2>7. Stored(n, k)' = val_arr_'[n][f] /\ Stored(n, k) = val_arr_[n][f]
    BY <2>1, <2>2, <2>6 DEF Stored
  <2> QED
    BY <1>2, <2>2, <2>6, <2>7
<1> QED
  BY <1>2, <1>3, <1>4, <1>5

\* An add writes its value.
LEMMA ValueWritten ==
  ASSUME TypeOK, FInv, NEW t \in Threads, Employed(t), step[t] \in {"write", "value"},
         WritesValue(t)
  PROVE  /\ SameAnswers /\ Chained'
         /\ key_arr_' = key_arr_
         /\ \A n \in Nodes, s \in Slot :
              ~(n = storeOf(t) /\ s = slot[t]) => val_arr_'[n][s] = val_arr_[n][s]
<1> DEFINE N == storeOf(t)
           S == slot[t]
<1>1. /\ N \in Nodes /\ S \in Slot
      /\ key_arr_[N][S] = NoKey \/ val_arr_[N][S] = Garbage
  BY ThreadsAre DEF TypeOK, FInv, Slotted, Writes
<1>2. /\ key_arr_' = key_arr_
      /\ \A n \in Nodes, s \in Slot :
           ~(n = N /\ s = S) => val_arr_'[n][s] = val_arr_[n][s]
  <2>1. val_arr_ \in [Nodes -> [Slot -> Values \cup {Garbage}]]
    BY DEF TypeOK
  <2>2. val_arr_' = [val_arr_ EXCEPT ![N][S] = job(t).val] /\ key_arr_' = key_arr_
    BY DEF WritesValue
  <2> HIDE DEF N, S
  <2> QED
    BY <1>1, <2>1, <2>2
<1>3. Chained'
  BY <1>2 DEF FInv, Chained, TakenBefore
<1>4. SameAnswers
  <2> HIDE DEF N, S
  <2> SUFFICES ASSUME NEW n \in Nodes, NEW k \in Key PROVE Answering(n, k)
    BY DEF SameAnswers
  <2>1. has(n, k)' = has(n, k) /\ SlotOf(n, k)' = SlotOf(n, k)
    BY <1>2 DEF has, SlotOf, Holding
  <2>2. ASSUME Stored(n, k) \in Values PROVE Stored(n, k)' = Stored(n, k)
    <3>1. has(n, k)
      BY <2>2, NodeAssumption DEF Stored
    <3>2. PICK f \in Slot : f = SlotOf(n, k)
      BY <3>1, SlotFound
    <3>3. Stored(n, k) = val_arr_[n][f] /\ Stored(n, k)' = val_arr_'[n][f]
      BY <2>1, <3>1, <3>2 DEF Stored
    <3>4. key_arr_[n][f] = k /\ k # NoKey
      BY <3>1, <3>2, SlotFound, NodeAssumption
    <3>5. ~(n = N /\ f = S)
      BY <1>1, <2>2, <3>3, <3>4, NodeAssumption
    <3> QED
      BY <1>2, <3>3, <3>5
  <2> QED
    BY <2>1, <2>2 DEF Answering
<1> QED
  BY <1>2, <1>3, <1>4
-----------------------------------------------------------------------------
\* What the steps do to the operations of threads.

\* Only t moves.
Alone(t) == \A u \in Threads \ {t} : /\ step'[u] = step[u] /\ slot'[u] = slot[u]
                                     /\ val'[u] = val[u] /\ job(u)' = job(u)

\* The stores do not change, and t is between its searches and its writes.
Plain(t) == /\ key_arr_' = key_arr_ /\ val_arr_' = val_arr_
            /\ step[t] # "key" /\ step'[t] \notin Writes \cup {"read"}

Moves(t) == Plain(t) \/ FindSlot(t) \/ Look(t) \/ WriteFirst(t) \/ WriteSecond(t)

LEMMA InsideAlone ==
  ASSUME IInv, NEW t \in Threads, Inside, NEW label, Goto(t, label),
         \A u \in Threads \ {t} : slot'[u] = slot[u] /\ val'[u] = val[u]
  PROVE  Alone(t) /\ step'[t] = label /\ job(t)' = job(t)
<1>1. cur' = cur /\ call' = call
  BY DEF Inside, nodeVars, clientVars
<1>2. \A u \in Threads : job(u)' = job(u)
  BY <1>1 DEF job
<1>3. step'[t] = label /\ \A u \in Threads \ {t} : step'[u] = step[u]
  BY DEF Goto, IInv, TypeOK
<1> QED
  BY <1>2, <1>3 DEF Alone

LEMMA FailAlone ==
  ASSUME NEW what, Fail(what), NEW t \in Threads, step[t] \notin Writes \cup {"read"}
  PROVE  Alone(t) /\ Moves(t)
<1>1. /\ key_arr_' = key_arr_ /\ val_arr_' = val_arr_ /\ cur' = cur /\ call' = call
      /\ step' = step /\ slot' = slot /\ val' = val
  BY DEF Fail, arrays, nodeVars, clientVars, stepVars
<1>2. Alone(t)
  BY <1>1 DEF Alone, job
<1> QED
  BY <1>1, <1>2 DEF Moves, Plain, Writes

LEMMA StoreStepCases ==
  ASSUME IInv, NEW t \in Threads, StoreStep(t)
  PROVE  Alone(t) /\ Moves(t)
<1>a. slot \in [Threads -> Slot] /\ val \in [Threads -> Values \cup {Null, Garbage}]
  BY DEF IInv, TypeOK
<1>1. ASSUME Check(t) PROVE Alone(t) /\ Moves(t)
  <2>1. CASE has(storeOf(t), job(t).key)
    BY <1>1, <2>1, FailAlone DEF Check, At, Writes
  <2>2. CASE ~has(storeOf(t), job(t).key)
    <3>1. /\ step[t] = "check" /\ Goto(t, "find") /\ Inside
          /\ key_arr_' = key_arr_ /\ val_arr_' = val_arr_ /\ slot' = slot /\ val' = val
      BY <1>1, <2>2 DEF Check, At, arrays
    <3>2. Alone(t) /\ step'[t] = "find"
      BY <3>1, InsideAlone
    <3> QED
      BY <3>1, <3>2 DEF Moves, Plain, Writes
  <2> QED
    BY <2>1, <2>2
<1>2. ASSUME FindSlot(t) PROVE Alone(t)
  BY <1>2, <1>a, InsideAlone DEF FindSlot
<1>3. ASSUME WriteFirst(t) PROVE Alone(t)
  <2>1. Inside /\ slot' = slot /\ val' = val /\ (Goto(t, "value") \/ Goto(t, "key"))
    BY <1>3 DEF WriteFirst
  <2> QED
    BY <2>1, InsideAlone
<1>4. ASSUME PollStore(t) PROVE Alone(t) /\ Moves(t)
  <2>1. /\ step[t] = "poll" /\ Goto(t, "look") /\ Inside
        /\ key_arr_' = key_arr_ /\ val_arr_' = val_arr_ /\ slot' = slot /\ val' = val
    BY <1>4 DEF PollStore, At, arrays
  <2>2. Alone(t) /\ step'[t] = "look"
    BY <2>1, InsideAlone
  <2> QED
    BY <2>1, <2>2 DEF Moves, Plain, Writes
<1>5. ASSUME Look(t) PROVE Alone(t)
  <2> DEFINE s == SlotOf(storeOf(t), job(t).key)
  <2>1. /\ Inside /\ val' = val
        /\ \/ slot' = [slot EXCEPT ![t] = s] /\ Goto(t, "read")
           \/ slot' = slot /\ Goto(t, "got")
    BY <1>5 DEF Look
  <2> HIDE DEF s
  <2>2. \A u \in Threads \ {t} : slot'[u] = slot[u] /\ val'[u] = val[u]
    BY <1>a, <2>1
  <2> QED
    BY <2>1, <2>2, InsideAlone
<1>6. ASSUME ReadValue(t) PROVE Alone(t) /\ Moves(t)
  <2>1. /\ step[t] = "read" /\ Goto(t, "got") /\ Inside /\ slot' = slot
        /\ key_arr_' = key_arr_ /\ val_arr_' = val_arr_
        /\ \A u \in Threads \ {t} : val'[u] = val[u]
    BY <1>6, <1>a DEF ReadValue, At, arrays
  <2>2. Alone(t) /\ step'[t] = "got"
    BY <2>1, InsideAlone
  <2> QED
    BY <2>1, <2>2 DEF Moves, Plain, Writes
<1> QED
  BY <1>1, <1>2, <1>3, <1>4, <1>5, <1>6 DEF StoreStep, Moves

\* Nobody but t has part in a step that does not touch the operations of others.
LEMMA EntersAlone ==
  ASSUME IInv, NEW t \in Threads, step[t] = "none",
         NEW label \in AddSteps \cup ReadSteps, label \notin Writes \cup {"read"},
         NEW others, Enters(t, label, others),
         StoreAttached => \A u \in Threads \ {t} : job(u)' = job(u)
  PROVE  Alone(t) /\ Moves(t)
<1>1. CASE ~StoreAttached
  BY <1>1, FailAlone DEF Enters, Writes
<1>2. CASE StoreAttached
  <2>1. /\ step' = [step EXCEPT ![t] = label]
        /\ key_arr_' = key_arr_ /\ val_arr_' = val_arr_ /\ slot' = slot /\ val' = val
    BY <1>2 DEF Enters, arrays
  <2>2. Alone(t) /\ step'[t] = label
    BY <1>2, <2>1 DEF Alone, IInv, TypeOK
  <2> QED
    BY <2>1, <2>2 DEF Moves, Plain
<1> QED
  BY <1>1, <1>2

LEMMA OutsideAlone ==
  ASSUME NEW t \in Threads, step[t] = "none", key_arr_' = key_arr_, val_arr_' = val_arr_,
         step' = step, slot' = slot, val' = val,
         \A u \in Threads \ {t} : job(u)' = job(u)
  PROVE  Alone(t) /\ Moves(t)
  BY DEF Alone, Moves, Plain, Writes

LEMMA SecondAlone ==
  ASSUME IInv, NEW t \in Threads, Ends(t), \A u \in Threads \ {t} : job(u)' = job(u)
  PROVE  Alone(t) /\ step'[t] = "none"
  BY DEF Ends, Alone, IInv, TypeOK

LEMMA NodeMoves ==
  ASSUME IInv, NEW n \in Nodes, NodeStep(n)
  PROVE  Alone(n) /\ Moves(n)
<1>a. /\ n \in Threads /\ n \notin Clients
      /\ \A u \in Threads \ {n} : u \in Clients \/ u \in Nodes \ {n}
      /\ loop[n] # "serve" => step[n] = "none"
  BY ThreadsAre DEF IInv, Placed
<1>b. ASSUME \A i \in Nodes \ {n} : cur'[i] = cur[i], call' = call
      PROVE  \A u \in Threads \ {n} : job(u)' = job(u)
  BY <1>a, <1>b, ThreadsAre DEF job
<1>c. ASSUME NEW x, cur' = [cur EXCEPT ![n] = x] PROVE \A i \in Nodes \ {n} : cur'[i] = cur[i]
  BY <1>c DEF IInv, TypeOK
<1>1. ASSUME Register(n) \/ RecvReply(n) \/ NotifyAll(n) PROVE Alone(n) /\ Moves(n)
  <2>1. /\ step[n] = "none" /\ key_arr_' = key_arr_ /\ val_arr_' = val_arr_
        /\ step' = step /\ slot' = slot /\ val' = val /\ cur' = cur /\ call' = call
    BY <1>1, <1>a DEF Register, RecvReply, NotifyAll, Receives, arrays, stepVars, clientVars
  <2> QED
    BY <1>a, <1>b, <2>1, OutsideAlone
<1>2. ASSUME RecvAborts(n) \/ RecvKill(n) PROVE Alone(n) /\ Moves(n)
  BY <1>2, <1>a, FailAlone DEF RecvAborts, RecvKill, Receives, Writes
<1>3. ASSUME NEW label \in {"look", "poll", "check", "find"}, loop[n] = "recv", Serves(n, label)
      PROVE  Alone(n) /\ Moves(n)
  <2> DEFINE others == /\ qs' = Popped(n)
                       /\ cur' = [cur EXCEPT ![n] = Head(qs[n])]
                       /\ loop' = [loop EXCEPT ![n] = "serve"]
                       /\ UNCHANGED clientVars
  <2>1. Enters(n, label, others)
    BY <1>3 DEF Serves
  <2>2. others => \A u \in Threads \ {n} : job(u)' = job(u)
    BY <1>b, <1>c DEF clientVars
  <2>3. label \in AddSteps \cup ReadSteps /\ label \notin Writes \cup {"read"}
    BY DEF AddSteps, ReadSteps, Writes
  <2>4. StoreAttached => others
    BY <2>1 DEF Enters
  <2> HIDE DEF others
  <2> QED
    BY <1>3, <1>a, <2>1, <2>2, <2>3, <2>4, EntersAlone
<1>4. ASSUME RecvGet(n) \/ RecvWaitAndGet(n) \/ RecvPut(n) PROVE Alone(n) /\ Moves(n)
  <2>1. AddLabel \in {"look", "poll", "check", "find"}
    BY DEF AddLabel
  <2> QED
    BY <1>3, <1>4, <2>1 DEF RecvGet, RecvWaitAndGet, RecvPut, Receives
<1>5. ASSUME StoreStep(n) PROVE Alone(n) /\ Moves(n)
  BY <1>5, <1>a, StoreStepCases
<1>6. ASSUME PutServed(n) PROVE Alone(n) /\ Moves(n)
  <2>1. WriteSecond(n) /\ Ends(n) /\ cur' = [cur EXCEPT ![n] = NoMsg] /\ call' = call
    BY <1>6 DEF PutServed, WriteSecond, Served, clientVars
  <2>2. \A u \in Threads \ {n} : job(u)' = job(u)
    BY <1>b, <1>c, <2>1
  <2> QED
    BY <1>a, <2>1, <2>2, SecondAlone DEF Moves
<1>7. ASSUME SendReply(n) PROVE Alone(n) /\ Moves(n)
  <2>1. /\ step[n] = "got" /\ Ends(n) /\ cur' = [cur EXCEPT ![n] = NoMsg] /\ call' = call
        /\ key_arr_' = key_arr_ /\ val_arr_' = val_arr_
    BY <1>7 DEF SendReply, At, Served, clientVars, arrays
  <2>2. \A u \in Threads \ {n} : job(u)' = job(u)
    BY <1>b, <1>c, <2>1
  <2> QED
    BY <1>a, <2>1, <2>2, SecondAlone DEF Moves, Plain, Writes
<1> QED
  BY <1>1, <1>2, <1>4, <1>5, <1>6, <1>7 DEF NodeStep

LEMMA ClientMoves ==
  ASSUME IInv, NEW c \in Clients, Begin(c) \/ Kills(c) \/ Proceed(c) \/ SpuriousWakeup(c)
  PROVE  Alone(c) /\ Moves(c)
<1>a. /\ c \in Threads /\ c \notin Nodes
      /\ \A u \in Threads \ {c} : u \in Nodes \/ u \in Clients \ {c}
      /\ pc[c] # "store" => step[c] = "none"
  BY ThreadsAre DEF IInv, Placed
<1>b. ASSUME \A d \in Clients \ {c} : call'[d] = call[d], cur' = cur
      PROVE  \A u \in Threads \ {c} : job(u)' = job(u)
  BY <1>a, <1>b, ThreadsAre DEF job
<1>c. ASSUME NEW x, call' = [call EXCEPT ![c] = x]
      PROVE  \A d \in Clients \ {c} : call'[d] = call[d]
  BY <1>c DEF IInv, TypeOK
<1>1. ASSUME NEW x, NEW label \in {"look", "poll", "check", "find"}, Here(c, x, label)
      PROVE  Alone(c) /\ Moves(c)
  <2> DEFINE others == Calls(c, x, "store") /\ UNCHANGED <<qs, nodeVars>>
  <2>1. Enters(c, label, others) /\ pc[c] = "idle"
    BY <1>1 DEF Here, Ready
  <2>2. others => \A u \in Threads \ {c} : job(u)' = job(u)
    BY <1>b, <1>c DEF Calls, nodeVars
  <2>3. label \in AddSteps \cup ReadSteps /\ label \notin Writes \cup {"read"}
    BY DEF AddSteps, ReadSteps, Writes
  <2>4. StoreAttached => others
    BY <2>1 DEF Enters
  <2> HIDE DEF others
  <2> QED
    BY <1>a, <2>1, <2>2, <2>3, <2>4, EntersAlone
<1>2. ASSUME NEW k \in Key, \/ \E v \in Values : AddHere(c, k, v)
                            \/ GetHere(c, k) \/ WaitAndGetHere(c, k)
      PROVE  Alone(c) /\ Moves(c)
  <2>1. AddLabel \in {"look", "poll", "check", "find"}
    BY DEF AddLabel
  <2> QED
    BY <1>1, <1>2, <2>1 DEF AddHere, GetHere, WaitAndGetHere
<1>3. ASSUME NEW op, NEW k, There(c, op, k), \A d \in Clients \ {c} : call'[d] = call[d]
      PROVE  Alone(c) /\ Moves(c)
  <2>1. /\ pc[c] = "idle" /\ key_arr_' = key_arr_ /\ val_arr_' = val_arr_
        /\ step' = step /\ slot' = slot /\ val' = val /\ cur' = cur
    BY <1>3 DEF There, Ready, arrays, stepVars, nodeVars
  <2> QED
    BY <1>3, <1>a, <1>b, <2>1, OutsideAlone
<1>4. ASSUME NEW k \in Key, \/ \E v \in Values : AddThere(c, k, v)
                            \/ GetThere(c, k) \/ WaitAndGetThere(c, k)
      PROVE  Alone(c) /\ Moves(c)
  BY <1>3, <1>4, <1>c DEF AddThere, GetThere, WaitAndGetThere, Calls
<1>5. ASSUME Kills(c) \/ Wait(c) \/ Relock(c) \/ SpuriousWakeup(c) PROVE Alone(c) /\ Moves(c)
  <2>1. /\ step[c] = "none" /\ key_arr_' = key_arr_ /\ val_arr_' = val_arr_
        /\ step' = step /\ slot' = slot /\ val' = val /\ cur' = cur /\ call' = call
    BY <1>5, <1>a DEF Kills, SendKill, Wait, Relock, SpuriousWakeup, Ready, arrays,
                      stepVars, nodeVars
  <2> QED
    BY <1>a, <1>b, <2>1, OutsideAlone
<1>6. ASSUME StoreStep(c) PROVE Alone(c) /\ Moves(c)
  BY <1>6, <1>a, StoreStepCases
<1>7. ASSUME Leaves(c) PROVE \A u \in Threads \ {c} : job(u)' = job(u)
  BY <1>7, <1>b, <1>c DEF Leaves, nodeVars
<1>8. ASSUME AddReturns(c) PROVE Alone(c) /\ Moves(c)
  BY <1>8, <1>7, <1>a, SecondAlone DEF AddReturns, WriteSecond, Moves
<1>9. ASSUME ReturnHere(c) PROVE Alone(c) /\ Moves(c)
  <2>1. /\ step[c] = "got" /\ Ends(c) /\ Leaves(c)
        /\ key_arr_' = key_arr_ /\ val_arr_' = val_arr_
    BY <1>9 DEF ReturnHere, At, arrays
  <2> QED
    BY <1>7, <1>a, <2>1, SecondAlone DEF Moves, Plain, Writes
<1>10. ASSUME Read(c) PROVE Alone(c) /\ Moves(c)
  <2>1. step[c] = "none"
    BY <1>10, <1>a DEF Read
  <2>2. CASE reply_[on[c]] = NoReply
    BY <1>10, <1>a, <2>1, <2>2, FailAlone DEF Read, Writes
  <2>3. CASE reply_[on[c]] # NoReply
    <3>1. /\ Leaves(c) /\ key_arr_' = key_arr_ /\ val_arr_' = val_arr_
          /\ step' = step /\ slot' = slot /\ val' = val
      BY <1>10, <2>3 DEF Read, arrays, stepVars
    <3> QED
      BY <1>7, <1>a, <2>1, <3>1, OutsideAlone
  <2> QED
    BY <2>2, <2>3
<1> QED
  BY <1>2, <1>4, <1>5, <1>6, <1>8, <1>9, <1>10 DEF Begin, Proceed

\* The state of the stores and of the slots that threads hold, after a move.
LEMMA Rest ==
  ASSUME FInv, NEW t \in Threads, Alone(t), key_arr_' = key_arr_, val_arr_' = val_arr_,
         step[t] # "key", Slotted(t)', Found(t)'
  PROVE  FInv' /\ SameAnswers
<1>1. \A n \in Nodes, k \in Key : /\ has(n, k)' = has(n, k) /\ SlotOf(n, k)' = SlotOf(n, k)
                                  /\ Stored(n, k)' = Stored(n, k)
  BY DEF has, SlotOf, Holding, Stored
<1>2. SameAnswers
  BY <1>1 DEF SameAnswers, Answering
<1>3. Chained'
  BY DEF FInv, Chained, TakenBefore
<1>4. Blanks'
  <2> SUFFICES ASSUME NEW n \in Nodes, NEW s \in Slot, key_arr_'[n][s] = NoKey
               PROVE  Blank(n, s)'
    BY DEF Blanks
  <2>1. CASE val_arr_[n][s] = Garbage
    BY <2>1 DEF Blank
  <2>2. CASE val_arr_[n][s] # Garbage
    <3>1. PICK u \in Threads : step[u] = "key" /\ storeOf(u) = n /\ slot[u] = s
      BY <2>2 DEF FInv, Blanks, Blank
    <3>2. step'[u] = "key" /\ slot'[u] = s
      BY <3>1 DEF Alone
    <3> QED
      BY <3>1, <3>2 DEF Blank, storeOf
  <2> QED
    BY <2>1, <2>2
<1>5. ASSUME NEW u \in Threads, u # t PROVE Slotted(u)' /\ Found(u)'
  <2>1. step'[u] = step[u] /\ slot'[u] = slot[u] /\ job(u)' = job(u) /\ storeOf(u)' = storeOf(u)
    BY <1>5 DEF Alone, storeOf
  <2>2. Slotted(u)'
    BY <2>1 DEF FInv, Slotted, TakenBefore
  <2>3. Found(u)'
    BY <2>1 DEF FInv, Found, has, SlotOf, Holding
  <2> QED
    BY <2>2, <2>3
<1> QED
  BY <1>2, <1>3, <1>4, <1>5 DEF FInv

\* A write of the only thread that adds to a store.
LEMMA WriteKeeps ==
  ASSUME IInv, FInv, OneAdder, NEW t \in Threads, Alone(t), step[t] \in Writes,
         \/ step[t] \in {"write", "key"} /\ WritesKey(t)
         \/ step[t] \in {"write", "value"} /\ WritesValue(t),
         \/ step'[t] = "none"
         \/ /\ step[t] = "write" /\ slot'[t] = slot[t] /\ job(t)' = job(t)
            /\ \/ step'[t] = "value" /\ WritesKey(t)
               \/ step'[t] = "key" /\ WritesValue(t),
         step'[t] = "none" => \/ step[t] = "key" /\ WritesKey(t)
                              \/ step[t] = "value" /\ WritesValue(t)
  PROVE  FInv' /\ SameAnswers
<1> DEFINE N == storeOf(t)
           K == job(t).key
           S == slot[t]
<1>a. Employed(t) /\ TypeOK /\ Jobs /\ step[t] \in AddSteps
  BY DEF IInv, Jobs, Writes, AddSteps
<1>b. N \in Nodes /\ S \in Slot /\ K \in Key /\ K # NoKey
  BY <1>a, ThreadsAre, NodeAssumption DEF TypeOK, Employed
<1>c. /\ TakenBefore(N, K, S)
      /\ step[t] = "write" => key_arr_[N][S] = NoKey /\ val_arr_[N][S] = Garbage
      /\ step[t] = "key" => key_arr_[N][S] = NoKey
      /\ step[t] = "value" => key_arr_[N][S] = K /\ val_arr_[N][S] = Garbage
  BY DEF FInv, Slotted
<1>d. \A u \in Threads \ {t} : step[u] \in Writes => storeOf(u) # N
  BY <1>a, OnlyAdder DEF Writes, AddSteps
\* What has changed, whichever of the two is written.
<1>1. /\ SameAnswers /\ Chained'
      /\ \A n \in Nodes, k \in Key, s \in Slot : TakenBefore(n, k, s) => TakenBefore(n, k, s)'
      /\ \A n \in Nodes, s \in Slot : ~(n = N /\ s = S) =>
           key_arr_'[n][s] = key_arr_[n][s] /\ val_arr_'[n][s] = val_arr_[n][s]
      /\ WritesKey(t) => key_arr_'[N][S] = K /\ val_arr_'[N][S] = val_arr_[N][S]
      /\ WritesValue(t) => key_arr_'[N][S] = key_arr_[N][S]
  <2>1. CASE step[t] \in {"write", "key"} /\ WritesKey(t)
    <3>1. /\ SameAnswers /\ Chained'
          /\ \A n \in Nodes, k \in Key, s \in Slot :
               TakenBefore(n, k, s) => TakenBefore(n, k, s)'
          /\ \A n \in Nodes, s \in Slot :
               key_arr_'[n][s] = IF n = N /\ s = S THEN K ELSE key_arr_[n][s]
          /\ val_arr_' = val_arr_
      BY <1>a, <2>1, KeyWritten
    <3>2. WritesValue(t) => key_arr_' = key_arr_
      BY DEF WritesValue
    <3> HIDE DEF N, K, S
    <3> QED
      BY <1>b, <3>1, <3>2
  <2>2. CASE step[t] \in {"write", "value"} /\ WritesValue(t)
    <3>1. /\ SameAnswers /\ Chained' /\ key_arr_' = key_arr_
          /\ \A n \in Nodes, s \in Slot :
               ~(n = N /\ s = S) => val_arr_'[n][s] = val_arr_[n][s]
      BY <1>a, <2>2, ValueWritten
    <3>2. \A n \in Nodes, k \in Key, s \in Slot : TakenBefore(n, k, s) => TakenBefore(n, k, s)'
      BY <3>1 DEF TakenBefore
    <3>3. WritesKey(t) => key_arr_'[N][S] = K /\ val_arr_'[N][S] = val_arr_[N][S]
      <4>1. key_arr_ \in [Nodes -> [Slot -> Key \cup {NoKey}]]
        BY <1>a DEF TypeOK
      <4>2. WritesKey(t) => /\ key_arr_' = [key_arr_ EXCEPT ![N][S] = K]
                            /\ val_arr_' = val_arr_
        BY DEF WritesKey
      <4> HIDE DEF N, K, S
      <4> QED
        BY <1>b, <4>1, <4>2
    <3> HIDE DEF N, K, S
    <3> QED
      BY <3>1, <3>2, <3>3
  <2> QED
    BY <2>1, <2>2
<1>2. ASSUME NEW u \in Threads, u # t PROVE Slotted(u)' /\ Found(u)'
  <2>1. /\ step'[u] = step[u] /\ slot'[u] = slot[u] /\ job(u)' = job(u)
        /\ storeOf(u)' = storeOf(u) /\ storeOf(u) \in Nodes /\ slot[u] \in Slot
    BY <1>2, <1>a, ThreadsAre DEF Alone, storeOf, TypeOK
  <2>2. Slotted(u)'
    <3>1. SUFFICES ASSUME step[u] \in Writes PROVE Slotted(u)'
      BY <2>1 DEF Slotted
    <3>2. storeOf(u) # N
      BY <1>2, <1>d, <3>1
    <3>3. /\ key_arr_'[storeOf(u)][slot[u]] = key_arr_[storeOf(u)][slot[u]]
          /\ val_arr_'[storeOf(u)][slot[u]] = val_arr_[storeOf(u)][slot[u]]
      BY <1>1, <2>1, <3>2
    <3>4. PICK n \in Nodes, k \in Key, s \in Slot :
            n = storeOf(u) /\ k = job(u).key /\ s = slot[u]
      <4>1. job(u).key \in Key
        BY <1>a, <3>1 DEF Jobs, Employed, Writes
      <4> QED
        BY <2>1, <4>1
    <3>5. TakenBefore(n, k, s)'
      BY <1>1, <3>1, <3>4 DEF FInv, Slotted
    <3> QED
      BY <2>1, <3>1, <3>3, <3>4, <3>5 DEF FInv, Slotted, TakenBefore
  <2>3. Found(u)'
    <3>1. SUFFICES ASSUME step[u] = "read" PROVE Found(u)'
      BY <2>1 DEF Found
    <3>2. PICK n \in Nodes, k \in Key : n = storeOf(u) /\ k = job(u).key
      <4>1. job(u).key \in Key
        BY <1>a, <3>1 DEF Jobs, Employed
      <4> QED
        BY <2>1, <4>1
    <3>3. has(n, k) /\ slot[u] = SlotOf(n, k)
      BY <3>1, <3>2 DEF FInv, Found
    <3>4. has(n, k)' /\ SlotOf(n, k)' = SlotOf(n, k)
      BY <1>1, <3>3 DEF SameAnswers, Answering
    <3> QED
      BY <2>1, <3>2, <3>3, <3>4 DEF Found, has, SlotOf, Holding
  <2> QED
    BY <2>2, <2>3
<1>3. Slotted(t)' /\ Found(t)'
  <2>1. CASE step'[t] = "none"
    BY <2>1 DEF Slotted, Found, Writes
  <2>2. CASE step'[t] # "none"
    <3>1. /\ step[t] = "write" /\ slot'[t] = S /\ job(t)' = job(t) /\ storeOf(t)' = N
          /\ \/ step'[t] = "value" /\ WritesKey(t)
             \/ step'[t] = "key" /\ WritesValue(t)
      BY <2>2 DEF storeOf
    <3>2. PICK n \in Nodes, k \in Key, s \in Slot : n = N /\ k = K /\ s = S
      BY <1>b
    <3>3. TakenBefore(n, k, s)'
      BY <1>1, <1>c, <3>2
    <3>4. /\ step'[t] = "value" => key_arr_'[N][S] = K /\ val_arr_'[N][S] = Garbage
          /\ step'[t] = "key" => key_arr_'[N][S] = NoKey
      BY <1>1, <1>c, <3>1
    <3> QED
      BY <3>1, <3>2, <3>3, <3>4 DEF Slotted, Found, TakenBefore, Writes
  <2> QED
    BY <2>1, <2>2
<1>4. Blanks'
  <2> SUFFICES ASSUME NEW n \in Nodes, NEW s \in Slot, key_arr_'[n][s] = NoKey
               PROVE  Blank(n, s)'
    BY DEF Blanks
  <2>1. CASE n = N /\ s = S
    <3>1. ~WritesKey(t)
      BY <1>1, <1>b, <2>1
    <3>2. step[t] # "value"
      BY <1>1, <1>b, <1>c, <2>1, <3>1
    <3>3. step'[t] = "key" /\ slot'[t] = S
      BY <3>1, <3>2
    <3> QED
      BY <2>1, <3>3 DEF Blank, storeOf
  <2>2. CASE ~(n = N /\ s = S)
    <3>1. key_arr_[n][s] = NoKey /\ val_arr_'[n][s] = val_arr_[n][s]
      BY <1>1, <2>2
    <3>2. CASE val_arr_[n][s] = Garbage
      BY <3>1, <3>2 DEF Blank
    <3>3. CASE val_arr_[n][s] # Garbage
      <4>1. PICK u \in Threads : step[u] = "key" /\ storeOf(u) = n /\ slot[u] = s
        BY <3>1, <3>3 DEF FInv, Blanks, Blank
      <4>2. u # t
        BY <2>2, <4>1
      <4>3. step'[u] = "key" /\ slot'[u] = s
        BY <4>1, <4>2 DEF Alone
      <4> QED
        BY <4>1, <4>3 DEF Blank, storeOf
    <3> QED
      BY <3>2, <3>3
  <2> QED
    BY <2>1, <2>2
<1> QED
  BY <1>1, <1>2, <1>3, <1>4 DEF FInv

LEMMA MovesKeep ==
  ASSUME IInv, FInv, OneAdder, NEW t \in Threads, Alone(t), Moves(t)
  PROVE  FInv' /\ SameAnswers
<1>a. Employed(t) /\ TypeOK /\ Jobs /\ storeOf(t) \in Nodes /\ slot[t] \in Slot
  BY ThreadsAre DEF IInv, Jobs, TypeOK
<1>b. ASSUME Inside PROVE job(t)' = job(t) /\ storeOf(t)' = storeOf(t)
  BY <1>b DEF Inside, job, storeOf, nodeVars, clientVars
<1>c. ASSUME NEW label, Goto(t, label) PROVE step'[t] = label
  BY <1>c, <1>a DEF Goto, TypeOK
<1>1. CASE Plain(t)
  BY <1>1, Rest DEF Plain, Slotted, Found
<1>2. CASE FindSlot(t)
  <2> DEFINE k == job(t).key
             n == storeOf(t)
             H == Holding(n, k, NoKey)
             s == First(k, MemorySize, H)
  <2>1. /\ step[t] = "find" /\ step'[t] = "write" /\ job(t)' = job(t) /\ storeOf(t)' = n
        /\ key_arr_' = key_arr_ /\ val_arr_' = val_arr_
        /\ H # {} /\ slot'[t] = s
    BY <1>2, <1>a, <1>b, <1>c DEF FindSlot, At, arrays, TypeOK
  <2>2. k \in Key
    BY <1>a, <2>1 DEF Employed
  <2>3. /\ s \in Loop(k) /\ s \in Slot /\ key_arr_[n][s] = NoKey
        /\ \A r \in Loop(k) : key_arr_[n][r] = NoKey => Rounds(k, s) <= Rounds(k, r)
    BY <1>a, <2>1, <2>2, SearchEnds
  <2> HIDE DEF k, n, H, s
  <2>4. \A r \in Before(k, s) : key_arr_[n][r] # NoKey
    <3> SUFFICES ASSUME NEW r \in Before(k, s), key_arr_[n][r] = NoKey PROVE FALSE
      OBVIOUS
    <3>1. /\ r \in Loop(k) /\ Rounds(k, r) < Rounds(k, s)
          /\ Rounds(k, r) \in Nat /\ Rounds(k, s) \in Nat
      BY <2>2, <2>3, SlotsOfLoop DEF Before
    <3>2. Rounds(k, s) <= Rounds(k, r)
      BY <2>3, <3>1
    <3> QED
      BY <3>1, <3>2
  <2>5. val_arr_[n][s] = Garbage
    <3>1. SUFFICES ASSUME val_arr_[n][s] # Garbage PROVE FALSE
      OBVIOUS
    <3>2. PICK u \in Threads : step[u] = "key" /\ storeOf(u) = n /\ slot[u] = s
      BY <1>a, <2>3, <3>1 DEF FInv, Blanks, Blank, n
    <3> QED
      BY <1>a, <2>1, <3>2, OnlyAdder DEF AddSteps, n
  <2>6. Slotted(t)'
    BY <2>1, <2>3, <2>4, <2>5 DEF Slotted, TakenBefore, k, n
  <2>7. Found(t)'
    BY <2>1 DEF Found
  <2> QED
    BY <2>1, <2>6, <2>7, Rest
<1>3. CASE Look(t)
  <2> DEFINE k == job(t).key
             n == storeOf(t)
  <2>1. /\ step[t] = "look" /\ job(t)' = job(t) /\ storeOf(t)' = n
        /\ key_arr_' = key_arr_ /\ val_arr_' = val_arr_
        /\ \/ has(n, k) /\ slot'[t] = SlotOf(n, k) /\ step'[t] = "read"
           \/ step'[t] = "got"
    BY <1>3, <1>a, <1>b, <1>c DEF Look, At, arrays, TypeOK
  <2>2. Slotted(t)'
    BY <2>1 DEF Slotted, Writes
  <2>3. Found(t)'
    BY <2>1 DEF Found, has, SlotOf, Holding
  <2> QED
    BY <2>1, <2>2, <2>3, Rest
<1>4. CASE WriteFirst(t)
  <2>1. /\ step[t] = "write" /\ slot'[t] = slot[t] /\ job(t)' = job(t)
        /\ \/ WritesKey(t) /\ step'[t] = "value"
           \/ WritesValue(t) /\ step'[t] = "key"
    BY <1>4, <1>b, <1>c DEF WriteFirst, At
  <2> QED
    BY <2>1, WriteKeeps DEF Writes
<1>5. CASE WriteSecond(t)
  <2>1. /\ step'[t] = "none"
        /\ \/ step[t] = "value" /\ WritesValue(t)
           \/ step[t] = "key" /\ WritesKey(t)
    BY <1>5, <1>a DEF WriteSecond, At, Ends, TypeOK
  <2> QED
    BY <2>1, WriteKeeps DEF Writes
<1> QED
  BY <1>1, <1>2, <1>3, <1>4, <1>5 DEF Moves

LEMMA StoresUnchanged ==
  ASSUME FInv, UNCHANGED vars
  PROVE  FInv' /\ SameAnswers
<1>1. /\ key_arr_' = key_arr_ /\ val_arr_' = val_arr_ /\ step' = step /\ slot' = slot
      /\ cur' = cur /\ call' = call
  BY DEF vars, arrays, stepVars, nodeVars, clientVars
<1>2. \A n \in Nodes, k \in Key : /\ has(n, k)' = has(n, k) /\ SlotOf(n, k)' = SlotOf(n, k)
                                  /\ Stored(n, k)' = Stored(n, k)
  BY <1>1 DEF has, SlotOf, Holding, Stored
<1>3. SameAnswers
  BY <1>2 DEF SameAnswers, Answering
<1>4. Chained' /\ Blanks'
  BY <1>1 DEF FInv, Chained, TakenBefore, Blanks, Blank, storeOf
<1>5. ASSUME NEW t \in Threads PROVE Slotted(t)' /\ Found(t)'
  <2>1. step'[t] = step[t] /\ slot'[t] = slot[t] /\ job(t)' = job(t) /\ storeOf(t)' = storeOf(t)
    BY <1>1 DEF job, storeOf
  <2>2. Slotted(t)'
    BY <1>1, <2>1 DEF FInv, Slotted, TakenBefore
  <2>3. Found(t)'
    BY <1>1, <2>1 DEF FInv, Found, has, SlotOf, Holding
  <2> QED
    BY <2>2, <2>3
<1> QED
  BY <1>3, <1>4, <1>5 DEF FInv

LEMMA StoresStep ==
  ASSUME IInv, FInv, OneAdder, [Next]_vars
  PROVE  FInv' /\ SameAnswers
<1>1. CASE Next
  <2>1. \E t \in Threads : Alone(t) /\ Moves(t)
    BY <1>1, NodeMoves, ClientMoves, ThreadsAre DEF Next, Alive
  <2> QED
    BY <2>1, MovesKeep
<1>2. CASE UNCHANGED vars
  BY <1>2, StoresUnchanged
<1> QED
  BY <1>1, <1>2

LEMMA StoresInit == Init => FInv
  BY ThreadsAre, NodeAssumption
  DEF Init, FInv, Chained, Blanks, Blank, Slotted, Found, Writes

(* The first value that is stored for a key stays, when one thread adds to *)
(* each store.                                                             *)
THEOREM FirstValueStaysAlways == OneAdder /\ Spec => FirstValueStays
<1> DEFINE Stays == \A n \in Nodes, k \in Key :
                      Stored(n, k) \in Values => Stored(n, k)' = Stored(n, k)
<1>1. SameAnswers => Stays
  BY DEF SameAnswers, Answering
<1>2. OneAdder /\ IInv /\ FInv /\ [Next]_vars => FInv' /\ [Stays]_vars
  BY <1>1, StoresStep
<1>3. OneAdder => OneAdder'
  BY DEF OneAdder, Adders, MayAdd
<1> HIDE DEF Stays
<1>4. Init /\ [](OneAdder /\ IInv) /\ [][Next]_vars => [][Stays]_vars
  BY <1>2, StoresInit, PTL
<1>5. OneAdder /\ Spec => [](OneAdder /\ IInv) /\ Init /\ [][Next]_vars
  BY <1>3, Inductive, PTL DEF Spec
<1> QED
  BY <1>4, <1>5 DEF Stays, FirstValueStays
=============================================================================
