-------------------------------- MODULE Node --------------------------------
(***************************************************************************)
(* The nodes of src/network/node.h on the pseudo-network of                *)
(* src/network/pseudo-network.h.  Each node is a thread that serves the    *)
(* messages of its queue from its own store; application threads (clients) *)
(* call add, get and waitAndGet of the node they are on.                   *)
(*                                                                         *)
(* The thread of a node and the clients on it use one Map (src/utils/      *)
(* map.h), and nothing locks it: has, the search for a slot, the writes of *)
(* its key and of its value, and the read of a value are steps of their    *)
(* own.  SharedStore takes the loops apart further, and shows size_, which *)
(* is left out here; the array does not grow, for a ninth key ends most    *)
(* programs anyway (HashMap).                                              *)
(*                                                                         *)
(* A queue is a sequence here: MessageQueue shows that it is one until its *)
(* array of 16 has to grow, and the runs stay below that.  The map from    *)
(* thread ids to nodes has at most 8 entries.                              *)
(*                                                                         *)
(* A call from which nothing defined follows (a failed assertion, an       *)
(* exception nobody catches, a read through a bad pointer) sets fault and  *)
(* ends the behaviour.                                                     *)
(***************************************************************************)
EXTENDS Probing, Sequences, FiniteSets

CONSTANTS
  NumNodes,        \* num_nodes of the command line
  Values,
  home,            \* the node a key lives on, part of the key
  MemorySize,      \* memory_size_ of the stores; 16 in the code
  Clients,         \* the application threads
  on,              \* the node a client calls
  MayCall,         \* the operations a client uses, each with its keys
  MayKill,         \* the clients that send Kill
  MaxCalls,        \* bound: calls each client makes
  StoreAttached,   \* somebody has set the public field kv of every node
  Spurious,        \* a condition variable may wake without notification
  Null,            \* nullptr, what a store returns of an absent key
  Garbage,         \* what an unwritten slot of new Value *[16] holds
  NoKey,           \* nullptr in the array of keys
  NoReply,         \* reply_ does not point to a message: not yet, or not any more
  NoCall, NoMsg

Nodes == 0 .. NumNodes - 1

Threads == Nodes \cup Clients

Ops == {"add", "get", "waitAndGet"}

ASSUME NodeAssumption ==
  /\ NumNodes \in 1 .. 8
  /\ home \in [Key -> Nodes]
  /\ on \in [Clients -> Nodes]
  /\ Clients \cap Nodes = {}
  /\ MayCall \in [Clients -> SUBSET (Ops \X Key)]
  /\ MayKill \subseteq Clients
  /\ MaxCalls \in [Clients -> Nat]
  /\ MemorySize \in Nat \ {0, 1}
  /\ StoreAttached \in BOOLEAN /\ Spurious \in BOOLEAN
  /\ Null \notin Values /\ Garbage \notin Values \cup {Null} /\ NoKey \notin Key

MayAdd(c, k) == <<"add", k>> \in MayCall[c]

\* At most half of the slots are taken.
ASSUME NoGrowthAssumption ==
  LET putters == {c \in Clients : \E k \in Key : MayAdd(c, k)}
  IN  \A c \in putters : 2 * MaxCalls[c] * Cardinality(putters) <= MemorySize

Slot == Slots(MemorySize)

PutMsg     == [kind : {"Put"}, sender : Nodes, key : Key, val : Values]
RequestMsg == [kind : {"Get", "WaitAndGet"}, sender : Nodes, key : Key]
ReplyMsg   == [kind : {"Reply"}, sender : Nodes, val : Values \cup {Null, Garbage}]
KillMsg    == [kind : {"Kill"}, sender : Nodes]
Message    == PutMsg \cup RequestMsg \cup ReplyMsg \cup KillMsg

ASSUME NoReplyAssumption == NoReply \notin ReplyMsg
ASSUME NoMsgAssumption == NoMsg \notin PutMsg \cup RequestMsg

AddCall  == [op : {"add"}, key : Key, val : Values]
ReadCall == [op : {"get", "waitAndGet"}, key : Key]

ASSUME NoCallAssumption == NoCall \notin AddCall \cup ReadCall \cup Key

VARIABLES
  qs,         \* the message queue of each node
  key_arr_, val_arr_,   \* the store of each node
  loop,       \* where the thread of each node is in run()
  cur,        \* the Put, Get or WaitAndGet message it is serving
  reply_,     \* the message reply_ points to
  mtx_,       \* lock_.mtx_ of each node is locked
  pc,         \* where each client is in its call
  call,       \* the call it is in, unless it is one that only sends
  returned,   \* what its last get or waitAndGet returned
  calls,      \* how many calls it has begun
  step,       \* where each thread is in an operation of the store of its node
  slot,       \* the slot it has found
  val,        \* the value it has read
  asserts,    \* assert() is compiled in
  fault       \* what ended the program

arrays     == <<key_arr_, val_arr_>>
nodeVars   == <<loop, cur>>
clientVars == <<pc, call, returned, calls>>
stepVars   == <<step, slot, val>>
vars == <<qs, arrays, nodeVars, reply_, mtx_, clientVars, stepVars, asserts, fault>>

NoResult == [key |-> NoCall, val |-> Null]

Init == /\ qs = [n \in Nodes |-> <<>>]
        /\ key_arr_ = [n \in Nodes |-> [s \in Slot |-> NoKey]]
        /\ val_arr_ = [n \in Nodes |-> [s \in Slot |-> Garbage]]
        /\ loop = [n \in Nodes |-> "start"]
        /\ cur = [n \in Nodes |-> NoMsg]
        /\ reply_ = [n \in Nodes |-> NoReply]
        /\ mtx_ = [n \in Nodes |-> FALSE]
        /\ pc = [c \in Clients |-> "idle"]
        /\ call = [c \in Clients |-> NoCall]
        /\ returned = [c \in Clients |-> NoResult]
        /\ calls = [c \in Clients |-> 0]
        /\ step = [t \in Threads |-> "none"]
        /\ slot = [t \in Threads |-> 0]
        /\ val = [t \in Threads |-> Null]
        /\ asserts \in BOOLEAN
        /\ fault = "none"

Fail(what) == /\ fault' = what
              /\ UNCHANGED <<qs, arrays, nodeVars, reply_, mtx_, clientVars, stepVars>>
-----------------------------------------------------------------------------
\* The operations of a store, by thread t on the store of its node.

storeOf(t) == IF t \in Nodes THEN t ELSE on[t]

\* The message it serves, or the call it is in.
job(t) == IF t \in Nodes THEN cur[t] ELSE call[t]

Holding(n, k, x) == {s \in Reachable(k, MemorySize) : key_arr_[n][s] = x}

has(n, k) == Holding(n, k, k) # {}

\* The slot in which get finds a key.
SlotOf(n, k) == First(k, MemorySize, Holding(n, k, k))

\* What get returns of a key.
Stored(n, k) == IF has(n, k) THEN val_arr_[n][SlotOf(n, k)] ELSE Null

\* A thread that is in no operation begins one, through the pointer kv.
Enters(t, label, others) ==
  IF StoreAttached
  THEN /\ step' = [step EXCEPT ![t] = label]
       /\ UNCHANGED <<arrays, slot, val, reply_, mtx_, fault>>
       /\ others
  ELSE Fail("store")

AddLabel == IF asserts THEN "check" ELSE "find"

At(t, label) == step[t] = label

Goto(t, label) == step' = [step EXCEPT ![t] = label]

\* What an operation leaves alone as long as it has not ended.
Inside == UNCHANGED <<qs, nodeVars, reply_, mtx_, clientVars>>

\* assert(!has(key)), in Node::add and once more in Map::add: the second one
\* decides.
Check(t) ==
  /\ At(t, "check")
  /\ IF has(storeOf(t), job(t).key) THEN Fail("assert")
     ELSE Goto(t, "find") /\ Inside /\ UNCHANGED <<arrays, slot, val, fault>>

\* Mutant: add takes the slot of a key that is there already.
FindSlot_OfKey(t) ==
  /\ At(t, "find")
  /\ LET k == job(t).key
         free == Holding(storeOf(t), k, NoKey) \cup Holding(storeOf(t), k, k)
     IN  slot' = [slot EXCEPT ![t] = First(k, MemorySize, free)]
  /\ Goto(t, "write")
  /\ Inside /\ UNCHANGED <<arrays, val, fault>>

\* The loop of Map::add: the first slot without a key.  Until its key is
\* written others find it as well.
FindSlot(t) ==
  /\ At(t, "find")
  /\ LET k == job(t).key
         free == Holding(storeOf(t), k, NoKey)
     IN  free # {} /\ slot' = [slot EXCEPT ![t] = First(k, MemorySize, free)]
  /\ Goto(t, "write")
  /\ Inside /\ UNCHANGED <<arrays, val, fault>>

WritesKey(t) == /\ key_arr_' = [key_arr_ EXCEPT ![storeOf(t)][slot[t]] = job(t).key]
                /\ UNCHANGED val_arr_

WritesValue(t) == /\ val_arr_' = [val_arr_ EXCEPT ![storeOf(t)][slot[t]] = job(t).val]
                  /\ UNCHANGED key_arr_

\* The key comes first in the source; nothing keeps the compiler to that.
WriteFirst(t) == /\ At(t, "write")
                 /\ \/ WritesKey(t) /\ Goto(t, "value")
                    \/ WritesValue(t) /\ Goto(t, "key")
                 /\ Inside /\ UNCHANGED <<slot, val, fault>>

\* An operation ends; its variables are gone.
Ends(t) == /\ step' = [step EXCEPT ![t] = "none"]
           /\ slot' = [slot EXCEPT ![t] = 0]
           /\ val' = [val EXCEPT ![t] = Null]

\* With the second write Map::add is done.
WriteSecond(t) == /\ \/ At(t, "value") /\ WritesValue(t)
                     \/ At(t, "key") /\ WritesKey(t)
                  /\ Ends(t)

\* while (!has(key)) sleep(5000): a round that finds no key changes nothing.
PollStore(t) == /\ At(t, "poll")
                /\ has(storeOf(t), job(t).key)
                /\ Goto(t, "look")
                /\ Inside /\ UNCHANGED <<arrays, slot, val, fault>>

\* The loop of Map::get; it returns nullptr when the key is not there.
Look(t) ==
  /\ At(t, "look")
  /\ LET n == storeOf(t)
         k == job(t).key
     IN  \/ has(n, k) /\ slot' = [slot EXCEPT ![t] = SlotOf(n, k)] /\ Goto(t, "read")
         \/ ~has(n, k) /\ Goto(t, "got") /\ UNCHANGED slot
  /\ Inside /\ UNCHANGED <<arrays, val, fault>>

\* return val_arr_[i]: the key was there, its value may not be.
ReadValue(t) == /\ At(t, "read")
                /\ val' = [val EXCEPT ![t] = val_arr_[storeOf(t)][slot[t]]]
                /\ Goto(t, "got")
                /\ Inside /\ UNCHANGED <<arrays, slot, fault>>

StoreStep(t) == \/ Check(t)
                \/ FindSlot(t)
                \/ WriteFirst(t)
                \/ PollStore(t)
                \/ Look(t)
                \/ ReadValue(t)
-----------------------------------------------------------------------------
\* Node::run: register, then receive and serve messages for ever.

Register(n) == /\ loop[n] = "start"
               /\ loop' = [loop EXCEPT ![n] = "recv"]
               /\ UNCHANGED <<qs, arrays, cur, reply_, mtx_, clientVars, stepVars, fault>>

\* send_m: the constructors of the messages set the target, which is the home
\* of the key, or for a Reply the sender of the request.
Sent(target, m) == [qs EXCEPT ![target] = Append(@, m)]

\* recv_m pops the oldest message; m is that message, of the given kind.
\* With assertions the pop fails (MessageQueue!PopNeverReturns).
Receives(n, kinds) == /\ loop[n] = "recv"
                      /\ qs[n] # <<>>
                      /\ ~asserts
                      /\ Head(qs[n]).kind \in kinds

Popped(n) == [qs EXCEPT ![n] = Tail(@)]

RecvAborts(n) == /\ loop[n] = "recv"
                 /\ qs[n] # <<>>
                 /\ asserts
                 /\ Fail("assert")

\* Mutant: a message is taken for a reply without a look at its kind.
RecvReply_AnyKind(n) ==
  /\ Receives(n, {"Reply", "Put"})
  /\ qs' = Popped(n)
  /\ reply_' = [reply_ EXCEPT ![n] = Head(qs[n])]
  /\ loop' = [loop EXCEPT ![n] = "notify"]
  /\ UNCHANGED <<arrays, cur, mtx_, clientVars, stepVars, fault>>

\* reply_ = m, and then notify_all: a client may act in between.
RecvReply(n) ==
  /\ Receives(n, {"Reply"})
  /\ qs' = Popped(n)
  /\ reply_' = [reply_ EXCEPT ![n] = Head(qs[n])]
  /\ loop' = [loop EXCEPT ![n] = "notify"]
  /\ UNCHANGED <<arrays, cur, mtx_, clientVars, stepVars, fault>>

\* Mutant: the loop sets reply_ and notifies nobody.
NotifyAll_Missing(n) ==
  /\ loop[n] = "notify"
  /\ loop' = [loop EXCEPT ![n] = "recv"]
  /\ UNCHANGED <<qs, arrays, cur, reply_, mtx_, clientVars, stepVars, fault>>

NotifyAll(n) ==
  /\ loop[n] = "notify"
  /\ loop' = [loop EXCEPT ![n] = "recv"]
  /\ pc' = [c \in Clients |-> IF on[c] = n /\ pc[c] = "waiting"
                              THEN "woken" ELSE pc[c]]
  /\ UNCHANGED <<qs, arrays, cur, reply_, mtx_, call, returned, calls, stepVars, fault>>

\* The loop takes up a message for which it needs its store.
Serves(n, label) ==
  Enters(n, label, /\ qs' = Popped(n)
                   /\ cur' = [cur EXCEPT ![n] = Head(qs[n])]
                   /\ loop' = [loop EXCEPT ![n] = "serve"]
                   /\ UNCHANGED clientVars)

RecvGet(n) == Receives(n, {"Get"}) /\ Serves(n, "look")

\* Mutant: a WaitAndGet is answered at once.
RecvWaitAndGet_NoWait(n) == Receives(n, {"WaitAndGet"}) /\ Serves(n, "look")

\* waitAndGet in the thread of the node: it receives nothing until the key is
\* there.
RecvWaitAndGet(n) == Receives(n, {"WaitAndGet"}) /\ Serves(n, "poll")

\* Mutant: the value of a Put is not stored.
RecvPut_Dropped(n) ==
  /\ Receives(n, {"Put"})
  /\ qs' = Popped(n)
  /\ UNCHANGED <<arrays, loop, cur, reply_, mtx_, clientVars, stepVars, fault>>

\* add(), whose key is at home here.
RecvPut(n) == Receives(n, {"Put"}) /\ Serves(n, AddLabel)

Served(n) == /\ loop' = [loop EXCEPT ![n] = "recv"]
             /\ cur' = [cur EXCEPT ![n] = NoMsg]
             /\ UNCHANGED <<reply_, mtx_, clientVars, fault>>

PutServed(n) == WriteSecond(n) /\ Served(n) /\ UNCHANGED qs

\* Mutant: every reply goes to node 0.
ReplyTo_NodeZero(n) == Sent(0, [kind |-> "Reply", sender |-> n, val |-> val[n]])

ReplyTo(n) == Sent(cur[n].sender, [kind |-> "Reply", sender |-> n, val |-> val[n]])

SendReply(n) == /\ At(n, "got")
                /\ qs' = ReplyTo(n)
                /\ Ends(n) /\ Served(n)
                /\ UNCHANGED arrays

\* join() of a thread by itself throws, and nobody catches.
RecvKill(n) == Receives(n, {"Kill"}) /\ Fail("join")

NodeStep(n) == \/ Register(n)
               \/ RecvAborts(n)
               \/ RecvReply(n)
               \/ NotifyAll(n)
               \/ RecvGet(n)
               \/ RecvWaitAndGet(n)
               \/ RecvPut(n)
               \/ StoreStep(n)
               \/ PutServed(n)
               \/ SendReply(n)
               \/ RecvKill(n)
-----------------------------------------------------------------------------
\* The calls of clients.

Ready(c) == pc[c] = "idle" /\ calls[c] < MaxCalls[c]

Counted(c) == calls' = [calls EXCEPT ![c] = @ + 1]

\* c begins the call x, which it goes on with at a label.
Calls(c, x, label) == /\ Counted(c)
                      /\ pc' = [pc EXCEPT ![c] = label]
                      /\ call' = [call EXCEPT ![c] = x]
                      /\ UNCHANGED returned

\* A call whose key is at home at the node of its client uses the store there.
Here(c, x, label) ==
  /\ Ready(c)
  /\ <<x.op, x.key>> \in MayCall[c]
  /\ home[x.key] = on[c]
  /\ Enters(c, label, Calls(c, x, "store") /\ UNCHANGED <<qs, nodeVars>>)

\* Mutant: add stores at the node of the caller, whatever the home of the key.
AddHere_Anywhere(c, k, v) ==
  /\ Ready(c)
  /\ MayAdd(c, k)
  /\ Enters(c, AddLabel, /\ Calls(c, [op |-> "add", key |-> k, val |-> v], "store")
                         /\ UNCHANGED <<qs, nodeVars>>)

AddHere(c, k, v) == Here(c, [op |-> "add", key |-> k, val |-> v], AddLabel)

GetHere(c, k) == Here(c, [op |-> "get", key |-> k], "look")

WaitAndGetHere(c, k) == Here(c, [op |-> "waitAndGet", key |-> k], "poll")

\* Elsewhere a message is sent.
There(c, op, k) == /\ Ready(c)
                   /\ <<op, k>> \in MayCall[c]
                   /\ home[k] # on[c]
                   /\ UNCHANGED <<arrays, nodeVars, reply_, mtx_, stepVars, fault>>

AddThere(c, k, v) ==
  /\ There(c, "add", k)
  /\ qs' = Sent(home[k], [kind |-> "Put", sender |-> on[c], key |-> k, val |-> v])
  /\ Counted(c)
  /\ UNCHANGED <<pc, call, returned>>

\* The sender of the message is the literal 0, not the node of the caller.
GetThere(c, k) ==
  /\ There(c, "get", k)
  /\ qs' = Sent(home[k], [kind |-> "Get", sender |-> 0, key |-> k])
  /\ Calls(c, [op |-> "get", key |-> k], "sent")

WaitAndGetThere(c, k) ==
  /\ There(c, "waitAndGet", k)
  /\ qs' = Sent(home[k], [kind |-> "WaitAndGet", sender |-> on[c], key |-> k])
  /\ Calls(c, [op |-> "waitAndGet", key |-> k], "sent")

SendKill(c, n) ==
  /\ Ready(c)
  /\ c \in MayKill
  /\ Counted(c)
  /\ qs' = Sent(n, [kind |-> "Kill", sender |-> on[c]])
  /\ UNCHANGED <<arrays, nodeVars, reply_, mtx_, pc, call, returned, stepVars, fault>>

Leaves(c) == /\ pc' = [pc EXCEPT ![c] = "idle"]
             /\ call' = [call EXCEPT ![c] = NoCall]
             /\ UNCHANGED <<qs, nodeVars, mtx_, calls, fault>>

AddReturns(c) == WriteSecond(c) /\ Leaves(c) /\ UNCHANGED <<reply_, returned>>

Returns(c, v) == returned' = [returned EXCEPT ![c] = [key |-> call[c].key, val |-> v]]

ReturnHere(c) == /\ At(c, "got")
                 /\ Returns(c, val[c])
                 /\ Ends(c) /\ Leaves(c)
                 /\ UNCHANGED <<arrays, reply_>>

\* lock_.wait() is called without holding mtx_ and without testing whether the
\* reply is already there.  cv_.wait unlocks the mutex and sleeps.
Wait(c) == /\ pc[c] = "sent"
           /\ pc' = [pc EXCEPT ![c] = "waiting"]
           /\ mtx_' = [mtx_ EXCEPT ![on[c]] = FALSE]
           /\ UNCHANGED <<qs, arrays, nodeVars, reply_, call, returned, calls, stepVars, fault>>

SpuriousWakeup(c) ==
  /\ Spurious
  /\ pc[c] = "waiting"
  /\ pc' = [pc EXCEPT ![c] = "woken"]
  /\ UNCHANGED <<qs, arrays, nodeVars, reply_, mtx_, call, returned, calls, stepVars, fault>>

\* The wait ends with the mutex locked, and nobody unlocks it but the next wait.
Relock(c) ==
  /\ pc[c] = "woken"
  /\ ~mtx_[on[c]]
  /\ mtx_' = [mtx_ EXCEPT ![on[c]] = TRUE]
  /\ pc' = [pc EXCEPT ![c] = "read"]
  /\ UNCHANGED <<qs, arrays, nodeVars, reply_, call, returned, calls, stepVars, fault>>

\* The value of the message reply_ points to, which is then deleted.
Read(c) ==
  /\ pc[c] = "read"
  /\ IF reply_[on[c]] = NoReply THEN Fail("reply")
     ELSE /\ Returns(c, reply_[on[c]].val)
          /\ reply_' = [reply_ EXCEPT ![on[c]] = NoReply]
          /\ Leaves(c)
          /\ UNCHANGED <<arrays, stepVars>>

\* A client begins a call; it need not.
Begin(c) == \E k \in Key : \/ \E v \in Values : AddHere(c, k, v) \/ AddThere(c, k, v)
                           \/ GetHere(c, k)
                           \/ GetThere(c, k)
                           \/ WaitAndGetHere(c, k)
                           \/ WaitAndGetThere(c, k)

Kills(c) == \E n \in Nodes : SendKill(c, n)

\* A client goes on with the call it is in.
Proceed(c) == \/ StoreStep(c)
              \/ AddReturns(c)
              \/ ReturnHere(c)
              \/ Wait(c)
              \/ Relock(c)
              \/ Read(c)
-----------------------------------------------------------------------------
Running == fault = "none"

\* A step of a program that goes on; its build stays what it is.
Alive(action) == Running /\ action /\ UNCHANGED asserts

Next == \/ \E n \in Nodes : Alive(NodeStep(n))
        \/ \E c \in Clients : \/ Alive(Begin(c))
                              \/ Alive(Kills(c))
                              \/ Alive(Proceed(c))
                              \/ Alive(SpuriousWakeup(c))

Spec == Init /\ [][Next]_vars

\* The scheduler runs every thread: a node serves its queue, and a client goes
\* on with its call.  Nobody has to begin one.
Fairness == /\ \A n \in Nodes : WF_vars(Alive(NodeStep(n)))
            /\ \A c \in Clients : WF_vars(Alive(Proceed(c)))

FairSpec == Spec /\ Fairness
-----------------------------------------------------------------------------
AddSteps   == {"check", "find", "write", "value", "key"}
ReadSteps  == {"poll", "look", "read", "got"}
SentLabels == {"sent", "waiting", "woken", "read"}

(* The values of the variables.                                            *)
TypeOK ==
  /\ qs \in [Nodes -> Seq(Message)]
  /\ key_arr_ \in [Nodes -> [Slot -> Key \cup {NoKey}]]
  /\ val_arr_ \in [Nodes -> [Slot -> Values \cup {Garbage}]]
  /\ loop \in [Nodes -> {"start", "recv", "notify", "serve"}]
  /\ cur \in [Nodes -> PutMsg \cup RequestMsg \cup {NoMsg}]
  /\ reply_ \in [Nodes -> ReplyMsg \cup {NoReply}]
  /\ mtx_ \in [Nodes -> BOOLEAN]
  /\ pc \in [Clients -> {"idle", "store"} \cup SentLabels]
  /\ call \in [Clients -> AddCall \cup ReadCall \cup {NoCall}]
  /\ returned \in [Clients -> [key : Key \cup {NoCall},
                               val : Values \cup {Null, Garbage}]]
  /\ calls \in [Clients -> Nat]
  /\ step \in [Threads -> {"none"} \cup AddSteps \cup ReadSteps]
  /\ slot \in [Threads -> Slot]
  /\ val \in [Threads -> Values \cup {Null, Garbage}]
  /\ asserts \in BOOLEAN
  /\ fault \in {"none", "assert", "store", "reply", "join"}

(* A value is stored only at the home of its key, whichever node it was    *)
(* put at: no message is served by a node it was not meant for.            *)
StoredAtHome == \A n \in Nodes, k \in Key : has(n, k) => home[k] = n

\* The threads that may add to the store of a node: clients on it, and the
\* thread of the node itself if clients elsewhere may put keys there.
Adders(n) ==
  {c \in Clients : on[c] = n /\ \E k \in Key : home[k] = n /\ MayAdd(c, k)}
    \cup {m \in {n} : \E c \in Clients, k \in Key :
                        on[c] # n /\ home[k] = n /\ MayAdd(c, k)}

OneAdder == \A n \in Nodes : \A t, u \in Adders(n) : t = u

(* The first value stored for a key stays, whatever is put later and       *)
(* wherever: get and waitAndGet of one key never see it change.  It holds  *)
(* when one thread adds to each store; of two that do, one may take the    *)
(* slot of the other.                                                      *)
FirstValueStays ==
  [][\A n \in Nodes, k \in Key :
       Stored(n, k) \in Values => Stored(n, k)' = Stored(n, k)]_vars

(* A value that get or waitAndGet returns is the one stored for the key    *)
(* that was asked for; otherwise they return nullptr, or what a slot held  *)
(* before its value was written.  It holds when each node has one client,  *)
(* only clients on node 0 send Get, and one thread adds to each store.     *)
AnswerIsStored ==
  \A c \in Clients : returned[c].val \in Values
    => returned[c].val = Stored(home[returned[c].key], returned[c].key)

(* A get or waitAndGet that was woken returns.  It fails when two clients  *)
(* of a node are woken at once.                                            *)
WokenReturns ==
  \A c \in Clients : pc[c] = "woken" ~> pc[c] = "idle" \/ fault # "none"

\* The thread of a node polls for a key that nobody has stored.
Blocked(n) == loop[n] = "serve" /\ At(n, "poll") /\ ~has(n, cur[n].key)

(* The reply to a client is on its way, or a request the node that serves  *)
(* it can answer.  A client is known by its node: each node has one.       *)
UnderWay(c) ==
  \/ loop[on[c]] = "notify"
  \/ \E i \in 1 .. Len(qs[on[c]]) : qs[on[c]][i].kind = "Reply"
  \/ \E n \in Nodes :
       \/ /\ loop[n] = "serve" /\ step[n] \in ReadSteps
          /\ cur[n].sender = on[c] /\ ~Blocked(n)
       \/ \E i \in 1 .. Len(qs[n]) : /\ qs[n][i].kind = "Get"
                                     /\ qs[n][i].sender = on[c]

(* A client that sleeps before its reply is served is woken and returns,   *)
(* unless some node is kept from serving its queue by a waitAndGet, or an  *)
(* assertion ends the program.                                             *)
WaitingReturns ==
  \A c \in Clients :
    (pc[c] = "waiting" /\ UnderWay(c))
      ~> (\/ pc[c] = "idle"
          \/ \E n \in Nodes : Blocked(n)
          \/ fault = "assert")

(* A value that was put is stored in the end, unless the node it is for    *)
(* polls for a key that nobody stores, or an assertion ends the program.   *)
PutIsStored ==
  \A n \in Nodes, k \in Key :
    (\E i \in 1 .. Len(qs[n]) : qs[n][i].kind = "Put" /\ qs[n][i].key = k)
      ~> (Stored(n, k) \in Values \/ Blocked(n) \/ fault = "assert")
=============================================================================
