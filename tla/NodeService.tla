---------------------------- MODULE NodeService -----------------------------
(***************************************************************************)
(* The nodes implement the key-value service when each node has one        *)
(* client, only clients on node 0 send Get, and one thread adds to each    *)
(* store.  A user of the service is a node, by which requests and replies  *)
(* know their client.                                                      *)
(***************************************************************************)
EXTENDS Node, Functions

CONSTANT Unanswered     \* the answer of a call before the home serves it

ASSUME ServiceAssumption ==
  /\ Unanswered \notin Values \cup {Null, Garbage}
  /\ NoCall \notin [op  : {"get", "waitAndGet"}, key : Key,
                   val : Values \cup {Null, Garbage, Unanswered}]

User == {on[c] : c \in Clients}

ClientOf(u) == CHOOSE c \in Clients : on[c] = u

StoreOfAll == [k \in Key |-> IF Stored(home[k], k) \in Values
                             THEN Stored(home[k], k) ELSE Null]

\* The puts on their way to a node, and those that threads are adding.
Puts(n) == {m \in Range(qs[n]) \cup {cur[n]} : m # NoMsg /\ m.kind = "Put"}

PutsHere == {c \in Clients : call[c] # NoCall /\ call[c].op = "add"}

Pending == {[user |-> m.sender, key |-> m.key, val |-> m.val] :
              m \in UNION {Puts(n) : n \in Nodes}}
            \cup {[user |-> on[c], key |-> call[c].key, val |-> call[c].val] :
                    c \in PutsHere}

\* The answers to the client of a node: the one it has read from its own store,
\* those that other nodes have read for it, the replies in the queue of its
\* node, and the one that reply_ points to.
Answers(c) ==
  {val[c] : x \in {c} \cap {t \in Clients : At(t, "got")}}
    \cup {val[n] : n \in {m \in Nodes : At(m, "got") /\ cur[m].sender = on[c]}}
    \cup {m.val : m \in {r \in Range(qs[on[c]]) \cup {reply_[on[c]]} :
                           r # NoReply /\ r.kind = "Reply"}}

ServiceCall(c) ==
  IF call[c] = NoCall \/ c \in PutsHere THEN NoCall
  ELSE [op  |-> call[c].op,
        key |-> call[c].key,
        val |-> IF Answers(c) = {} THEN Unanswered
                ELSE CHOOSE v \in Answers(c) : TRUE]

CallOf == [u \in User |-> ServiceCall(ClientOf(u))]

ReturnedTo == [u \in User |-> returned[ClientOf(u)]]

(* The stores of all nodes are one store, the Put messages and the adds    *)
(* that have begun its pending puts, and a call is answered in the step in *)
(* which the home of its key reads its value: from then on the answer is   *)
(* with the thread that has read it, in the queue of the client's node, or *)
(* where reply_ points to.                                                 *)
Service == INSTANCE KVService
  WITH Value    <- Values,
       Torn     <- Garbage,
       store    <- StoreOfAll,
       pending  <- Pending,
       call     <- CallOf,
       returned <- ReturnedTo

ServiceSpec == Service!Spec
=============================================================================
