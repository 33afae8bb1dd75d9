----------------------------- MODULE KVService ------------------------------
(***************************************************************************)
(* What the key-value layer promises the applications that use it: one     *)
(* shared store in which a key, once it has a value, keeps it.             *)
(*                                                                         *)
(*   - put returns at once and is applied later; the first value put for a *)
(*     key is the one that stays;                                          *)
(*   - get answers with what the store holds at one moment between its     *)
(*     call and its return, Null if the key has no value then, and not     *)
(*     before the caller's own puts of that key have been applied;         *)
(*   - waitAndGet answers once the key has a value;                        *)
(*   - but while the first put of a key is pending both may answer with    *)
(*     Torn, a value that nobody put.                                      *)
(*                                                                         *)
(* A user makes one call at a time.                                        *)
(***************************************************************************)
CONSTANTS User, Key, Value,
          Null,          \* no value: what get returns of an absent key
          Torn,          \* what a call returns that met a put halfway
          Unanswered,    \* the answer of a call that has none yet
          NoCall

VARIABLES store,      \* the value of each key
          pending,    \* the puts not yet applied
          call,       \* the get or waitAndGet each user is in
          returned    \* what each user's last get or waitAndGet returned

vars == <<store, pending, call, returned>>

NoResult == [key |-> NoCall, val |-> Null]

Init == /\ store = [k \in Key |-> Null]
        /\ pending = {}
        /\ call = [u \in User |-> NoCall]
        /\ returned = [u \in User |-> NoResult]

Put(u, k, v) ==
  /\ call[u] = NoCall
  /\ pending' = pending \cup {[user |-> u, key |-> k, val |-> v]}
  /\ UNCHANGED <<store, call, returned>>

\* Equal puts of one user are one element of pending: it stays until the last
\* of them is applied.
Apply(p) ==
  /\ store' = [store EXCEPT ![p.key] = IF @ = Null THEN p.val ELSE @]
  /\ pending' \in {pending, pending \ {p}}
  /\ UNCHANGED <<call, returned>>

Ask(u, op, k) ==
  /\ call[u] = NoCall
  /\ call' = [call EXCEPT ![u] = [op |-> op, key |-> k, val |-> Unanswered]]
  /\ UNCHANGED <<store, pending, returned>>

Answer(u) ==
  /\ call[u] # NoCall
  /\ call[u].val = Unanswered
  /\ \A p \in pending : p.user = u => p.key # call[u].key
  /\ \/ /\ call[u].op = "waitAndGet" => store[call[u].key] # Null
        /\ call' = [call EXCEPT ![u].val = store[call[u].key]]
     \/ /\ store[call[u].key] = Null
        /\ \E p \in pending : p.key = call[u].key
        /\ call' = [call EXCEPT ![u].val = Torn]
  /\ UNCHANGED <<store, pending, returned>>

Return(u) ==
  /\ call[u] # NoCall
  /\ call[u].val # Unanswered
  /\ returned' = [returned EXCEPT ![u] = [key |-> call[u].key, val |-> call[u].val]]
  /\ call' = [call EXCEPT ![u] = NoCall]
  /\ UNCHANGED <<store, pending>>

Next == \/ \E u \in User, k \in Key :
             \/ \E v \in Value : Put(u, k, v)
             \/ \E op \in {"get", "waitAndGet"} : Ask(u, op, k)
        \/ \E p \in pending : Apply(p)
        \/ \E u \in User : Answer(u) \/ Return(u)

Spec == Init /\ [][Next]_vars
=============================================================================
