----------------------------- MODULE Dictionary -----------------------------
(***************************************************************************)
(* What a map promises its users: each key has at most one value, the one  *)
(* it was added or last set with.                                          *)
(***************************************************************************)
CONSTANTS Key, Value,
          Null        \* no value

VARIABLE dict         \* the value of each key

Init == dict = [k \in Key |-> Null]

\* A key that is there already keeps its value.
Add(k, v) == dict[k] = Null /\ dict' = [dict EXCEPT ![k] = v]

Set(k, v) == dict[k] # Null /\ dict' = [dict EXCEPT ![k] = v]

Next == \E k \in Key, v \in Value : Add(k, v) \/ Set(k, v)

Spec == Init /\ [][Next]_dict

\* A map from which keys are removed as well.
Erase(k) == dict' = [dict EXCEPT ![k] = Null]

ErasingSpec == Init /\ [][Next \/ \E k \in Key : Erase(k)]_dict
=============================================================================
