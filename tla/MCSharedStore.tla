--------------------------- MODULE MCSharedStore ----------------------------
(***************************************************************************)
(* Small instances of the shared store: keys whose hashes lead to slot 0,  *)
(* to slot 1, and to the last slot of an array of 4 or 8, from where the   *)
(* loops start over; the thread of the node and an application.            *)
(***************************************************************************)
EXTENDS SharedStore, TLC

CONSTANTS a, b, c, d, e, node, app

HashOf == a :> 0 @@ b :> 1 @@ c :> 1 @@ d :> 7 @@ e :> 7

MCHash == [k \in Key |-> HashOf[k]]

\* As the word count uses it: the application fills the store of its node,
\* and the node answers the others from it.
OneAdds  == node :> {"get", "waitAndGet"} @@ app :> {"add", "get"}
TwoEach  == node :> 2 @@ app :> 2
=============================================================================
