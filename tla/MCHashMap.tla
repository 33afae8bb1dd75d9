----------------------------- MODULE MCHashMap ------------------------------
(***************************************************************************)
(* Small instances of the hash map: keys whose hashes lead to the same     *)
(* slot, to slot 0, and to the last slots of arrays of 4, 8 and 16.        *)
(***************************************************************************)
EXTENDS HashMap, TLC

CONSTANTS a, b, c, d, e

MCHash == a :> 0 @@ b :> 1 @@ c :> 1 @@ d :> 8 @@ e :> 7
=============================================================================
