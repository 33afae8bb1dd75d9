------------------------------ MODULE MCSummer ------------------------------
(***************************************************************************)
(* Small instances of the map: 2 buckets of 2, doubled once or twice.      *)
(***************************************************************************)
EXTENDS Summer

MCHashes == [Key -> 0 .. 3]
=============================================================================
