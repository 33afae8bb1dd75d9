---------------------------- MODULE SortedSets ------------------------------
(***************************************************************************)
(* Sets of numbers as sequences.                                           *)
(***************************************************************************)
EXTENDS Integers, FiniteSets

\* The elements of a set from the least to the largest.
Ascending(S) ==
  CHOOSE f \in [1 .. Cardinality(S) -> S] :
    \A m, n \in 1 .. Cardinality(S) : m < n => f[m] < f[n]
=============================================================================
