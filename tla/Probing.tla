------------------------------ MODULE Probing -------------------------------
(***************************************************************************)
(* Where the loops of Map<T, U> (src/utils/map.h) look for a key.  They    *)
(* run from the slot of its hash to the end of the array and then start    *)
(* over: they set the index to 0 and increment it before the next test, so *)
(* slot 0 is met only by keys whose hash leads to it.  The loop of such a  *)
(* key does not start over.                                                *)
(***************************************************************************)
EXTENDS Integers

CONSTANTS Key,
          hash             \* the hash of a key: of its name and home, or its text

ASSUME ProbingAssumption == hash \in [Key -> Nat]

Slots(m) == 0 .. m - 1

\* In a table of m slots.
index(k, m) == hash[k] % m

Reachable(k, m) == IF index(k, m) = 0 THEN Slots(m) ELSE Slots(m) \ {0}

\* The rounds from the slot of the hash to slot s.
Distance(k, m, s) == IF s >= index(k, m) THEN s - index(k, m)
                     ELSE s - index(k, m) + m

\* The first of some slots that the loop for k meets.
First(k, m, slots) ==
  CHOOSE s \in slots : \A t \in slots : Distance(k, m, s) <= Distance(k, m, t)
=============================================================================
