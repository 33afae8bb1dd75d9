------------------------------- MODULE Summer -------------------------------
(***************************************************************************)
(* Summer (src/app/wordcounter.h): writes the entries of a map, one row    *)
(* for each, under the loop of fromVisitor (see FromVisitor).              *)
(***************************************************************************)
EXTENDS JVMap

VARIABLES i, j, seen,
          rows,            \* the rows that visit has filled
          summer           \* "none", "visiting" or "done"

summerVars == <<i, j, seen, rows, summer>>

SummerInit == /\ MapInit
              /\ i = 0 /\ j = 0 /\ seen = 0
              /\ rows = <<>>
              /\ summer = "none"

UseMap == summer = "none" /\ MapNext /\ UNCHANGED summerVars

\* k(), at a position.
EntryAt(b, n) ==
  IF b = capacity_ \/ n = Len(items_[b].keys_) THEN Null
  ELSE items_[b].keys_[n + 1]

\* Mutant: only one empty bucket is passed over.
next_OneBucket(b, n) ==
  IF b = capacity_ THEN [i |-> b, j |-> n, seen |-> seen]
  ELSE IF n + 1 < Len(items_[b].keys_)
  THEN [i |-> b, j |-> n + 1, seen |-> seen + 1]
  ELSE LET empty == b + 1 < capacity_ /\ items_[b + 1].keys_ = <<>>
       IN  [i |-> IF empty THEN b + 2 ELSE b + 1, j |-> 0, seen |-> seen + 1]

\* next, from a position: empty buckets are passed over, and a call counts as
\* an entry seen whatever it leaves.
next(b, n) ==
  IF b = capacity_ THEN [i |-> b, j |-> n, seen |-> seen]
  ELSE IF n + 1 < Len(items_[b].keys_)
  THEN [i |-> b, j |-> n + 1, seen |-> seen + 1]
  ELSE LET filled == {c \in b + 1 .. capacity_ - 1 : items_[c].keys_ # <<>>}
       IN  [i |-> Min(filled \cup {capacity_}), j |-> 0, seen |-> seen + 1]

Advance == LET to == next(i, j) IN i' = to.i /\ j' = to.j /\ seen' = to.seen

MakeSummer ==
  /\ summer = "none" /\ program = "going"
  /\ summer' = "visiting"
  /\ CASE EntryAt(0, 0) # Null -> UNCHANGED <<i, j, seen, program>>
       [] EntryAt(0, 0) = Null /\ size_ = 0 ->
            program' = "aborted" /\ UNCHANGED <<i, j, seen>>
       [] OTHER -> Advance /\ UNCHANGED program
  /\ UNCHANGED <<hash, capacity_, size_, items_, rows>>

\* A round of the loop: done, or visit and add_row.
SumNext ==
  /\ summer = "visiting" /\ program = "going"
  /\ CASE seen = size_ ->
            summer' = "done" /\ UNCHANGED <<i, j, seen, rows, program>>
       [] seen # size_ /\ EntryAt(i, j) \in NoKey ->
            program' = "crashed" /\ UNCHANGED <<i, j, seen, rows, summer>>
       [] OTHER -> /\ rows' = Append(rows, <<EntryAt(i, j),
                                             items_[i].vals_[j + 1]>>)
                   /\ Advance
                   /\ UNCHANGED <<summer, program>>
  /\ UNCHANGED <<hash, capacity_, size_, items_>>

SummerNext == UseMap \/ MakeSummer \/ SumNext

SummerSpec == SummerInit /\ [][SummerNext]_<<mapVars, summerVars>>
-----------------------------------------------------------------------------
\* The entries of the map, in the order of buckets.
Entries ==
  FlattenSeq([b \in 1 .. capacity_ |->
    LET item == items_[b - 1]
    IN  [n \in DOMAIN item.keys_ |-> <<item.keys_[n], item.vals_[n]>>]])

(* The rows are the entries of the map, each once with its value, but for  *)
(* the last one if the first bucket has none: then the constructor's next  *)
(* has counted an entry that nobody saw.  No visit is beyond the last      *)
(* (k, next, visit, done; of a map from which no key was erased).          *)
RowsAreEntries ==
  summer # "none" /\ ~HasNoKey =>
    /\ program # "crashed"
    /\ summer = "done" =>
         rows = IF items_[0].keys_ = <<>> THEN Front(Entries) ELSE Entries
=============================================================================
