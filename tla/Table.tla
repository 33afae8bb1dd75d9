------------------------------- MODULE Table --------------------------------
(***************************************************************************)
(* What a data frame promises: a table of typed columns and of rows, in    *)
(* which a row, a column and a cell stay as they were put.                 *)
(***************************************************************************)
EXTENDS Integers, SequencesExt

CONSTANTS Cell             \* the cells that a column of each type can hold

VARIABLES types, rows

Init == types = <<>> /\ rows = <<>>

\* The program may make another frame, with or without columns.
New == types' \in Seq(DOMAIN Cell) /\ rows' = <<>>

AddColumn ==
  \E t \in DOMAIN Cell :
    /\ types' = Append(types, t)
    /\ types # <<>> => Len(rows') = Len(rows)
    /\ \A k \in DOMAIN rows' :
         /\ Len(rows'[k]) = Len(types')
         /\ Front(rows'[k]) = IF types = <<>> THEN <<>> ELSE rows[k]
         /\ Last(rows'[k]) \in Cell[t]

AddRow == /\ UNCHANGED types
          /\ rows' # <<>> /\ Front(rows') = rows
          /\ DOMAIN Last(rows') = DOMAIN types
          /\ \A c \in DOMAIN types : Last(rows')[c] \in Cell[types[c]]

SetCell == /\ UNCHANGED types
           /\ DOMAIN rows' = DOMAIN rows
           /\ \E k \in DOMAIN rows, c \in DOMAIN types :
                /\ rows'[k][c] \in Cell[types[c]]
                /\ rows' = [rows EXCEPT ![k][c] = rows'[k][c]]

Next == New \/ AddColumn \/ AddRow \/ SetCell

Spec == Init /\ [][Next]_<<types, rows>>
=============================================================================
