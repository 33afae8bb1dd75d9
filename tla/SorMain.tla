------------------------------ MODULE SorMain -------------------------------
(***************************************************************************)
(* main of src/adapter/sor-main.cpp: from the command line through the     *)
(* parser to a data frame, taken as the sequence of its rows (DataFrame    *)
(* implements that, see Table).  The parser is also used by "any" client,  *)
(* and the options by eau2.                                                *)
(***************************************************************************)
EXTENDS SoRParser, Options

CONSTANT Names             \* the names of files that can be opened

VARIABLES main,            \* where main is, or how it ended
          i, j,            \* the loop variables: row and column
          row,             \* the fields of r
          df               \* the rows of the frame

mainVars == <<main, i, j, row, df>>
allVars  == <<vars, options, mainVars>>

MainInit == /\ Init /\ InitOptions
            /\ user = "any" => argv = <<>>
            /\ main = "options"
            /\ i = 0 /\ j = 0 /\ row = <<>> /\ df = <<>>

AnyClient == user = "any" /\ Next /\ UNCHANGED <<options, mainVars>>

Option == NextOption /\ UNCHANGED <<vars, mainVars>>

\* A name that cannot be opened ends the program with a message.
Open == /\ user = "sor-main" /\ main = "options" /\ parsing = "parsed"
        /\ IF filename \in Names
           THEN /\ \E f \in File : Initialize(f)
                /\ main' = IF state' = "open" THEN "schema" ELSE state'
           ELSE main' = "exit" /\ UNCHANGED vars
        /\ UNCHANGED <<options, i, j, row, df>>

\* The types are written into an array without an end: what lies behind it is
\* read as types too.  Letters of types make a wide frame, of which df has the
\* columns of the file, and at any other letter the frame ends the program.
MakeSchema == /\ main = "schema"
              /\ \/ /\ main' \in {"fill", "wide"}
                    /\ row' = [c \in 1 .. numCols |-> AsString(BOOL, None)]
                 \/ main' = "exit" /\ row' = row
              /\ UNCHANGED <<vars, options, i, j, df>>

\* The newlines and one.
numRows == Terminated(file) + 1

\* An empty text is no number, and stoi and stof throw.
Readable(col, cell) == /\ Converts(colTypes[col], cell)
                       /\ colTypes[col] # TEXT => cell # None

\* The body of the loops, with add_row after the last column.  In a wide frame
\* it copies fields that nobody has set, and a string among them may crash it.
ReadCell ==
  /\ main \in {"fill", "wide"}
  /\ GetColIdx(j + 1, i)
  /\ IF answer'.is = "cell" /\ Readable(j + 1, answer'.cell)
     THEN /\ row' = [row EXCEPT ![j + 1] =
                       AsString(colTypes[j + 1], answer'.cell)]
          /\ IF j + 1 < numCols
             THEN j' = j + 1 /\ UNCHANGED <<i, df, main>>
             ELSE \/ /\ main = "wide" /\ main' = "crashed"
                     /\ UNCHANGED <<i, j, df>>
                  \/ /\ df' = Append(df, row')
                     /\ i' = i + 1
                     /\ j' = 0
                     /\ main' = IF i + 1 = numRows THEN "done" ELSE main
     ELSE main' = "thrown" /\ UNCHANGED <<i, j, row, df>>
  /\ UNCHANGED options

MainNext == AnyClient \/ Option \/ Open \/ MakeSchema \/ ReadCell

MainSpec == MainInit /\ [][MainNext]_allVars
-----------------------------------------------------------------------------
Content(n, c) == Cell(parseFields(Line(file, n)), c)

(* The rows of the frame are the lines of the file, in order, each cell    *)
(* the value of its text in the type of its column, through all windows.   *)
FrameIsFile ==
  \A n \in DOMAIN df : \A c \in 1 .. numCols :
    df[n][c] = AsString(colTypes[c], Content(n - 1, c))

\* A number that no float can hold.
OutOfRange(cell) == cell # None /\ Convert(stof, cell) = "range"

(* The types found in the sample fit it: a file no longer than the sample  *)
(* is read to its end, unless a column of numbers lacks a cell or has a    *)
(* number out of range (findColType against the conversions of             *)
(* getColIdxStr and main).                                                 *)
SampleIsRead ==
  main = "thrown" =>
    \/ numRows > SchemaLines
    \/ \E n \in 0 .. numRows - 1, c \in 1 .. Width(Sample(file)) :
         \/ OutOfRange(Content(n, c))
         \/ /\ Content(n, c) = None
            /\ c <= numCols /\ colTypes[c] # TEXT

(* Only such a file is read to its end: fillCache drops the last line of a *)
(* longer one, which main counts.                                          *)
OnlySampleIsRead ==
  main = "done" => numRows <= SchemaLines /\ Len(df) = numRows
=============================================================================
