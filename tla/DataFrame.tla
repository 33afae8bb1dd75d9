----------------------------- MODULE DataFrame ------------------------------
(***************************************************************************)
(* DataFrame, Row, Schema and Column (src/dataframe/): a table held as a   *)
(* FastArray of columns, each a FastArray of cells of one type, filled     *)
(* through rows that are made for a schema.                                *)
(*                                                                         *)
(* A schema is the sequence of its types.  The fields of a row are the     *)
(* entries of the array of their column's own type: the others are never   *)
(* read.                                                                   *)
(***************************************************************************)
EXTENDS FastArray

CONSTANTS Char,            \* the characters of strings
          Value,           \* the values of each type that clients use
          Null,            \* a null pointer, a value of "S" if it is in it
          Schemas,         \* bound: the schemas of frames
          MaxCells         \* bound: the cells of the frame

Type == {"B", "I", "F", "S"}

ASSUME DataFrameAssumption == DOMAIN Value = Type /\ MaxCells \in Nat
                              /\ Value["S"] \subseteq Seq(Char) \cup {Null}
                              /\ Schemas \subseteq Seq(STRING)

VARIABLES df,
          row,             \* the client's row: its schema and its fields
          program          \* "going", "aborted", "crashed" or "exit"

frameVars == <<df, row, program>>

Column(t, cells) == [type |-> t, arr_ |-> ArrayOf(cells)]

\* The clone holds the pointers of a column of strings, not the strings.
clone(c) == [c EXCEPT !.arr_ = copy(@)]

\* The constructors from a schema, which is empty for DataFrame(*new Schema()).
Frame(types) ==
  [schema_ |-> types, nrows_ |-> 0, ncols_ |-> Len(types),
   col_arr_ |-> ArrayOf([k \in DOMAIN types |-> Column(types[k], <<>>)])]

Row(types) == [schema_ |-> types, fields |-> [k \in DOMAIN types |-> Garbage]]

FrameInit == /\ df = Frame(<<>>)
             /\ row = Row(<<>>)
             /\ program = "going"

Col(d, k) == get(d.col_arr_, k)

CellAt(d, c, r) == get(Col(d, c - 1).arr_, r - 1)

\* The rows of a frame, from its columns, as map and local_map visit them.
RowsOf(d) == [r \in 1 .. d.nrows_ |->
                [c \in 1 .. d.ncols_ |-> CellAt(d, c, r)]]
-----------------------------------------------------------------------------
add_column(d, c) ==
  [schema_  |-> Append(d.schema_, c.type),
   nrows_   |-> IF d.ncols_ = 0 THEN c.arr_.size_ ELSE d.nrows_,
   ncols_   |-> d.ncols_ + 1,
   col_arr_ |-> push_back(d.col_arr_, clone(c))]

\* The column that k points to, changed in place.
WithColumn(d, k, arr) ==
  [d EXCEPT !.col_arr_ = set(@, k, [get(@, k) EXCEPT !.arr_ = arr])]

\* Mutant: an empty row is not counted, as no column grows with it.
add_row_Filled(d, fields) ==
  LET push(e, k) == WithColumn(e, k - 1, push_back(Col(e, k - 1).arr_, fields[k]))
      filled     == FoldLeft(push, d, [k \in DOMAIN fields |-> k])
  IN  [filled EXCEPT !.nrows_ = IF @ = 0 THEN @ ELSE @ + 1]

add_row(d, fields) ==
  LET push(e, k) == WithColumn(e, k - 1, push_back(Col(e, k - 1).arr_, fields[k]))
      filled     == FoldLeft(push, d, [k \in DOMAIN fields |-> k])
  IN  [filled EXCEPT !.nrows_ = @ + 1]
-----------------------------------------------------------------------------
\* The other letters, and a frame with the schema of df but no rows.
NewFrame(types) ==
  /\ IF \A k \in DOMAIN types : types[k] \in Type
     THEN df' = Frame(types) /\ UNCHANGED program
     ELSE program' = "exit" /\ UNCHANGED df
  /\ UNCHANGED row

NewRow == row' = Row(df.schema_) /\ UNCHANGED <<df, program>>

AddColumn(c) ==
  /\ IF df.ncols_ > 0 /\ c.arr_.size_ # df.nrows_
     THEN program' = "aborted" /\ UNCHANGED df
     ELSE df' = add_column(df, c) /\ UNCHANGED program
  /\ UNCHANGED row

\* Row::set of a value of the column's type; a string is cloned.
SetField(k, v) ==
  /\ IF v = Null THEN program' = "crashed" /\ UNCHANGED row
     ELSE row' = [row EXCEPT !.fields[k] = v] /\ UNCHANGED program
  /\ UNCHANGED df

SameSchema == row.schema_ = df.schema_

\* A number that was not set is added as it is; the clone of a string that was
\* not set goes through a wild pointer.
AddRow ==
  /\ CASE ~SameSchema -> program' = "aborted" /\ UNCHANGED df
       [] SameSchema /\ \E k \in DOMAIN row.fields :
            row.schema_[k] = "S" /\ row.fields[k] = Garbage ->
            program' = "crashed" /\ UNCHANGED df
       [] OTHER -> df' = add_row(df, row.fields) /\ UNCHANGED program
  /\ UNCHANGED row

\* set of a value of type t.
SetCell(t, k, idx, v) ==
  /\ IF k >= Len(df.schema_) \/ idx >= df.nrows_ \/ df.schema_[k + 1] # t
     THEN program' = "aborted" /\ UNCHANGED df
     ELSE /\ df' = WithColumn(df, k, set(Col(df, k).arr_, idx, v))
          /\ UNCHANGED program
  /\ UNCHANGED row

\* fill_row, whose index only the columns check; map and local_map call it with
\* a row of their own and with every index below nrows_.
FillRow(idx) ==
  /\ CASE ~SameSchema -> program' = "aborted" /\ UNCHANGED row
       [] SameSchema /\ df.ncols_ > 0 /\ Access(Col(df, 0).arr_, idx) # "ok" ->
            program' = Access(Col(df, 0).arr_, idx) /\ UNCHANGED row
       [] SameSchema /\ (df.ncols_ = 0 \/ idx < df.nrows_) ->
            LET cells == [c \in 1 .. df.ncols_ |-> CellAt(df, c, idx + 1)]
            IN  IF Null \in Range(cells)
                THEN program' = "crashed" /\ UNCHANGED row
                ELSE row' = [row EXCEPT !.fields = cells] /\ UNCHANGED program
  /\ UNCHANGED df

FrameNext ==
  /\ program = "going"
  /\ \/ \E types \in Schemas : NewFrame(types)
     \/ NewRow
     \/ \E t \in Type : \E n \in 0 .. MaxCells \div (df.ncols_ + 1) :
          \E cells \in [1 .. n -> Value[t]] :
            /\ Append(df.schema_, t) \in Schemas
            /\ AddColumn(Column(t, cells))
     \/ \E k \in DOMAIN row.fields :
          \E v \in Value[row.schema_[k]] : SetField(k, v)
     \/ (df.nrows_ + 1) * df.ncols_ <= MaxCells /\ df.nrows_ < MaxCells /\ AddRow
     \/ \E t \in Type, k \in 0 .. df.ncols_, idx \in 0 .. df.nrows_ :
          \E v \in Value[t] : SetCell(t, k, idx, v)
     \/ \E idx \in 0 .. df.nrows_ : FillRow(idx)
-----------------------------------------------------------------------------
(* The columns of a frame are as many as its schema says, of its types, in *)
(* order, and equally long: as long as the frame has rows (add_column,     *)
(* add_row).  A row has a field for each type of the schema it was made    *)
(* for.                                                                    *)
Rectangular ==
  /\ df.ncols_ = Len(df.schema_) /\ df.ncols_ = df.col_arr_.size_
  /\ \A k \in 1 .. df.ncols_ : /\ Col(df, k - 1).type = df.schema_[k]
                               /\ Col(df, k - 1).arr_.size_ = df.nrows_
  /\ DOMAIN row.fields = DOMAIN row.schema_
  /\ program \in {"going", "aborted", "crashed", "exit"}

\* The cells of the columns: a number may be any, if its field was not set.
FrameCell == [t \in Type |-> IF t = "S" THEN Seq(Char) \cup {Null}
                             ELSE Value[t] \cup {Garbage}]

T == INSTANCE Table WITH types <- df.schema_, rows <- RowsOf(df), Cell <- FrameCell

(* A frame is a table: whatever is added or set, every other cell stays as *)
(* it was put, through the growth of the arrays in chunks and of the       *)
(* chunks' table (FastArray, add_column, add_row, set).                    *)
TableSpec == T!Spec
=============================================================================
