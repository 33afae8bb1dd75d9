---------------------------- MODULE EncodedFrame ----------------------------
(***************************************************************************)
(* Value (src/kv-store/value.h) of a data frame: the frame as one buffer.  *)
(*                                                                         *)
(* A string is a sequence of characters.  The buffer is a sequence of      *)
(* units: a character, or the four bytes of a number.                      *)
(***************************************************************************)
EXTENDS DataFrame

CONSTANT Tab               \* sep

ASSUME EncodedFrameAssumption == Tab \in Char

\* One column: the strings are ended by a separator, the numbers by their size.
EncodeColumn(c) ==
  LET cells == Elements(c.arr_)
  IN  IF c.type # "S" THEN cells
      ELSE FlattenSeq([k \in DOMAIN cells |-> Append(cells[k], Tab)])

\* encode(DataFrame *); the program crashes at a null string.
HasNull(d) == \E c \in 1 .. d.ncols_ : Null \in Range(Elements(Col(d, c - 1).arr_))

Encode(d) ==
  <<d.ncols_, d.nrows_>> \o d.schema_
    \o FlattenSeq([c \in 1 .. d.ncols_ |-> EncodeColumn(Col(d, c - 1))])

\* Mutant: the head stays at the separator.
ReadString_AtTab(s, current) ==
  LET end == Min({k \in current .. Len(s) : s[k] = Tab})
  IN  [cell |-> SubSeq(s, current, end - 1), current |-> end]

\* The string at current, and the position behind its separator.
ReadString(s, current) ==
  LET end == Min({k \in current .. Len(s) : s[k] = Tab})
  IN  [cell |-> SubSeq(s, current, end - 1), current |-> end + 1]

\* The column of type t at current, and the position behind it.
DecodeColumn(s, current, t, size) ==
  LET Read(h, k) ==
        IF t # "S" THEN [cells |-> Append(h.cells, s[h.current]),
                         current |-> h.current + 1]
        ELSE LET r == ReadString(s, h.current)
             IN  [cells |-> Append(h.cells, r.cell), current |-> r.current]
  IN  FoldLeft(Read, [cells |-> <<>>, current |-> current],
               [k \in 1 .. size |-> k])

\* decode_df
Decode(s) ==
  LET col == s[1]
      Grown(h, k) ==
        LET c == DecodeColumn(s, h.current, s[2 + k], s[2])
        IN  [df      |-> add_column(h.df, Column(s[2 + k], c.cells)),
             current |-> c.current]
  IN  FoldLeft(Grown, [df |-> Frame(<<>>), current |-> 3 + col],
               [k \in 1 .. col |-> k]).df

\* What can be encoded: no separator in a string, and a column for the rows.
Encodable(d) ==
  /\ \A c \in 1 .. d.ncols_ :
       d.schema_[c] = "S" =>
         \A k \in 1 .. d.nrows_ : Tab \notin Range(CellAt(d, c, k))
  /\ d.nrows_ > 0 => d.ncols_ > 0

(* A frame that is encoded and decoded is itself if and only if no string  *)
(* in it contains the separator and no rows are without columns (encode,   *)
(* decode_df).                                                             *)
RoundTrip == ~HasNull(df) => (Decode(Encode(df)) = df <=> Encodable(df))
=============================================================================
