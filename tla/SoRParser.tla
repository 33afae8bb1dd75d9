----------------------------- MODULE SoRParser ------------------------------
(***************************************************************************)
(* SoRParser (src/adapter/SoRParser.cpp): reads the columns of a file      *)
(* through a window of CacheSize rows.                                     *)
(*                                                                         *)
(* Positions in the file are such that line n (from 0) is at 2n and its    *)
(* newline at 2n + 1.  What follows the last newline is a line too, which  *)
(* may be empty: getline meets the end of the file in it.                  *)
(***************************************************************************)
EXTENDS SoRFields

CONSTANTS File,            \* the files: [lines, newline], newline for the last
          CacheSize,       \* CACHE_SIZE, 512 in the code
          SchemaLines,     \* SCHEMA_DEF_LINES, 500 in the code
          Position,        \* bound: the starts and sizes of ranges
          MaxRow,          \* bound: the rows that are asked for
          RangeAnytime     \* the range may be set after the window has moved,
                           \* and be widened

ASSUME SoRParserAssumption ==
  /\ File \subseteq [lines : Seq(Seq(Symbol)), newline : BOOLEAN]
  /\ \A f \in File : f.newline => f.lines # <<>>
  /\ CacheSize \in Nat \ {0} /\ SchemaLines \in 1 .. CacheSize
  /\ MaxRow \in Nat /\ Position \subseteq Nat /\ RangeAnytime \in BOOLEAN

VARIABLES
  file,
  data,                    \* the stream: its position, eofbit and failbit
  dataStart, dataSize, dataEnd,
  numCols, colTypes,
  cache,                   \* the columns of the window
  cacheOffset,             \* the row at its start
  seenCaches,              \* the positions at which windows start
  state,                   \* "new", "open", or how the program ended
  answer                   \* the last call of getColIdx, and what it returned

range  == <<dataStart, dataSize, dataEnd>>
schema == <<numCols, colTypes>>
window == <<data, cache, cacheOffset, seenCaches>>
vars   == <<file, range, schema, window, state, answer>>

NoAnswer == [col |-> 0, row |-> 0, is |-> "none", cell |-> None]

Init == /\ file = [lines |-> <<>>, newline |-> FALSE]
        /\ data = [pos |-> 0, eof |-> FALSE, fail |-> FALSE]
        /\ dataStart = 0 /\ dataSize = 0 /\ dataEnd = 0
        /\ numCols = 0 /\ colTypes = <<>>
        /\ cache = <<>> /\ cacheOffset = 0 /\ seenCaches = <<>>
        /\ state = "new"
        /\ answer = NoAnswer
-----------------------------------------------------------------------------
AtMost(a, b) == IF a < b THEN a ELSE b

\* Of a file: its lines that end in a newline, its size, and its line n.
Terminated(f) == IF f.newline \/ f.lines = <<>> THEN Len(f.lines)
                 ELSE Len(f.lines) - 1
filesize(f)   == Len(f.lines) + Terminated(f)
Line(f, n)    == IF n < Len(f.lines) THEN f.lines[n + 1] ELSE <<>>

Cell(fields, c) == IF c <= Len(fields) THEN fields[c] ELSE None

\* seekg, on a stream that was cleared: -1 is no position.
Seek(d, p) == [pos |-> IF p = -1 THEN d.pos ELSE p, eof |-> FALSE,
               fail |-> p = -1]

\* tellg
Tell(d) == IF d.eof \/ d.fail THEN -1 ELSE d.pos

Limited(f, start, size) == start + size < filesize(f)

\* Mutant: the line without a newline is taken as well.
LastLine_WithTail(f, limited, end) ==
  IF limited THEN AtMost(Terminated(f), (end - 1) \div 2) ELSE Len(f.lines)

\* Line n is within the range if its newline is, and another character.
LastLine(f, limited, end) ==
  IF limited THEN AtMost(Terminated(f), (end - 1) \div 2) ELSE Terminated(f)

\* addRow, for the lines n, n + 1 ... of a file.
WithRows(c, cols, f, n, count) ==
  [k \in 1 .. cols |->
     c[k] \o [r \in 1 .. count |-> Cell(parseFields(Line(f, n + r - 1)), k)]]

\* Mutant: the rows are counted from where the reading starts.
Room_Whole(c) == CacheSize

Room(c) == CacheSize - Len(c[1])

\* fillCache: the loop ends with the window full, or with a line that was read
\* and is not within the range, or at the end of the file.  From a stream that
\* has failed come empty lines, and never the end.
Fill(d, c, f, last) ==
  LET room  == Room(c)
      n     == d.pos \div 2
      count == CASE d.eof  -> 0
                 [] d.fail -> room
                 [] OTHER  -> IF n < last THEN AtMost(room, last - n) ELSE 0
  IN  [cache |-> IF d.fail THEN [k \in 1 .. numCols |->
                                   c[k] \o [r \in 1 .. room |-> None]]
                 ELSE WithRows(c, Len(c), f, n, count),
       data  |-> CASE d.eof \/ d.fail \/ room = 0 -> d
                   [] OTHER -> LET k == IF count = room THEN n + count
                                        ELSE n + count + 1
                               IN  [pos  |-> AtMost(2 * k, filesize(f)),
                                    eof  |-> k > Terminated(f),
                                    fail |-> FALSE]]

clearCache(c) == [k \in DOMAIN c |-> <<>>]
-----------------------------------------------------------------------------
\* readInitial and setSchema: the first lines, the one without a newline
\* included.  The columns are as many as the longest of them has fields.
Sample(f) == [n \in 1 .. AtMost(SchemaLines, Terminated(f) + 1) |->
                parseFields(Line(f, n - 1))]

Width(sample) == Max({Len(sample[n]) : n \in DOMAIN sample})

\* Mutant: a line without a field for a column adds nothing to it, and
\* balanceCache fills up the end.
SampleColumns_AtEnd(sample) ==
  [k \in 1 .. Width(sample) |->
     LET has == SelectSeq(sample, LAMBDA fields : Len(fields) >= k)
     IN  [n \in DOMAIN sample |-> IF n <= Len(has) THEN has[n][k] ELSE None]]

SampleColumns(sample) ==
  [k \in 1 .. Width(sample) |->
     [n \in DOMAIN sample |-> Cell(sample[n], k)]]

\* initialize.  balanceCache takes the first column of a cache that has none
\* when the first line has no fields.
Initialize(f) ==
  /\ state = "new"
  /\ file' = f
  /\ dataSize' = filesize(f)
  /\ seenCaches' = <<0>>
  /\ LET sample == Sample(f)
         cols   == SampleColumns(sample)
         types  == [k \in DOMAIN cols |-> findColType(cols[k])]
         ended  == Len(sample) > Terminated(f)
         full   == Fill([pos  |-> AtMost(2 * Len(sample), filesize(f)),
                         eof  |-> ended, fail |-> FALSE],
                        cols, f, Terminated(f))
     IN  IF sample[1] = <<>>
         THEN /\ state' = "crashed"
              /\ UNCHANGED <<data, schema, cache>>
         ELSE IF Throws \in {types[k] : k \in DOMAIN cols}
         THEN /\ state' = "thrown"
              /\ UNCHANGED <<data, schema, cache>>
         ELSE /\ state' = "open"
              /\ numCols' = Len(cols)
              /\ colTypes' = types
              /\ cache' = full.cache
              /\ data' = full.data
  /\ UNCHANGED <<dataStart, dataEnd, cacheOffset, answer>>

\* setDataStart: the line of the position is skipped, also from its beginning.
\* cacheOffset stays, and setDataSize still sees the old dataStart.
SetDataStart(start) ==
  /\ state = "open"
  /\ RangeAnytime \/ (cacheOffset = 0 /\ dataSize = filesize(file))
  /\ start < filesize(file)
  /\ LET n      == IF start = 0 THEN 0 ELSE start \div 2 + 1
         beyond == n > Terminated(file)
         at     == [pos  |-> AtMost(2 * n, filesize(file)),
                    eof  |-> beyond, fail |-> FALSE]
         lim    == Limited(file, dataStart, dataSize)
         end    == dataStart + dataSize
         first  == IF lim THEN Fill(Seek(at, Tell(at)), clearCache(cache), file,
                                    LastLine(file, TRUE, end))
                   ELSE [cache |-> clearCache(cache), data |-> at]
         second == Fill(first.data, first.cache, file,
                        LastLine(file, Limited(file, start, dataSize),
                             IF lim THEN end ELSE dataEnd))
     IN  /\ seenCaches' = <<Tell(at)>>
         /\ dataEnd' = IF lim THEN end ELSE dataEnd
         /\ cache' = second.cache
         /\ data' = second.data
  /\ dataStart' = start
  /\ answer' = NoAnswer
  /\ UNCHANGED <<file, dataSize, schema, cacheOffset, state>>

\* setDataSize: a size that reaches the end of the file is only remembered.
SetDataSize(size) ==
  /\ state = "open"
  /\ RangeAnytime \/ /\ cacheOffset = 0
                     /\ Limited(file, dataStart, size) \/ dataSize = filesize(file)
  /\ dataSize' = size
  /\ IF Limited(file, dataStart, size)
     THEN LET full == Fill(Seek(data, seenCaches[1]), clearCache(cache), file,
                           LastLine(file, TRUE, dataStart + size))
          IN  /\ dataEnd' = dataStart + size
              /\ cache' = full.cache
              /\ data' = full.data
     ELSE UNCHANGED <<dataEnd, cache, data>>
  /\ answer' = NoAnswer
  /\ UNCHANGED <<file, dataStart, schema, cacheOffset, seenCaches, state>>
-----------------------------------------------------------------------------
lastRow == LastLine(file, Limited(file, dataStart, dataSize), dataEnd)

\* Mutant: only the next window is looked for.
Met_Next(num) ==
  LET from == seenCaches[Len(seenCaches)] \div 2
  IN  IF \/ num < Len(seenCaches) \/ seenCaches[Len(seenCaches)] = -1
         \/ lastRow < from + CacheSize
      THEN seenCaches ELSE Append(seenCaches, 2 * (from + CacheSize))

\* The windows that loadCache has met when it looks for window num.
Met(num) ==
  LET from == seenCaches[Len(seenCaches)] \div 2
      more == IF seenCaches[Len(seenCaches)] = -1 \/ lastRow < from THEN 0
              ELSE (lastRow - from) \div CacheSize
      new  == AtMost(more, num + 1 - Len(seenCaches))
  IN  IF num < Len(seenCaches) THEN seenCaches
      ELSE seenCaches \o [w \in 1 .. new |-> 2 * (from + w * CacheSize)]

\* Mutant: cacheOffset is the row asked for, rounded down.
loadCache_AsAsked(num) ==
  LET seen == Met(num)
      here == AtMost(num, Len(seen) - 1)
      full == Fill(Seek(data, seen[here + 1]), clearCache(cache), file, lastRow)
  IN  [seen |-> seen, offset |-> num * CacheSize,
       cache |-> full.cache, data |-> full.data]

\* loadCache: the window num, or the last there is.
loadCache(num) ==
  LET seen == Met(num)
      here == AtMost(num, Len(seen) - 1)
      full == Fill(Seek(data, seen[here + 1]), clearCache(cache), file, lastRow)
  IN  [seen |-> seen, offset |-> here * CacheSize,
       cache |-> full.cache, data |-> full.data]

\* seekRow
seekRow(row) ==
  IF (row \div CacheSize) * CacheSize # cacheOffset
  THEN loadCache(row \div CacheSize)
  ELSE [seen |-> seenCaches, offset |-> cacheOffset, cache |-> cache,
        data |-> data]

\* getColIdx.  isMissingIdx asks whether the cell it returns has a value.
GetColIdx(col, row) ==
  /\ state = "open"
  /\ LET w == seekRow(row)
     IN  IF col > numCols
         THEN /\ answer' = [col |-> col, row |-> row, is |-> "no column",
                            cell |-> None]
              /\ UNCHANGED window
         ELSE /\ answer' =
                   IF row >= w.offset + Len(w.cache[1])
                   THEN [col |-> col, row |-> row, is |-> "no row",
                         cell |-> None]
                   ELSE [col |-> col, row |-> row, is |-> "cell",
                         cell |-> w.cache[col][(row % CacheSize) + 1]]
              /\ seenCaches' = w.seen
              /\ cacheOffset' = w.offset
              /\ cache' = w.cache
              /\ data' = w.data
  /\ UNCHANGED <<file, range, schema, state>>

Next == \/ \E f \in File : Initialize(f)
        \/ \E p \in Position \cap (0 .. filesize(file)) :
             SetDataStart(p) \/ SetDataSize(p)
        \/ \E row \in 0 .. MaxRow : \E col \in 1 .. numCols + 1 :
             GetColIdx(col, row)

Spec == Init /\ [][Next]_vars
-----------------------------------------------------------------------------
(* The values of the variables; the columns of the window are equally long *)
(* and no longer than it.                                                  *)
TypeOK ==
  /\ file \in File \/ state = "new"
  /\ data.pos \in 0 .. filesize(file)
  /\ numCols \in Nat /\ Len(cache) = numCols /\ Len(colTypes) = numCols
  /\ \A k \in 1 .. numCols : /\ Len(cache[k]) = Len(cache[1])
                             /\ Len(cache[k]) <= CacheSize
                             /\ colTypes[k] \in BOOL .. TEXT
  /\ cacheOffset \in Nat
  /\ state \in {"new", "open", "crashed", "thrown"}

\* The line of the file that is row 0: none is, if the range starts behind the
\* last newline.
FirstLine == IF seenCaches[1] = -1 THEN Len(file.lines)
             ELSE seenCaches[1] \div 2

(* The cells of a line are what was written into it: a tag without content *)
(* is no value, spaces around a cell do not belong to it, spaces and ">"   *)
(* in quotes do (parseFields, on the lines of one and two cells).          *)
FieldsAsWritten ==
  state = "open" /\ answer = NoAnswer =>
    \A n \in DOMAIN file.lines : \A w \in WrittenLines :
      w.line = file.lines[n] => parseFields(w.line) = w.fields

(* Whatever rows were asked for before, and wherever the window has moved  *)
(* for them, a cell is that of its column in its line of the file          *)
(* (getColIdx, loadCache, fillCache).                                      *)
CellOfLine ==
  answer.is = "cell" =>
    answer.cell = Cell(parseFields(Line(file, FirstLine + answer.row)),
                       answer.col)

(* A row whose line ends in a newline is always found, also after rows     *)
(* beyond the end of the file were asked for.                              *)
RowFound ==
  answer.is = "no row" => FirstLine + answer.row >= lastRow
=============================================================================
