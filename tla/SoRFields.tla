----------------------------- MODULE SoRFields ------------------------------
(***************************************************************************)
(* What SoRParser (src/adapter/SoRParser.cpp) makes of one line of a       *)
(* schema-on-read file, and of the cells of one column.                    *)
(*                                                                         *)
(* A line is a sequence of symbols: the characters "<" and ">", a quote, a *)
(* space, and words.  A word stands for a run of other characters, none of *)
(* which the parser tells apart.                                           *)
(***************************************************************************)
EXTENDS Integers, SequencesExt

CONSTANTS Word,
          Bits,            \* the words "0" and "1"
          stoi, stof,      \* what std::stoi and std::stof do with a word
          None,            \* std::nullopt, a cell without a value
          SomeCell         \* the cells of which FieldsAsWritten speaks

\* A conversion takes all of a word, the front of it, or throws one of two
\* exceptions: invalid_argument and out_of_range.
Conversion == {"whole", "front", "invalid", "range"}

Blank  == "space"
Symbol == Word \cup {"<", ">", "quote", Blank}

\* stof accepts what stoi does.  There is no way to write a quote in a cell.
ASSUME SoRFieldsAssumption ==
  /\ Bits \subseteq Word /\ Word \cap {"<", ">", "quote", Blank} = {}
  /\ stoi \in [Word -> Conversion] /\ stof \in [Word -> Conversion]
  /\ \A w \in Bits : stoi[w] = "whole"
  /\ \A w \in Word : stof[w] = "invalid" => stoi[w] = "invalid"
  /\ None \notin Word
  /\ \A c \in SomeCell \ {None} : c \in Seq(Symbol \ {"quote"}) \ {<<>>}
-----------------------------------------------------------------------------
Outside == [fields |-> <<>>, field |-> <<>>, inField |-> FALSE,
            inQuotes |-> FALSE, fieldComplete |-> FALSE, fieldEmpty |-> TRUE,
            invalid |-> FALSE]

EndOfTag(s) ==
  [s EXCEPT !.inField = FALSE, !.fieldComplete = FALSE, !.fieldEmpty = TRUE,
            !.field = <<>>,
            !.fields = Append(@, IF s.fieldEmpty /\ s.field = <<>> THEN None
                                 ELSE s.field)]

\* The end of the quotes is the end of the field.
Quote(s) ==
  CASE s.inField /\ ~s.inQuotes ->
         [s EXCEPT !.inQuotes = TRUE, !.fieldEmpty = FALSE]
    [] s.inQuotes /\ ~s.fieldComplete ->
         [s EXCEPT !.inQuotes = FALSE, !.fieldComplete = TRUE]
    [] s.inQuotes /\ s.fieldComplete -> [s EXCEPT !.invalid = TRUE]
    [] OTHER -> s

\* Mutant: a space is part of the field, with quotes or without.
Other_KeepSpaces(s, c) ==
  CASE s.inField /\ ~s.fieldComplete -> [s EXCEPT !.field = Append(@, c)]
    [] s.inField /\ s.fieldComplete /\ c # Blank -> [s EXCEPT !.invalid = TRUE]
    [] OTHER -> s

Other(s, c) ==
  CASE s.inField /\ ~s.fieldComplete /\ c = Blank /\ ~s.inQuotes ->
         [s EXCEPT !.fieldComplete = s.field # <<>>]
    [] s.inField /\ ~s.fieldComplete /\ (c # Blank \/ s.inQuotes) ->
         [s EXCEPT !.field = Append(@, c)]
    [] s.inField /\ s.fieldComplete /\ c # Blank -> [s EXCEPT !.invalid = TRUE]
    [] OTHER -> s

\* One round of the loop of parseFields, which returns at what is invalid.
Scan(s, c) ==
  CASE s.invalid -> s
    [] ~s.invalid /\ c = "<" /\ ~s.inField -> [s EXCEPT !.inField = TRUE]
    [] ~s.invalid /\ c = ">" /\ s.inField /\ ~s.inQuotes -> EndOfTag(s)
    [] ~s.invalid /\ c = "quote" -> Quote(s)
    [] OTHER -> Other(s, c)

\* An invalid line, and one without tags, has no fields.
parseFields(line) ==
  LET s == FoldLeft(Scan, Outside, line)
  IN  IF s.invalid THEN <<>> ELSE s.fields
-----------------------------------------------------------------------------
\* SoRType, in the order of the enumeration.
BOOL   == 0
INT    == 1
FLOAT  == 2
TEXT == 3
Throws == 4     \* no type: the exception leaves findColType

\* The conversions skip white space in front, which quotes can keep there.
Trimmed(cell) ==
  LET words == {i \in DOMAIN cell : cell[i] # Blank}
  IN  IF words = {} THEN <<>> ELSE SubSeq(cell, Min(words), Len(cell))

\* What a conversion does with a cell.
Convert(conv, cell) ==
  LET t == Trimmed(cell)
  IN  IF t = <<>> \/ t[1] \notin Word THEN "invalid"
      ELSE IF Len(t) > 1 /\ conv[t[1]] = "whole" THEN "front" ELSE conv[t[1]]

\* By what stof does, where it follows from stoi that the cell is no integer.
FloatOrString(cell, outOfRange) ==
  CASE Convert(stof, cell) = "whole"              -> FLOAT
    [] Convert(stof, cell) \in {"front", "invalid"} -> TEXT
    [] Convert(stof, cell) = "range"              -> outOfRange

\* The handler of out_of_range belongs to the outer try: what stof throws in
\* the handler of invalid_argument is not caught.
cellType(cell) ==
  CASE Convert(stoi, cell) = "whole" ->
         IF Len(cell) = 1 /\ cell[1] \in Bits THEN BOOL ELSE INT
    [] Convert(stoi, cell) = "front"   -> FloatOrString(cell, FLOAT)
    [] Convert(stoi, cell) = "invalid" -> FloatOrString(cell, Throws)
    [] Convert(stoi, cell) = "range"   -> FLOAT

\* Mutant: the type of the last cell that has one.
findColType_Last(col) ==
  LET cells == {i \in DOMAIN col : col[i] # None}
  IN  IF cells = {} THEN BOOL ELSE cellType(col[Max(cells)])

\* The first cell that is a string, or throws, ends the loop.
findColType(col) ==
  LET cells == {i \in DOMAIN col : col[i] # None}
      ends  == {i \in cells : cellType(col[i]) >= TEXT}
  IN  IF ends # {} THEN cellType(col[Min(ends)])
      ELSE Max({BOOL} \cup {cellType(col[i]) : i \in cells})
-----------------------------------------------------------------------------
\* Whether the text of a cell converts to the type of its column.
Converts(type, cell) ==
  CASE cell = None \/ type = TEXT -> TRUE
    [] cell # None /\ type \in {BOOL, INT} ->
         Convert(stoi, cell) \in {"whole", "front"}
    [] cell # None /\ type = FLOAT -> Convert(stof, cell) \in {"whole", "front"}

\* What getColIdxStr returns for a cell that does: nothing, the number that
\* the conversion reads in a word, or the text in quotes.
AsString(type, cell) ==
  CASE cell = None -> [kind |-> "empty", of |-> <<>>]
    [] cell # None /\ type = TEXT -> [kind |-> "quoted", of |-> cell]
    [] cell # None /\ type # TEXT ->
         [kind |-> "number", of |-> <<Trimmed(cell)[1]>>]
-----------------------------------------------------------------------------
\* What may be written between the "<" and ">" of a cell.  Quotes are needed
\* for a space and for a ">", and there is no writing a quote.
Plain(cell) == Blank \notin Range(cell) /\ ">" \notin Range(cell)

Written(cell) ==
  IF cell = None THEN {<<>>, <<Blank>>}
  ELSE {<<"quote">> \o cell \o <<"quote">>} \cup
       IF Plain(cell) THEN {cell, <<Blank>> \o cell \o <<Blank>>} ELSE {}

\* The lines of one cell and of two, with a space between them or without.
OneCell(c) == {<<"<">> \o t \o <<">">> : t \in Written(c)}

LinesOfOne(c) == {[line |-> l, fields |-> <<c>>] : l \in OneCell(c)}

LinesOfTwo(c, d) ==
  {[line |-> l \o gap \o m, fields |-> <<c, d>>] :
     l \in OneCell(c), m \in OneCell(d), gap \in {<<>>, <<Blank>>}}

WrittenLines ==
  (UNION {LinesOfOne(c) : c \in SomeCell})
    \cup (UNION {LinesOfTwo(c, d) : c \in SomeCell, d \in SomeCell})
=============================================================================
