---------------------------- MODULE FromVisitor -----------------------------
(***************************************************************************)
(* DataFrame::fromArray, fromScalar and fromVisitor (src/kv-store/         *)
(* kv-store.h): a frame that is made, encoded and put into a store.  The   *)
(* store (see SharedStore) is a function, and the writer of fromVisitor is *)
(* a FileReader.                                                           *)
(***************************************************************************)
EXTENDS EncodedFrame, FileReader

CONSTANTS Key,
          NoValue          \* what the store holds for a key without a value

\* The separator of encoded strings is white space, as isspace knows it: in a
\* text it is a Blank.
ASSUME FromVisitorAssumption ==
  /\ Text \subseteq Seq(Char)
  /\ \A t \in Text : \A k \in DOMAIN t : t[k] = Tab => Tab = Blank
  /\ Stale \cup {Nul} \subseteq Char
  /\ Unmapped \notin Char

VARIABLES user,            \* "client" of DataFrame or "visitor"
          loop,            \* fromVisitor: "before", "first", "next" or "after"
          kv               \* the store

callVars == <<user, loop, kv>>
allVars  == <<frameVars, readerVars, callVars>>

VisitorInit == /\ FrameInit /\ InitReader
               /\ user \in {"client", "visitor"}
               /\ user = "client" => file_.text = <<>> /\ buf_[0] = Blank
               /\ loop = "before"
               /\ kv = [k \in Key |-> NoValue]

Client == user = "client" /\ FrameNext /\ UNCHANGED <<readerVars, callVars>>

\* fromArray of a new frame, and fromScalar, of one value.  A store takes one
\* value for a key.
FromArray(key, vals) ==
  /\ user = "client" /\ program = "going"
  /\ df = Frame(<<>>)
  /\ IF kv[key] # NoValue
     THEN program' = "aborted" /\ UNCHANGED <<df, kv>>
     ELSE /\ df' = add_column(df, Column("F", vals))
          /\ kv' = [kv EXCEPT ![key] = Encode(df')]
          /\ UNCHANGED program
  /\ UNCHANGED <<row, readerVars, user, loop>>

\* The frame and its row, when the reader has been constructed.
Begin == /\ user = "visitor" /\ loop = "before"
         /\ df' = Frame(<<"S">>)
         /\ row' = Row(<<"S">>)
         /\ OpenReader
         /\ loop' = "first"
         /\ UNCHANGED <<program, user, kv>>

Read == user = "visitor" /\ (Skip \/ Scan) /\ UNCHANGED <<frameVars, callVars>>

\* Between the calls of the reader: add_row after each but the first, done,
\* and then the next word, or the end.
Loop(key) ==
  /\ user = "visitor" /\ reader = "ready" /\ loop \in {"first", "next"}
  /\ row' = IF loop = "next" THEN [row EXCEPT !.fields = <<word>>] ELSE row
  /\ df' = IF loop = "next" THEN add_row(df, <<word>>) ELSE df
  /\ IF done
     THEN /\ loop' = "after"
          /\ kv' = [kv EXCEPT ![key] = Encode(df')]
          /\ UNCHANGED readerVars
     ELSE /\ Visit
          /\ loop' = "next"
          /\ UNCHANGED kv
  /\ UNCHANGED <<program, user>>

VisitorNext == \/ Client
               \/ \E key \in Key :
                    \/ \E n \in 0 .. 2 : \E vals \in [1 .. n -> Value["F"]] :
                         FromArray(key, vals)
                    \/ Loop(key)
               \/ Begin \/ Read

\* The loop of fromVisitor runs on one thread, without a wait.
VisitorSpec == /\ VisitorInit /\ [][VisitorNext]_allVars
               /\ WF_allVars(Begin \/ Read \/ \E key \in Key : Loop(key))
-----------------------------------------------------------------------------
\* The files that the reader is made for: with white space at the end, less
\* than a buffer of it, and words that leave room for it in the buffer.
Run(text, from, to) ==
  \A k \in from .. to : text[k] = Blank <=> text[to] = Blank

Regular(text) ==
  LET n == Len(text)
  IN  /\ n > 0 => text[n] = Blank
      /\ \A from, to \in 1 .. n :
           Run(text, from, to) /\ (text[to] # Blank \/ to = n) =>
             to - from + 1 < BUFSIZE

(* The rows of the frame are the words of the file, in their order,        *)
(* wherever the ends of the buffer fall, and all of them in the stored     *)
(* value (visit, fillBuffer_, fromVisitor).                                *)
WordsInOrder ==
  user = "visitor" /\ Regular(file_.text) =>
    /\ \A n \in 1 .. df.nrows_ : <<Words(file_.text)[n]>> = RowsOf(df)[n]
    /\ loop = "after" =>
         \E key \in Key :
           RowsOf(Decode(kv[key])) =
             [n \in DOMAIN Words(file_.text) |-> <<Words(file_.text)[n]>>]

(* Of such a file no position outside the buffer is read or written, and   *)
(* the assertions of visit hold.  A word that fills the buffer takes the   *)
(* reader behind it.                                                       *)
StaysInBuffer ==
  user = "visitor" /\ Regular(file_.text) =>
    /\ reader \notin {"aborted", "crashed", "overrun"}
    /\ i_ <= BUFSIZE

(* Such a file is read to its end: done becomes true, and the frame is put *)
(* into the store.                                                         *)
VisitorEnds == user = "visitor" /\ Regular(file_.text) ~> loop = "after"
=============================================================================
