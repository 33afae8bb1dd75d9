----------------------------- MODULE FileReader -----------------------------
(***************************************************************************)
(* FileReader (src/app/wordcounter.h): the words of a file, one by one,    *)
(* through a buffer of BUFSIZE characters and one more.  A loop that goes  *)
(* past the buffer reads what lies behind it; a write there is where the   *)
(* model ends, for what it destroys is not known.                          *)
(***************************************************************************)
EXTENDS Integers, SequencesExt, SortedSets

CONSTANTS BUFSIZE,         \* 1024 in the code
          Text,            \* the contents of files
          Blank,           \* white space
          Nul,             \* the character that ends a string
          Stale,           \* what memory holds that was not written
          Behind,          \* how far memory behind the buffer can be read
          Unmapped         \* what comes next: a read of it crashes

ASSUME FileReaderAssumption == /\ BUFSIZE \in Nat \ {0}
                               /\ Behind \in Nat
                               /\ Unmapped \notin Stale \cup {Blank}
                               /\ \A t \in Text : Len(t) \in Nat

VARIABLES file_,           \* the text, the position in it and feof
          buf_, i_, end_, wStart,
          word,            \* the word that visit has put into the row
          reader           \* "new", "skip", "scan", "ready", or how it ended

readerVars == <<file_, buf_, i_, end_, wStart, word, reader>>

InitReader == /\ \E t \in Text : file_ = [text |-> t, at |-> 0, feof |-> FALSE]
              /\ \E m \in Stale : buf_ = [k \in 0 .. BUFSIZE |-> m]
              /\ i_ = 0 /\ end_ = 0 /\ wStart = 0
              /\ word = <<>>
              /\ reader = "new"

\* Mutant: a whole buffer is read behind what is kept.
fillBuffer_Whole(i) ==
  LET start == end_ - i
      left  == Len(file_.text) - file_.at
      count == IF left < BUFSIZE THEN left ELSE BUFSIZE
  IN  [buf  |-> [k \in 0 .. BUFSIZE |->
                   CASE k < start -> buf_[i + k]
                     [] k \in start .. start + count - 1 ->
                          file_.text[file_.at + k - start + 1]
                     [] OTHER -> buf_[k]],
       i    |-> start,
       end  |-> start + count,
       file |-> [file_ EXCEPT !.at = @ + count, !.feof = @ \/ count < BUFSIZE]]

\* fillBuffer_, with i_ = i: what is not processed moves to the front.
fillBuffer(i) ==
  LET start == end_ - i
      left  == Len(file_.text) - file_.at
      room  == BUFSIZE - start
      count == IF left < room THEN left ELSE room
  IN  [buf  |-> [k \in 0 .. BUFSIZE |->
                   CASE k < start -> buf_[i + k]
                     [] k \in start .. start + count - 1 ->
                          file_.text[file_.at + k - start + 1]
                     [] OTHER -> buf_[k]],
       i    |-> start,
       end  |-> start + count,
       file |-> [file_ EXCEPT !.at = @ + count, !.feof = @ \/ count < room]]

\* Mutant: the word that is being read is not kept.
Window_Lost(from) ==
  IF i_ = end_ THEN fillBuffer(end_)
  ELSE [buf |-> buf_, i |-> i_, end |-> end_, file |-> file_]

\* The buffer, filled again if it is at its end, from a position on.
Window(from) ==
  IF i_ = end_ THEN fillBuffer(from)
  ELSE [buf |-> buf_, i |-> i_, end |-> end_, file |-> file_]

\* The constructor, up to skipWhitespace_.
OpenReader ==
  /\ reader = "new"
  /\ LET w == fillBuffer(i_)
     IN  buf_' = w.buf /\ i_' = w.i /\ end_' = w.end /\ file_' = w.file
  /\ reader' = "skip"
  /\ UNCHANGED <<wStart, word>>

\* What a read of buf_[k] may give.
Reads(b, k) == CASE k <= BUFSIZE -> {b[k]}
                 [] k \in BUFSIZE + 1 .. BUFSIZE + Behind -> Stale
                 [] OTHER -> {Unmapped}

\* A round of skipWhitespace_.  The character at the end of a buffer that did
\* not fill is read as well, and from there on those behind it.
Skip ==
  /\ reader = "skip"
  /\ IF i_ = end_ /\ file_.feof
     THEN reader' = "ready" /\ UNCHANGED <<file_, buf_, i_, end_>>
     ELSE LET w == Window(i_)
          IN  /\ buf_' = w.buf /\ end_' = w.end /\ file_' = w.file
              /\ \E c \in Reads(w.buf, w.i) :
                   /\ reader' = CASE c = Blank -> "skip"
                                  [] c = Unmapped -> "crashed"
                                  [] OTHER -> "ready"
                   /\ i_' = IF c = Blank THEN w.i + 1 ELSE w.i
  /\ UNCHANGED <<wStart, word>>

\* visit begins, with its assertions.
Visit ==
  /\ reader = "ready"
  /\ reader' = IF i_ < end_ /\ buf_[i_] # Blank THEN "scan" ELSE "aborted"
  /\ wStart' = i_
  /\ UNCHANGED <<file_, buf_, i_, end_, word>>

\* visit ends the word from start to i in the buffer, or behind it.
EndWord(b, start, i) ==
  IF i <= BUFSIZE
  THEN /\ word' = [k \in 1 .. i - start |-> b[start + k - 1]]
       /\ buf_' = [b EXCEPT ![i] = Nul]
       /\ i_' = i + 1
       /\ reader' = "skip"
  ELSE /\ reader' = "overrun"
       /\ buf_' = b /\ i_' = i
       /\ UNCHANGED word

\* A round of the loop of visit.
Scan ==
  /\ reader = "scan"
  /\ LET w     == Window(wStart)
         start == IF i_ = end_ THEN 0 ELSE wStart
     IN  IF i_ = end_ /\ file_.feof
         THEN EndWord(buf_, wStart, i_ + 1) /\ UNCHANGED <<file_, end_, wStart>>
         ELSE /\ file_' = w.file /\ end_' = w.end /\ wStart' = start
              /\ \E c \in Reads(w.buf, w.i) :
                   \/ c = Blank /\ EndWord(w.buf, start, w.i)
                   \/ /\ c # Blank
                      /\ buf_' = w.buf
                      /\ IF c = Unmapped
                         THEN reader' = "crashed" /\ i_' = w.i
                         ELSE i_' = w.i + 1 /\ UNCHANGED reader
                      /\ UNCHANGED word

\* Mutant: the end of the buffer counts as a word.
done_Past == i_ > end_ /\ file_.feof

done == i_ >= end_ /\ file_.feof

\* The reader under any client, which may call visit at any time.
ReaderNext == OpenReader \/ Skip \/ Visit \/ Scan

ReaderSpec == InitReader /\ [][ReaderNext]_readerVars
-----------------------------------------------------------------------------
\* The words of a text, from where one begins to the first white space, or to
\* the end.
Words(text) ==
  LET In(k)  == k \in DOMAIN text /\ text[k] # Blank
      starts == Ascending({k \in DOMAIN text : In(k) /\ ~In(k - 1)})
      End(k) == Min({l \in k .. Len(text) : ~In(l + 1)})
  IN  [n \in DOMAIN starts |-> SubSeq(text, starts[n], End(starts[n]))]
=============================================================================
