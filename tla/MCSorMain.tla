----------------------------- MODULE MCSorMain ------------------------------
(***************************************************************************)
(* Small instances of the adapter: a window of 3 rows, a sample of 2.      *)
(***************************************************************************)
EXTENDS SorMain

CONSTANTS one, twelve, half, text, mixed, huge, vast, tiny,
          r0, r1, r2, r3, r4, r5, r6

rows == <<r0, r1, r2, r3, r4, r5, r6>>

MCStoi == [w \in Word |-> CASE w \in {one, twelve}       -> "whole"
                            [] w \in {half, mixed, vast} -> "front"
                            [] w = huge                  -> "range"
                            [] OTHER                     -> "invalid"]

MCStof == [w \in Word |-> CASE w \in {one, twelve, half, huge} -> "whole"
                            [] w = mixed                       -> "front"
                            [] w \in {vast, tiny}              -> "range"
                            [] OTHER                           -> "invalid"]

Tag(cell) == <<"<">> \o cell \o <<">">>

Quoted(cell) == <<"quote">> \o cell \o <<"quote">>

\* Lines of one and two tags: spaces around and within them, quotes, numbers
\* of each type, cells that are empty, and lines that are invalid.
Short == {
  Tag(<<"space", one, "space">>) \o <<"space">> \o Tag(<<text>>),
  Tag(Quoted(<<text, "space", text, ">">>)),
  Tag(<<twelve>>) \o Tag(<<half>>),
  Tag(Quoted(<<"space", one>>)) \o Tag(<<>>),
  Tag(<<text, "space", text>>),
  Tag(Quoted(<<text>>) \o Quoted(<<text>>)),
  Tag(<<huge>>) \o Tag(<<mixed>>),
  Tag(<<tiny>>) }

\* Lines that are all different.
Numbered(n) == [k \in 1 .. n |-> Tag(<<rows[k]>>)]

MCFile == [lines : UNION {[1 .. n -> Short] : n \in 1 .. 2}
                     \cup {Numbered(n) : n \in {3, 4, 7}},
           newline : BOOLEAN]

MCCell == {None} \cup {<<w>> : w \in {one, twelve, half, text, tiny}}
                 \cup {<<text, "space", text, ">">>, <<"space", one>>,
                       <<one, "<">>, <<text, "space", text>>}

MCArgv == UNION {[1 .. n -> Arg] : n \in 0 .. 4}
=============================================================================
