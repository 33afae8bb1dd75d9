------------------------------ MODULE Options -------------------------------
(***************************************************************************)
(* OptParser (src/adapter/OptParser.cpp) under its two callers: main of    *)
(* src/adapter/sor-main.cpp, and Arg::parse (src/adapter/arg.h) of eau2.   *)
(* Both know the options -f and -n with one value each.                    *)
(***************************************************************************)
EXTENDS Integers, Sequences

CONSTANTS Arg,             \* the arguments
          Argv,            \* the command lines, without the program's name
          Number           \* the arguments that stoi can read

\* "" stands for a value that was not given.
ASSUME OptionsAssumption == "" \notin Arg /\ Argv \subseteq Seq(Arg)

VARIABLES user,            \* "sor-main" or "eau2"; "any" has no options
          argv, optIdx,
          opt,             \* what getOpt returned last
          filename,        \* the value of -f
          nameAlive,       \* the storage of that value was not given back
          num_nodes,       \* the value of -n
          parsing          \* "yes", "parsed", "exit" or "thrown"

options == <<user, argv, optIdx, opt, filename, nameAlive, num_nodes, parsing>>

Flag == {"-f", "-n"}

\* By isOpt; any other argument is none.
IsOption == {"-f", "-n", "-x"}

InitOptions == /\ user \in {"any", "sor-main", "eau2"}
               /\ argv \in Argv
               /\ optIdx = 1
               /\ opt = [first |-> "", second |-> <<>>]
               /\ filename = "" /\ nameAlive = TRUE
               /\ num_nodes = ""
               /\ parsing = "yes"

\* Mutant: an argument that is no option ends the options.
getOpt_Posix ==
  CASE optIdx < Len(argv) /\ argv[optIdx] \in Flag ->
         [opt |-> [first |-> argv[optIdx], second |-> <<argv[optIdx + 1]>>],
          idx |-> optIdx + 2]
    [] optIdx > Len(argv) \/ argv[optIdx] \notin IsOption ->
         [opt |-> [first |-> "", second |-> <<>>], idx |-> optIdx]
    [] OTHER -> [opt |-> [first |-> "?", second |-> <<>>], idx |-> optIdx + 1]

\* An option that is unknown, or without its value, is "?".
getOpt ==
  CASE optIdx > Len(argv) ->
         [opt |-> [first |-> "", second |-> <<>>], idx |-> optIdx]
    [] optIdx < Len(argv) /\ argv[optIdx] \in Flag ->
         [opt |-> [first |-> argv[optIdx], second |-> <<argv[optIdx + 1]>>],
          idx |-> optIdx + 2]
    [] optIdx <= Len(argv) /\ argv[optIdx] \notin IsOption ->
         [opt |-> [first |-> "non-flag", second |-> <<argv[optIdx]>>],
          idx |-> optIdx + 1]
    [] OTHER -> [opt |-> [first |-> "?", second |-> <<>>], idx |-> optIdx + 1]

\* One round of the callers' loop.  eau2 keeps a pointer into opt, which the
\* next round assigns to; sor-main copies the name, and reads numbers with
\* stoi, which throws, instead of atoi.
NextOption ==
  /\ parsing = "yes" /\ user # "any"
  /\ opt' = getOpt.opt
  /\ optIdx' = getOpt.idx
  /\ filename' = IF opt'.first = "-f" THEN opt'.second[1] ELSE filename
  /\ nameAlive' = (user = "sor-main" \/ opt'.first = "-f" \/ filename = "")
  /\ num_nodes' = IF opt'.first = "-n" THEN opt'.second[1] ELSE num_nodes
  /\ parsing' = CASE opt'.first = "" -> "parsed"
                  [] opt'.first \in {"?", "non-flag"} -> "exit"
                  [] opt'.first = "-n" /\ user = "sor-main"
                       /\ opt'.second[1] \notin Number -> "thrown"
                  [] OTHER -> "yes"
  /\ UNCHANGED <<user, argv>>

OptionsSpec == InitOptions /\ [][NextOption]_options
-----------------------------------------------------------------------------
\* The flags of a command line that is flags with their values, and the value
\* of the last of them that is flag.
WellFormed(a) == Len(a) % 2 = 0 /\ \A n \in DOMAIN a : n % 2 = 1 => a[n] \in Flag

\* The argument behind the last of some positions.
LastValue(a, at) ==
  IF at = {} THEN ""
  ELSE a[(CHOOSE n \in at : \A m \in at : m <= n) + 1]

Given(a, flag) == LastValue(a, {n \in DOMAIN a : n % 2 = 1 /\ a[n] = flag})

(* A command line is accepted only if it is flags with their values, and   *)
(* the last value of each flag is the one that counts, also one that looks *)
(* like a flag; sor-main has the file name it was given, eau2 a pointer to *)
(* what the next option has taken the place of (getOpt, and the loops of   *)
(* its callers).                                                           *)
OptionsAsGiven ==
  parsing = "parsed" =>
    /\ WellFormed(argv)
    /\ filename = Given(argv, "-f") /\ num_nodes = Given(argv, "-n")
    /\ nameAlive <=> (user = "sor-main" \/ filename = "")
=============================================================================
