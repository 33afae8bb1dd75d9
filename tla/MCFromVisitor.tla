--------------------------- MODULE MCFromVisitor ----------------------------
(***************************************************************************)
(* Small instances of the data frame and of the reader: chunks of 2, a     *)
(* buffer of 3.                                                            *)
(***************************************************************************)
EXTENDS FromVisitor

CONSTANTS a, b, f, t, i

MCValue == [B |-> {t}, F |-> {f}, I |-> {i},
            S |-> {<<a>>, <<a, Tab>>, Null}]

MCSchemas == {<<>>, <<"B">>, <<"F">>, <<"I">>, <<"S">>, <<"S", "I">>, <<"I", "?">>}

MCText == UNION {[1 .. n -> {a, b, Blank}] : n \in 0 .. 6}
=============================================================================
