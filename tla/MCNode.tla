------------------------------- MODULE MCNode -------------------------------
(***************************************************************************)
(* Small instances of the nodes: two nodes, a client on each, and for some *)
(* runs a second client on node 0; k0 is at home on node 0, k1 on node 1.  *)
(***************************************************************************)
EXTENDS NodeService, TLC

CONSTANTS k0, k1, c0, c1, d0

MCHome     == k0 :> 0 @@ k1 :> 1
MCHash     == k0 :> 5 @@ k1 :> 3
OnePerNode == c0 :> 0 @@ c1 :> 1
TwoOnOne   == c0 :> 0 @@ c1 :> 1 @@ d0 :> 0

\* The client on node 0 adds, to both stores; that on node 1 reads, and does not
\* send Get.
Disciplined == c0 :> ({"add", "get"} \X {k0, k1} \cup {<<"waitAndGet", k1>>})
            @@ c1 :> {"waitAndGet"} \X {k0, k1}

\* Two clients that get what they have not at home.
TwoGetters == c0 :> {<<"add", k0>>, <<"get", k1>>, <<"add", k1>>}
           @@ c1 :> {<<"get", k0>>}

\* The client on node 1 and the thread of its node both add there.
BothAdd == c0 :> {<<"add", k1>>} @@ c1 :> {<<"add", k1>>}

\* Two clients on node 0 wait for keys of node 1.
BothWait == c0 :> {<<"add", k1>>, <<"waitAndGet", k1>>}
         @@ c1 :> {} @@ d0 :> {<<"waitAndGet", k1>>}

OneCall  == [c \in {c0, c1} |-> 1]
TwoCalls == [c \in {c0, c1} |-> 2]
Calls32  == c0 :> 3 @@ c1 :> 2
Calls31  == c0 :> 3 @@ c1 :> 1
Calls221 == c0 :> 2 @@ c1 :> 2 @@ d0 :> 1

\* Nothing tells one value from another.
ValueSymmetry == Permutations(Values)
=============================================================================
