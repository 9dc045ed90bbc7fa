-------------------------------- MODULE MCFib --------------------------------
(* A small instance of the Forwarding Information Base for TLC.  The names   *)
(* nest: one is a prefix of two others, which are not prefixes of each other.*)
EXTENDS Fib

MCNames == {<<"a">>, <<"a", "b">>, <<"a", "b", "c">>, <<"a", "c">>}
MCTokens == {"a", "b", "c"}
MCDataPackets == {d \in [type : {"data"}, name : Names, freshness : {0},
                         prefixLength : 1..3] : d.prefixLength <= Len(d.name)}
MCFibMaxSize == [n \in Nodes |-> 3]
=============================================================================
