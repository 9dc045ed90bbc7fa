-------------------------------- MODULE MCCs --------------------------------
(* A small instance of the Content Store for TLC: more names than it holds.  *)
EXTENDS Cs

MCNames == {<<"a">>, <<"b">>, <<"c">>}
MCTokens == {"a", "b", "c"}
MCDataPackets == [type : {"data"}, name : Names, freshness : {0, 1, 3},
                  prefixLength : {1}]
MCCsMaxSize == [n \in Nodes |-> 2]
=============================================================================
