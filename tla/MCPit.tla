-------------------------------- MODULE MCPit --------------------------------
(* A small instance of the Pending Interest Table for TLC.                   *)
EXTENDS Pit

MCNames == {<<"a">>, <<"b">>}
MCTokens == {"a", "b"}
MCInterests == [type : {"interest"}, name : Names, lifetime : {1, 3},
                flood : {FALSE}, mustBeFresh : {TRUE}]
MCPitMaxSize == [n \in Nodes |-> 2]
=============================================================================
