---------------------------- MODULE MCForwarding ----------------------------
(* Small instances of one forwarding host for TLC.                           *)
EXTENDS Forwarding

CONSTANTS n1, m1, m2

MCNames == {<<"a">>, <<"a", "b">>}
MCTokens == {"a", "b"}
\* Two Interests for every name: the first, flooded, of a consumer and one
\* that follows routes only and takes stale Data.
MCInterests ==
    {[type |-> "interest", name |-> name, lifetime |-> 1, flood |-> choosy,
      mustBeFresh |-> choosy] : name \in Names, choosy \in BOOLEAN}
MCDataPackets ==
    [type : {"data"}, name : Names, freshness : {0, 1}, prefixLength : {1}]

MCConsumerInterests == {i \in MCInterests : i.flood}
MCFreshData == {d \in MCDataPackets : d.freshness > 0}
MCStaleData == {d \in MCDataPackets : d.freshness = 0}

MCPitMaxSize == [n \in Nodes |-> 2]
MCPitTight == [n \in Nodes |-> 1]
MCFibMaxSize == [n \in Nodes |-> 1]
MCCsMaxSize == [n \in Nodes |-> 1]
MCNoCs == [n \in Nodes |-> 0]
MCMacOf == [n \in Nodes |-> "m0"]
=============================================================================
