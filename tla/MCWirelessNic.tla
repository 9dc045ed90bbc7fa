--------------------------- MODULE MCWirelessNic ---------------------------
(* Instances of WirelessNic for TLC.                                       *)
EXTENDS WirelessNic

CONSTANTS a, b, c

F(src, dst, id) == [kind |-> "data", src |-> src, id |-> id, prio |-> 0,
                    dst |-> dst]

\* Every host hears every other.
MCMesh == {<<x, y>> \in Nodes \X Nodes : x # y}

\* Unicast in both directions, and a broadcast frame.
MCPair == {F(a, b, 1), F(b, a, 2), F(a, Broadcast, 3)}

\* Two hosts send to the third, which answers one of them.
MCTriangle == {F(a, b, 1), F(c, b, 2), F(a, Multicast, 3)}

=============================================================================
