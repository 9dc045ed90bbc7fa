---------------------------- MODULE MCNdnNetwork ----------------------------
(* A diamond for TLC: a consumer at host asker, routers left and right that  *)
(* hear each other, and a producer at host source.                           *)
EXTENDS NdnNetwork

CONSTANTS asker, left, right, source, Lifetime

Content == <<"air", "place">>
MCNames == {Content, <<"air">>}
MCTokens == {"air", "place"}
MCInterests ==
    {[type |-> "interest", name |-> Content, lifetime |-> Lifetime, flood |-> TRUE,
      mustBeFresh |-> TRUE]}
MCDataPackets ==
    {[type |-> "data", name |-> Content, freshness |-> 7, prefixLength |-> 1]}

MCMacOf == [n \in Nodes |-> n]
MCPitMaxSize == [n \in Nodes |-> 2]
MCFibMaxSize == [n \in Nodes |-> 2]
\* The routers have caches, the other hosts none.
MCCsMaxSize == [n \in Nodes |-> IF n \in Forwarders THEN 1 ELSE 0]

Producer1 == [node |-> source, face |-> "app"]
MCProducers == {Producer1}
MCPrefixOf == [x \in MCProducers |-> <<"air">>]
MCDataFreshness == [x \in MCProducers |-> 7]
MCStart == [x \in MCProducers |-> 0]
MCNeverStops == [x \in MCProducers |-> -1]

Reach(pairs) == pairs \cup {<<e[2], e[1]>> : e \in pairs}
MCDiamond == Reach({<<asker, left>>, <<asker, right>>, <<left, right>>,
                    <<left, source>>, <<right, source>>})
MCConsumers == {[node |-> asker, face |-> "app"]}

\* What the proof that no ring of pending Interests arises assumes of the
\* constants; with one content and room for it no Data is evicted either.
ASSUME MCTrails == TrailsAreShort

\* The routers are alike: each hears the same hosts.
MCRouters == Permutations({left, right})
=============================================================================
