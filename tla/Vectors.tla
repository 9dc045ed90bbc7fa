------------------------------ MODULE Vectors ------------------------------
(***************************************************************************)
(* Erasing elements of a std::vector, as the loops of the NDN tables do:   *)
(* the elements that stay keep their order and close the gaps.             *)
(***************************************************************************)
EXTENDS Integers, Sequences, FiniteSets

\* How many of the positions keep are at or before i.
Rank(keep, i) == Cardinality({j \in keep : j <= i})

\* The vector after erase() of every position outside keep.
Retain(v, keep) ==
    [k \in 1..Cardinality(keep) |-> v[CHOOSE i \in keep : Rank(keep, i) = k]]

\* The vector after erase() of position i.
Erase(v, i) == Retain(v, DOMAIN v \ {i})
=============================================================================
