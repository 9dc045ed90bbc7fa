------------------------------ MODULE NdnTypes ------------------------------
(***************************************************************************)
(* The data the NDN modules exchange: names, faces and MAC addresses.      *)
(*                                                                         *)
(* A name is a sequence of tokens.  The code compares prefixes character   *)
(* by character and knows no name components, so a token is a character    *)
(* or any longer chunk of a name that is never split.                      *)
(***************************************************************************)
EXTENDS Integers, Sequences

CONSTANTS
    Names,          \* the packet names and prefixes in use
    Tokens,         \* what they are made of
    LowerFaces,     \* the gates lowerLayerIn[i]: network interfaces
    UpperFaces,     \* the gates upperLayerIn[i]: applications
    Macs,           \* MAC addresses, ff:ff:ff:ff:ff:ff excepted
    Interests,      \* the Interest packets in use
    DataPackets     \* the Data packets in use

ASSUME NamesAssumption == Names \subseteq Seq(Tokens)

ASSUME FacesAssumption == LowerFaces \cap UpperFaces = {}

\* What the code tells apart in a packet; times are in ticks.  The hop count
\* is kept for statistics only.
ASSUME PacketsAssumption ==
    /\ Interests \subseteq [type : {"interest"}, name : Names, lifetime : Nat,
                            flood : BOOLEAN, mustBeFresh : BOOLEAN]
    /\ DataPackets \subseteq [type : {"data"}, name : Names, freshness : Nat,
                              prefixLength : Nat]
    /\ \A d \in DataPackets : d.prefixLength \in 1..Len(d.name)

Faces == LowerFaces \cup UpperFaces
=============================================================================
