----------------------------- MODULE NdnNetwork -----------------------------
(***************************************************************************)
(* A network of NdnWirelessHosts: each has the forwarder of module         *)
(* Forwarding, consumers and producers above it, and a MAC and a radio     *)
(* below it.  What a forwarder hands to send() goes to the MAC or to an    *)
(* application; what the MAC of a neighbour puts on the air comes back to  *)
(* the forwarder as a packet of its lower face.                            *)
(*                                                                         *)
(* Of MAC and radio this module keeps what module Link states and          *)
(* WirelessNic implements: frames leave in the order in which they were    *)
(* queued; any of them may reach only some of the hosts it is meant for;   *)
(* one with an acknowledgement may arrive more than once.                  *)
(***************************************************************************)
EXTENDS Forwarding, Producer

CONSTANTS
    Consumers,      \* the applications that ask, as [node, face]
    Wanted,         \* the Interests they send
    Hears,          \* <<n, m>>: host m hears host n
    Lossy,          \* BOOLEAN: frames may be lost
    MacDelay,       \* bound: the longest time a frame spends in the MAC
    MaxRepeats,     \* bound: how often the MAC sends a frame again that arrived
    MaxAsks,        \* bound: the Interests of a consumer for a name
    AskUntil,       \* bound: when they have been sent
    Crowded         \* BOOLEAN: FALSE if they wait for the network to be at rest

ASSUME NetworkAssumption ==
    /\ Consumers \subseteq [node : Nodes, face : UpperFaces]
    /\ Wanted \subseteq Interests
    /\ Hears \subseteq Nodes \X Nodes
    /\ \A n \in Nodes : <<n, n>> \notin Hears
    /\ \A n, m \in Nodes : MacOf[n] = MacOf[m] => n = m
    /\ {Lossy, Crowded} \subseteq BOOLEAN
    /\ {MacDelay, MaxRepeats, MaxAsks, AskUntil} \subseteq Nat
    \* What a producer answers is well formed.
    /\ \A p \in Producers, i \in Interests :
          [type |-> "data", name |-> i.name, freshness |-> DataFreshness[p],
           prefixLength |-> Len(PrefixOf[p])] \in DataPackets

VARIABLES
    queue,          \* the frames in the MAC of each host
    arriving,       \* the packets about to reach the forwarder of each host
    asked,          \* how often a consumer asked for a name
    told            \* how often it got Data, or its Interest back

netVars == <<fwdVars, producerVars, queue, arriving, asked, told>>
linkVars == <<queue, arriving>>
consumerVars == <<asked, told>>

Requests == [who : Consumers, name : Names]
Outcomes == {"data", "timeout"}

Frame == [face : LowerFaces, dest : Macs \cup {Broadcast},
          packet : Interests \cup DataPackets, at : Nat, repeats : 0..MaxRepeats]
Arrival == [face : LowerFaces, src : Macs, packet : Interests \cup DataPackets]

NetTypeOK ==
    /\ FwdTypeOK
    /\ ProducerTypeOK
    /\ queue \in [Nodes -> Seq(Frame)]
    /\ arriving \in [Nodes -> Seq(Arrival)]
    /\ asked \in [Requests -> 0..MaxAsks]
    /\ told \in [Requests -> [Outcomes -> Nat]]

NetInit ==
    /\ FwdInit
    /\ ProducerInit
    /\ queue = [n \in Nodes |-> <<>>]
    /\ arriving = [n \in Nodes |-> <<>>]
    /\ asked = [r \in Requests |-> 0]
    /\ told = [r \in Requests |-> [o \in Outcomes |-> 0]]
-----------------------------------------------------------------------------
(* What the forwarder of host n sends goes out of the gates of its host.   *)

ToFrame(s) == [face |-> s.face, dest |-> s.dest, packet |-> s.packet,
               at |-> now + MacDelay, repeats |-> 0]

\* lowerLayerOut[i] leads to the i-th MAC.
Queued(n) ==
    LET down == Retain(sent', {k \in DOMAIN sent' : sent'[k].face \in LowerFaces}) IN
    queue' = [queue EXCEPT ![n] = @ \o [k \in DOMAIN down |-> ToFrame(down[k])]]

\* upperLayerOut[i] leads to the i-th application.
HandedUp(n) ==
    handed' = [p \in Producers |->
        handed[p] \o
            LET mine == Retain(sent', {k \in DOMAIN sent' :
                    /\ p = [node |-> n, face |-> sent'[k].face]
                    /\ sent'[k].packet.type = "interest"})
            IN [k \in DOMAIN mine |-> mine[k].packet]]

Told(n) ==
    told' = [r \in Requests |-> [o \in Outcomes |->
        told[r][o] + Cardinality({k \in DOMAIN sent' :
                        /\ r = [who |-> [node |-> n, face |-> sent'[k].face],
                                name |-> sent'[k].packet.name]
                        /\ sent'[k].packet.type = o})]]

Dispatch(n) == Queued(n) /\ HandedUp(n) /\ Told(n)
-----------------------------------------------------------------------------
(* The events of a host.  Packets reach a forwarder while Offered.         *)

\* Nothing of that name is pending or under way anywhere.
AtRest(name) ==
    \A n \in Nodes :
        /\ PitLookup(n, name) = 0
        /\ ~ Waiting(n)
        /\ queue[n] = <<>>
        /\ arriving[n] = <<>>
        /\ \A p \in Producers : handed[p] = <<>> /\ answers[p] = <<>>

Ask(c) ==
    /\ Offered /\ now <= AskUntil
    /\ \E i \in Wanted :
          LET r == [who |-> c, name |-> i.name] IN
          /\ asked[r] < MaxAsks
          /\ Crowded \/ AtRest(i.name)
          /\ ProcessHLInterest(c.node, i, c.face) \/ DropWhileWaiting(c.node, i.name)
          /\ asked' = [asked EXCEPT ![r] = @ + 1]
    /\ Dispatch(c.node)
    /\ UNCHANGED <<registrations, answers, arriving>>

\* The next packet from below reaches handleMessage().
Receive(n) ==
    /\ Offered
    /\ arriving[n] # <<>>
    /\ LET a == Head(arriving[n]) IN
          \/ /\ a.packet.type = "interest"
             /\ ProcessLLInterest(n, a.packet, a.face, a.src)
          \/ /\ a.packet.type = "data"
             /\ ProcessLLData(n, a.packet, a.face, a.src)
          \/ DropWhileWaiting(n, a.packet.name)
    /\ Dispatch(n)
    /\ arriving' = [arriving EXCEPT ![n] = Tail(@)]
    /\ UNCHANGED <<registrations, answers, asked>>

\* A producer's registration, an Interest for it, its Data.
Register(p) ==
    /\ Offered
    /\ RegistrationArrives(p)
    /\ RegisterPrefix(p.node, PrefixOf[p], p.face)
    /\ Dispatch(p.node)
    /\ UNCHANGED <<answers, arriving, asked>>

Produce(p) ==
    /\ ProcessInterest(p)
    /\ UNCHANGED <<fwdVars, linkVars, consumerVars>>

SendData(p) ==
    /\ Offered
    /\ LET d == Head(answers[p]).packet IN
          /\ AnswerArrives(p)
          /\ ProcessHLData(p.node, d) \/ DropWhileWaiting(p.node, d.name)
    /\ Dispatch(p.node)
    /\ UNCHANGED <<registrations, arriving, asked>>

\* The self messages of the forwarder and its tables.
SelfMessage(n) ==
    /\ \/ SendDelayedInterest(n)
       \/ SendDelayedData(n)
       \/ PitTimerEvent(n)
       \/ FibTimerEvent(n)
       \/ CsTimerEvent(n)
    /\ Dispatch(n)
    /\ UNCHANGED <<registrations, answers, arriving, asked>>
-----------------------------------------------------------------------------
(* MAC and radio.                                                          *)

\* The hosts in reach that a frame of n is meant for.
Audience(n, frame) ==
    {m \in Nodes : <<n, m>> \in Hears /\ frame.dest \in {MacOf[m], Broadcast}}

\* Who gets it: all, unless signals collide or fade or the queue was full.
Receivers(n, frame) ==
    IF Lossy THEN SUBSET Audience(n, frame) ELSE {Audience(n, frame)}

\* The acknowledgement is lost, and the frame will be sent again.
Repeats(frame) == frame.dest # Broadcast /\ frame.repeats < MaxRepeats

\* A frame takes its time: the registrations are through before the first.
Transmit(n) ==
    /\ registrations = {}
    /\ queue[n] # <<>>
    /\ LET frame == Head(queue[n]) IN
       \E hosts \in Receivers(n, frame) :
          /\ arriving' = [m \in Nodes |->
                IF m \in hosts
                THEN Append(arriving[m], [face |-> frame.face, src |-> MacOf[n],
                                          packet |-> frame.packet])
                ELSE arriving[m]]
          /\ \/ queue' = [queue EXCEPT ![n] = Tail(@)]
             \/ /\ hosts # {} /\ Repeats(frame)
                /\ queue' = [queue EXCEPT ![n] =
                       <<[frame EXCEPT !.repeats = @ + 1]>> \o Tail(@)]
    /\ UNCHANGED <<fwdVars, producerVars, consumerVars>>
-----------------------------------------------------------------------------
\* Time passes when nothing is left to happen at this instant.
AllDone ==
    /\ registrations = {}
    /\ \A p \in Producers :
          /\ handed[p] = <<>>
          /\ answers[p] # <<>> => ~ Due(Head(answers[p]).at)
    /\ \A n \in Nodes :
          /\ arriving[n] = <<>>
          /\ queue[n] # <<>> => Head(queue[n]).at > now

NetTick ==
    /\ FwdTick
    /\ Offered => AllDone
    /\ UNCHANGED <<producerVars, linkVars, consumerVars>>

NetEnd == FwdEnd /\ UNCHANGED netVars

\* What the kernel has scheduled; consumers ask when they like.
NetEvent ==
    \/ \E n \in Nodes : Receive(n) \/ SelfMessage(n) \/ Transmit(n)
    \/ \E p \in Producers : Register(p) \/ Produce(p) \/ SendData(p)
    \/ NetTick

NetNext ==
    \/ \E c \in Consumers : Ask(c)
    \/ NetEvent
    \/ NetEnd

NetSpec == NetInit /\ [][NetNext]_netVars

\* The kernel goes on while there are events.
NetFairSpec == NetSpec /\ WF_netVars(NetEvent)
-----------------------------------------------------------------------------
(* Every host behaves as module Forwarding says, whatever its neighbours   *)
(* do: what was shown of a host among arbitrary neighbours and             *)
(* applications holds in the network.                                      *)
NetImplementsForwarding == FwdSpec

\* The host to which n owes Data of that name, if any.
OwesTo(n, name, m) ==
    \E i \in DOMAIN pit[n] :
        /\ pit[n][i].interest.name = name
        /\ pit[n][i].face \in LowerFaces
        /\ pit[n][i].mac = MacOf[m]

(* Pending Interests of a name lead from host to host to an application:   *)
(* there is no ring of hosts of which each would pass the Data to the next.*)
(* Interests carry a nonce that nobody compares; what keeps a flooded one  *)
(* from running in circles is only the PIT entry of the host it comes back *)
(* to, or after that is used up the Data in its Content Store.             *)
BreadcrumbsLeadHome ==
    \A name \in Names : \A ring \in (SUBSET Nodes) \ {{}} :
        \E n \in ring : \A m \in ring : ~ OwesTo(n, name, m)

\* Hosts that enter a neighbour's Interest into their PIT, and those that send
\* Interests to their neighbours; a ring can only be made of hosts that do both.
Answerers == Forwarders \cup {p.node : p \in Producers}
Askers == Forwarders \cup {c.node : c \in Consumers}
Relays == Answerers \cap Askers

\* The longest time that an Interest may take through all of them.
TrailTime == Cardinality(Relays) * (MaxDelay + MacDelay)

\* These hosts cache; lifetimes and freshness, which goes with the name, outlast
\* that time.
TrailsAreShort ==
    /\ IsFiniteSet(Relays) /\ \A n \in Relays : CsMaxSize[n] # 0
    /\ \A i \in Interests : i.lifetime > TrailTime
    /\ \A d \in DataPackets : d.freshness > TrailTime
    /\ \A d, e \in DataPackets : d.name = e.name => d.freshness = e.freshness

\* When fresh Data came that made or renewed the entry.
Came(e) == e.staleAt - e.data.freshness

\* A full Content Store may give up its oldest entry at any time, but not one
\* whose Data came within the last TrailTime: a renewed one keeps its place.
KeepsYoungData(n) ==
    \A i \in DOMAIN cs[n] : cs[n][i].fresh =>
        \/ \E k \in DOMAIN cs'[n] : cs'[n][k].data.name = cs[n][i].data.name
        \/ now > Came(cs[n][i]) + TrailTime

YoungDataStays == [][\A n \in Relays : KeepsYoungData(n)]_netVars

\* Interests of a consumer that its host holds.
Outstanding(r) ==
    Cardinality({i \in DOMAIN pit[r.who.node] :
        LET e == pit[r.who.node][i] IN
        e.face = r.who.face /\ e.interest.name = r.name})

(* A consumer hears of an Interest at most once: by Data or by a time-out, *)
(* never both and never twice, though frames are repeated, two routers     *)
(* answer, and Data comes when the Interest has timed out.                 *)
NoAnswerUnasked ==
    \A r \in Requests :
        told[r]["data"] + told[r]["timeout"] + Outstanding(r) <= asked[r]

(* Without losses each Interest sent when its name is at rest brings Data: *)
(* the suppression of flooded copies leaves one that reaches the producer, *)
(* and the learned route serves the next one, as long as caches are fresh. *)
AskedIsAnswered ==
    \A r \in Requests : \A k \in 1..MaxAsks :
        asked[r] >= k ~> told[r]["data"] >= k
=============================================================================
