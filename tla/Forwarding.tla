----------------------------- MODULE Forwarding -----------------------------
(***************************************************************************)
(* ForwardingBase: the NDN forwarder of every host, with its three tables. *)
(* A packet arrives from a network interface (a lower face) or from an     *)
(* application (an upper face) and is handled to the end in one event,     *)
(* with one exception: a flooded Interest, or Data for the network, is put *)
(* aside in sendDelayedPacket for a random time.  While it waits, the host *)
(* drops whatever else arrives.                                            *)
(*                                                                         *)
(* delayed[n] is sendDelayedPacket together with the flag waiting.  sent   *)
(* is what the latest event handed to send(), in order.                    *)
(***************************************************************************)
EXTENDS Pit, Fib, Cs

CONSTANTS
    Forwarders,         \* the hosts with parameter forwarding = true
    CachesUnsolicited,  \* the hosts with parameter cacheUnsolicited = true
    MacMapping,         \* parameter ndnMacMapping
    MacOf,              \* the MAC address of every host
    Broadcast,          \* ff:ff:ff:ff:ff:ff
    DefaultFace,        \* lowerLayerIn[DEFAULT_MAC_IF]
    InterestDelays,     \* computeInterestRandomDelay(), in ticks
    DataDelays,         \* computeDataRandomDelay(), in ticks
    MaxDelay            \* the longest of them

ASSUME ForwardingAssumption ==
    /\ Forwarders \subseteq Nodes
    /\ CachesUnsolicited \subseteq Nodes
    /\ MacMapping \in {"IB_DB", "IB_DU", "IU_DB", "IU_DU"}
    /\ MacOf \in [Nodes -> Macs]
    /\ Broadcast \notin Macs
    /\ DefaultFace \in LowerFaces
    /\ MaxDelay \in Nat
    /\ InterestDelays \subseteq 0..MaxDelay
    /\ DataDelays \subseteq 0..MaxDelay

VARIABLES delayed, sent

fwdVars == <<now, pitVars, fibVars, csVars, delayed, sent>>

Nothing == [type |-> "nothing"]

DelayedInterest ==
    [type : {"interest"}, packet : Interests, face : LowerFaces, src : Macs, at : Nat]
DelayedData ==
    [type : {"data"}, packet : DataPackets, face : LowerFaces, dest : Macs,
     at : Nat]

\* An Interest sent back to its application with TIMEOUT_CODE.
Timeout(interest) == [interest EXCEPT !.type = "timeout"]

Transmission ==
    [node : Nodes, face : Faces, dest : Macs \cup {Broadcast},
     packet : Interests \cup DataPackets \cup {Timeout(i) : i \in Interests}]

FwdTypeOK ==
    /\ PitTypeOK
    /\ FibTypeOK
    /\ CsTypeOK
    /\ delayed \in [Nodes -> {Nothing} \cup DelayedInterest \cup DelayedData]
    /\ sent \in Seq(Transmission)

FwdInit ==
    /\ PitInit
    /\ FibInit
    /\ CsInit
    /\ delayed = [n \in Nodes |-> Nothing]
    /\ sent = <<>>
-----------------------------------------------------------------------------
(* Sending.                                                                *)

\* ndnToMacMapping(): the destination address put on an Interest, on Data.
InterestDest(mac) == IF MacMapping \in {"IB_DB", "IB_DU"} THEN Broadcast ELSE mac
DataDest(mac) == IF MacMapping \in {"IB_DB", "IU_DB"} THEN Broadcast ELSE mac

ToLink(n, face, dest, packet) ==
    [node |-> n, face |-> face, dest |-> dest, packet |-> packet]

\* A packet for an application carries no MAC address and stays in the host.
ToApp(n, face, packet) == ToLink(n, face, MacOf[n], packet)

Silent == sent' = <<>>

\* forwardInterestToRemote().  When the PIT is full the Interest is lost.
ForwardInterestToRemote(n, interest, from, face, src, dest) ==
    \/ /\ PitCreate(n, interest, from, src)
       /\ sent' = <<ToLink(n, face, InterestDest(dest), interest)>>
    \/ PitReject(n) /\ Silent

\* forwardInterestToLocal().
ForwardInterestToLocal(n, interest, from, face, src) ==
    \/ /\ PitCreate(n, interest, from, src)
       /\ sent' = <<ToApp(n, face, interest)>>
    \/ PitReject(n) /\ Silent

\* forwardDataToRemote() and forwardDataToLocal().
ForwardDataToRemote(n, d, face, dest) ==
    sent' = <<ToLink(n, face, DataDest(dest), d)>>
ForwardDataToLocal(n, d, face) == sent' = <<ToApp(n, face, d)>>
-----------------------------------------------------------------------------
(* An Interest from the network: processLLInterest().                      *)

Waiting(n) == delayed[n] # Nothing

\* Seeded fault: the PIT is not looked at.
NewUnchecked(n, interest) == ~ CsHit(n, interest.name, interest.mustBeFresh)

\* The Content Store cannot answer, and no such Interest is pending.
New(n, interest) ==
    /\ ~ CsHit(n, interest.name, interest.mustBeFresh)
    /\ PitLookup(n, interest.name) = 0

\* Seeded fault: the answer goes to the address the Interest was sent to.
LLAnswerToSelf(n, interest, from, src) ==
    /\ CsHit(n, interest.name, interest.mustBeFresh)
    /\ ForwardDataToRemote(n, CsData(n, interest.name), from, MacOf[n])
    /\ UNCHANGED <<pitVars, delayed>>

LLAnswerFromCache(n, interest, from, src) ==
    /\ CsHit(n, interest.name, interest.mustBeFresh)
    /\ ForwardDataToRemote(n, CsData(n, interest.name), from, src)
    /\ UNCHANGED <<pitVars, delayed>>

\* The branch "Interest already in PIT": the second requester is not recorded.
DropDuplicate(n, interest) ==
    /\ ~ CsHit(n, interest.name, interest.mustBeFresh)
    /\ PitLookup(n, interest.name) # 0
    /\ Silent
    /\ UNCHANGED <<pitVars, delayed>>

LLFollowRoute(n, interest, from, src) ==
    /\ New(n, interest)
    /\ FibHit(n, interest.name)
    /\ LET fe == FibLookup(n, interest.name) IN
          \/ /\ fe.face \in LowerFaces
             /\ n \in Forwarders
             /\ ForwardInterestToRemote(n, interest, from, fe.face, src, fe.mac)
          \/ /\ fe.face \in UpperFaces
             /\ ForwardInterestToLocal(n, interest, from, fe.face, src)
    /\ UNCHANGED delayed

\* No route: the Interest is put aside, its PIT entry is made when it is sent.
LLDelayFlooding(n, interest, from, src) ==
    /\ New(n, interest)
    /\ ~ FibHit(n, interest.name)
    /\ interest.flood
    /\ n \in Forwarders
    /\ \E delay \in InterestDelays :
          delayed' = [delayed EXCEPT ![n] =
                         [type |-> "interest", packet |-> interest,
                          face |-> from, src |-> src, at |-> now + delay]]
    /\ Silent
    /\ UNCHANGED pitVars

\* Not a forwarder, or no route and no flooding flag.
LLDropInterest(n, interest) ==
    /\ New(n, interest)
    /\ IF FibHit(n, interest.name)
       THEN FibLookup(n, interest.name).face \in LowerFaces /\ n \notin Forwarders
       ELSE ~ (interest.flood /\ n \in Forwarders)
    /\ Silent
    /\ UNCHANGED <<pitVars, delayed>>

ProcessLLInterest(n, interest, from, src) ==
    /\ ~ Waiting(n)
    /\ \/ LLAnswerFromCache(n, interest, from, src)
       \/ DropDuplicate(n, interest)
       \/ LLFollowRoute(n, interest, from, src)
       \/ LLDelayFlooding(n, interest, from, src)
       \/ LLDropInterest(n, interest)
    /\ UNCHANGED <<now, fibVars, csVars>>
-----------------------------------------------------------------------------
(* An Interest from an application: processHLInterest().                   *)

HLAnswerFromCache(n, interest, from) ==
    /\ CsHit(n, interest.name, interest.mustBeFresh)
    /\ ForwardDataToLocal(n, CsData(n, interest.name), from)
    /\ UNCHANGED <<pitVars, delayed>>

\* Any host may send for its own applications; without a route, to everybody.
HLSend(n, interest, from) ==
    /\ New(n, interest)
    /\ IF FibHit(n, interest.name)
       THEN LET fe == FibLookup(n, interest.name) IN
               \/ /\ fe.face \in LowerFaces
                  /\ ForwardInterestToRemote(n, interest, from, fe.face,
                                             MacOf[n], fe.mac)
               \/ /\ fe.face \in UpperFaces
                  /\ ForwardInterestToLocal(n, interest, from, fe.face, MacOf[n])
       ELSE ForwardInterestToRemote(n, interest, from, DefaultFace,
                                    MacOf[n], Broadcast)
    /\ UNCHANGED delayed

\* Seeded fault: an application's Interest is handled while a packet waits.
ProcessHLInterestAnytime(n, interest, from) ==
    /\ \/ HLAnswerFromCache(n, interest, from)
       \/ DropDuplicate(n, interest)
       \/ HLSend(n, interest, from)
    /\ UNCHANGED <<now, fibVars, csVars>>

ProcessHLInterest(n, interest, from) ==
    /\ ~ Waiting(n)
    /\ \/ HLAnswerFromCache(n, interest, from)
       \/ DropDuplicate(n, interest)
       \/ HLSend(n, interest, from)
    /\ UNCHANGED <<now, fibVars, csVars>>
-----------------------------------------------------------------------------
(* Data: processLLData() and processHLData().                              *)

\* The PIT entry the Data answers.
Breadcrumb(n, d) == pit[n][PitLookup(n, d.name)]

\* Data for a previous hop is put aside; the PIT entry is used up at once.
LLDelayData(n, d) ==
    LET pe == Breadcrumb(n, d) IN
    /\ pe.face \in LowerFaces
    /\ n \in Forwarders
    /\ \E delay \in DataDelays :
          delayed' = [delayed EXCEPT ![n] =
                         [type |-> "data", packet |-> d, face |-> pe.face,
                          dest |-> pe.mac, at |-> now + delay]]
    /\ Silent

LLDeliverData(n, d) ==
    LET pe == Breadcrumb(n, d) IN
    /\ pe.face \in UpperFaces
    /\ ForwardDataToLocal(n, d, pe.face)
    /\ UNCHANGED delayed

\* A host that does not forward overheard the answer to what a neighbour
\* asked its application.
LLKeepData(n, d) ==
    /\ Breadcrumb(n, d).face \in LowerFaces
    /\ n \notin Forwarders
    /\ Silent
    /\ UNCHANGED delayed

\* Data nobody asked for.
Unsolicited(n, d) ==
    /\ PitLookup(n, d.name) = 0
    /\ IF n \in CachesUnsolicited THEN CsAdd(n, d) ELSE UNCHANGED csVars
    /\ Silent
    /\ UNCHANGED <<pitVars, fibVars, delayed>>

\* Solicited Data also teaches a route back to its source.
SolicitedLL(n, d, face, src) ==
    /\ PitLookup(n, d.name) # 0
    /\ FibCreate(n, d.name, d.prefixLength, face, src)
    /\ LLDelayData(n, d) \/ LLDeliverData(n, d) \/ LLKeepData(n, d)
    /\ PitRemove(n, d.name)
    /\ CsAdd(n, d)

\* Seeded fault: Data from the network is handled while a packet waits.
ProcessLLDataAnytime(n, d, face, src) ==
    /\ SolicitedLL(n, d, face, src) \/ Unsolicited(n, d)
    /\ UNCHANGED now

ProcessLLData(n, d, face, src) ==
    /\ ~ Waiting(n)
    /\ SolicitedLL(n, d, face, src) \/ Unsolicited(n, d)
    /\ UNCHANGED now

\* Data of an application goes out without delay.
SolicitedHL(n, d) ==
    LET pe == Breadcrumb(n, d) IN
    /\ PitLookup(n, d.name) # 0
    /\ IF pe.face \in LowerFaces THEN ForwardDataToRemote(n, d, pe.face, pe.mac)
                                 ELSE ForwardDataToLocal(n, d, pe.face)
    /\ PitRemove(n, d.name)
    /\ CsAdd(n, d)
    /\ UNCHANGED <<fibVars, delayed>>

ProcessHLData(n, d) ==
    /\ ~ Waiting(n)
    /\ SolicitedHL(n, d) \/ Unsolicited(n, d)
    /\ UNCHANGED now
-----------------------------------------------------------------------------
(* The rest of handleMessage(), and receiveSignal().                       *)

\* The self message sendDelayedPacket carries an Interest, or Data.  Neither
\* table is consulted again before the Interest enters the PIT.
SendDelayedInterest(n) ==
    LET w == delayed[n] IN
    /\ w.type = "interest"
    /\ Due(w.at)
    /\ ForwardInterestToRemote(n, w.packet, w.face, DefaultFace, w.src, Broadcast)
    /\ delayed' = [delayed EXCEPT ![n] = Nothing]
    /\ UNCHANGED <<now, fibVars, csVars>>

SendDelayedData(n) ==
    LET w == delayed[n] IN
    /\ w.type = "data"
    /\ Due(w.at)
    /\ ForwardDataToRemote(n, w.packet, w.face, w.dest)
    /\ delayed' = [delayed EXCEPT ![n] = Nothing]
    /\ UNCHANGED <<now, pitVars, fibVars, csVars>>

\* Any packet that arrives while another waits is dropped; one of the same
\* name, Interest or Data, from anywhere, also cancels the one that waits.
DropWhileWaiting(n, name) ==
    /\ Waiting(n)
    /\ delayed' = IF delayed[n].packet.name = name
                  THEN [delayed EXCEPT ![n] = Nothing] ELSE delayed
    /\ Silent
    /\ UNCHANGED <<now, pitVars, fibVars, csVars>>

\* Seeded fault: the prefix is bound to the default interface.
RegisterPrefixDefault(n, prefix, face) ==
    /\ \/ FibRegister(n, prefix, DefaultFace, MacOf[n])
       \/ FibRegisterRefused(n, prefix)
    /\ Silent
    /\ UNCHANGED <<now, pitVars, csVars, delayed>>

\* A packet with REGISTER_PREFIX_CODE, waiting or not.
RegisterPrefix(n, prefix, face) ==
    /\ \/ FibRegister(n, prefix, face, MacOf[n])
       \/ FibRegisterRefused(n, prefix)
    /\ Silent
    /\ UNCHANGED <<now, pitVars, csVars, delayed>>

\* Seeded fault: the test of the face is the wrong way round.
TimedOutForAppsSwapped(n) ==
    Retain(pit[n], {i \in DOMAIN pit[n] \ PitUnexpired(n) :
                       pit[n][i].face \in LowerFaces})

\* The entries that time out and whose face leads to an application.
TimedOutForApps(n) ==
    Retain(pit[n], {i \in DOMAIN pit[n] \ PitUnexpired(n) :
                       pit[n][i].face \in UpperFaces})

\* The PIT check; receiveSignal() returns the Interests that timed out to the
\* applications that sent them, and tells neighbours nothing.
PitTimerEvent(n) ==
    /\ PitCheckTimeout(n)
    /\ LET told == TimedOutForApps(n) IN
       sent' = [k \in DOMAIN told |->
                   ToApp(n, told[k].face, Timeout(told[k].interest))]
    /\ UNCHANGED <<now, fibVars, csVars, delayed>>

FibTimerEvent(n) ==
    FibCheckExpired(n) /\ Silent /\ UNCHANGED <<now, pitVars, csVars, delayed>>

CsTimerEvent(n) ==
    CsCheckStale(n) /\ Silent /\ UNCHANGED <<now, pitVars, fibVars, delayed>>
-----------------------------------------------------------------------------
(* Any neighbour and any application may send any packet at any time.  The *)
(* last ones are offered early enough for what is put aside to leave       *)
(* before the Horizon.                                                     *)

Offered == now + MaxDelay <= Horizon

Neighbours(n) == Macs \ {MacOf[n]}

LinkInterest(n) ==
    /\ Offered
    /\ \E i \in Interests, from \in LowerFaces, src \in Neighbours(n) :
          ProcessLLInterest(n, i, from, src)

LinkData(n) ==
    /\ Offered
    /\ \E d \in DataPackets, from \in LowerFaces, src \in Neighbours(n) :
          ProcessLLData(n, d, from, src)

AppInterest(n) ==
    /\ Offered
    /\ \E i \in Interests, from \in UpperFaces : ProcessHLInterest(n, i, from)

AppData(n) == Offered /\ \E d \in DataPackets : ProcessHLData(n, d)

AppRegister(n) ==
    /\ Offered
    /\ \E prefix \in Names, face \in UpperFaces : RegisterPrefix(n, prefix, face)

PacketWhileWaiting(n) ==
    Offered /\ \E p \in Interests \cup DataPackets : DropWhileWaiting(n, p.name)

FwdTimers ==
    {pitTimer[n] : n \in Nodes} \cup {fibTimer[n] : n \in Nodes}
        \cup {csTimer[n] : n \in Nodes}
        \cup {delayed[n].at : n \in {m \in Nodes : Waiting(m)}}

FwdTick ==
    Tick(FwdTimers) /\ Silent /\ UNCHANGED <<pitVars, fibVars, csVars, delayed>>

\* The sim-time-limit is reached.
FwdEnd == now = MaxTime /\ UNCHANGED fwdVars

FwdNext ==
    \/ \E n \in Nodes :
          \/ LinkInterest(n)
          \/ LinkData(n)
          \/ AppInterest(n)
          \/ AppData(n)
          \/ AppRegister(n)
          \/ PacketWhileWaiting(n)
          \/ SendDelayedInterest(n)
          \/ SendDelayedData(n)
          \/ PitTimerEvent(n)
          \/ FibTimerEvent(n)
          \/ CsTimerEvent(n)
    \/ FwdTick
    \/ FwdEnd

FwdSpec == FwdInit /\ [][FwdNext]_fwdVars

\* The kernel delivers every scheduled event.  Time goes on even if packets
\* keep being put aside and cancelled: each takes time on the air, so there are
\* not infinitely many in one instant.
FwdFairSpec ==
    /\ FwdSpec
    /\ \A n \in Nodes :
          /\ WF_fwdVars(SendDelayedInterest(n) \/ SendDelayedData(n))
          /\ WF_fwdVars(PitTimerEvent(n))
          /\ WF_fwdVars(FibTimerEvent(n))
          /\ WF_fwdVars(CsTimerEvent(n))
    /\ SF_fwdVars(FwdTick)
-----------------------------------------------------------------------------
(* A name is pending at most once.  PitBase::create() does not check it,   *)
(* and a flooded Interest enters the PIT long after its lookup: it holds   *)
(* because a waiting host lets no other packet reach its tables.  A second *)
(* entry would answer the Data that used up the first.                     *)
UniquePitNames ==
    \A n \in Nodes : \A i, j \in DOMAIN pit[n] :
        pit[n][i].interest.name = pit[n][j].interest.name => i = j

(* No Interest is pending for content that the Content Store would serve   *)
(* as fresh: whatever makes a cached name fresh also clears it from the    *)
(* PIT, and what passed the cache check before waiting would pass it again.*)
NothingFreshIsPending ==
    \A n \in Nodes : \A i \in DOMAIN pit[n] :
        ~ CsHit(n, pit[n][i].interest.name, TRUE)

\* PIT entries of a host that this step takes away.
UsedUp(n) == {e \in ToSet(pit[n]) : e \notin ToSet(pit'[n])}

\* The step puts Data for that entry aside, for its previous hop.
PutsAsideFor(n, e) ==
    /\ delayed'[n].type = "data"
    /\ delayed'[n].packet.name = e.interest.name
    /\ delayed'[n].face = e.face
    /\ delayed'[n].dest = e.mac

\* The step sends Data for that entry to its face and previous hop.
SendsFor(n, e, s) ==
    /\ s.node = n
    /\ s.packet.type = "data"
    /\ s.packet.name = e.interest.name
    /\ s.face = e.face
    /\ s.dest = IF e.face \in UpperFaces THEN MacOf[n] ELSE DataDest(e.mac)

\* An Interest that came from that face and address and still waits for Data:
\* in the PIT, put aside before it enters the PIT, or its Data put aside.
Debt(name, face, mac) == [name |-> name, face |-> face, mac |-> mac]

PitDebts(n) == {Debt(e.interest.name, e.face, e.mac) : e \in ToSet(pit[n])}

DelayedDebts(n) ==
    LET w == delayed[n] IN
    IF w.type = "interest" THEN {Debt(w.packet.name, w.face, w.src)}
    ELSE IF w.type = "data" THEN {Debt(w.packet.name, w.face, w.dest)}
    ELSE {}

Owed(n) == PitDebts(n) \cup DelayedDebts(n)

\* The Data that the step hands to send().
SentData(n) ==
    {k \in DOMAIN sent' : sent'[k].node = n /\ sent'[k].packet.type = "data"}

Pays(n, debt, s) ==
    /\ s.packet.name = debt.name
    /\ s.face = debt.face
    /\ s.dest = IF debt.face \in UpperFaces THEN MacOf[n] ELSE DataDest(debt.mac)

\* The host is handed that Interest, by a neighbour or by an application.
Handles(n, interest, from, src) ==
    \/ from \in LowerFaces /\ ProcessLLInterest(n, interest, from, src)
    \/ /\ from \in UpperFaces
       /\ src = MacOf[n]
       /\ ProcessHLInterest(n, interest, from)

\* What the step is asked for, if it is the handling of an Interest.
HandledNow(n) ==
    {debt \in [name : Names, face : Faces, mac : Macs] :
        \E interest \in Interests :
            /\ interest.name = debt.name
            /\ Handles(n, interest, debt.face, debt.mac)}

\* Whoever sent the Interest that is handled, and nobody else, is owed Data
\* from now on.
DebtsAreRequested(n) ==
    \A debt \in Owed(n)' \ Owed(n) : HandledNow(n) = {debt}

\* Data that answers the Interest that is handled goes to its sender.  Any
\* other pays a debt, and nothing is left of it in the PIT or put aside.
DataPaysDebts(n) ==
    \A k \in SentData(n) :
        IF HandledNow(n) # {}
        THEN \A debt \in HandledNow(n) : Pays(n, debt, sent'[k])
        ELSE \E debt \in Owed(n) \ Owed(n)' : Pays(n, debt, sent'[k])

AtMostOneIsSent(n) == \A k, l \in SentData(n) : k = l

(* Data is sent only to the face and MAC address an Interest for it came    *)
(* from, and once for each Interest: from the Content Store to the one just *)
(* handled, for a PIT entry that goes, or when what was put aside leaves.   *)
(* An Interest may change twice between these places, and several Interests *)
(* and Data of one name may cross in a host meanwhile.                      *)
DataFollowsInterest ==
    [][\A n \in Nodes : /\ DebtsAreRequested(n)
                         /\ DataPaysDebts(n)
                         /\ AtMostOneIsSent(n)]_fwdVars

\* What becomes of a pending Interest: its lifetime is over, which an
\* application is told; Data is sent or put aside for it; or a host that does
\* not forward keeps the answer a neighbour waits for.
Settled(n, e) ==
    \/ /\ e.expireAt <= now
       /\ e.face \in UpperFaces =>
             \E k \in DOMAIN sent' :
                sent'[k] = ToApp(n, e.face, Timeout(e.interest))
    \/ \E k \in DOMAIN sent' : SendsFor(n, e, sent'[k])
    \/ PutsAsideFor(n, e)
    \/ e.face \in LowerFaces /\ n \notin Forwarders

(* No pending Interest disappears without a trace: not when several time    *)
(* out at once, nor when Data for another entry of the host passes.         *)
PendingIsAccountedFor ==
    [][\A n \in Nodes : \A e \in UsedUp(n) : Settled(n, e)]_fwdVars

\* An application on that face waits for that name.
AppWaits(n, face, name) ==
    \E i \in DOMAIN pit[n] :
        pit[n][i].face = face /\ pit[n][i].interest.name = name

\* The latest event gave the application Data of that name, or its timeout.
AppIsTold(n, face, name) ==
    \E k \in DOMAIN sent :
        /\ sent[k].node = n
        /\ sent[k].face = face
        /\ sent[k].packet.type \in {"data", "timeout"}
        /\ sent[k].packet.name = name

(* An application whose Interest got a PIT entry hears of it in the end:   *)
(* it gets the Data or its Interest back, which is what makes              *)
(* ConsumerAppBase retransmit.                                             *)
AppHearsBack ==
    \A n \in Nodes, face \in UpperFaces, name \in Names :
        AppWaits(n, face, name) ~> AppIsTold(n, face, name)

(* The tables of a host see nothing but the calls that their own           *)
(* specifications allow, so what is shown of a table holds in the host.    *)
FwdUsesTables == PitSpec /\ FibSpec /\ CsSpec
=============================================================================
