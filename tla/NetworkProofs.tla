---------------------------- MODULE NetworkProofs ----------------------------
(***************************************************************************)
(* Proofs about a network of any hosts, applications and reach: each host  *)
(* behaves as module Forwarding says, so what is shown of a host holds in  *)
(* the network, and no consumer is answered more often than it asked.  And *)
(* pending Interests lead to an application: no ring of hosts owes itself  *)
(* Data.                                                                   *)
(***************************************************************************)
EXTENDS NdnNetwork, ForwardingProofs, TLAPS

(* What is under way between the hosts and their applications.             *)
HeardBy(n) == {a \in Arrival : a.src \in Neighbours(n)}

LinksOK ==
    /\ ProducerTypeOK
    /\ queue \in [Nodes -> Seq(Frame)]
    /\ arriving \in [Nodes -> Seq(Arrival)]
    /\ \A n \in Nodes : arriving[n] \in Seq(HeardBy(n))

CountsOK ==
    /\ asked \in [Requests -> 0..MaxAsks]
    /\ told \in [Requests -> [Outcomes -> Nat]]

NetOK == FwdOK /\ FwdNames /\ LinksOK /\ CountsOK

LEMMA NetInitOK == NetInit => NetOK
<1> SUFFICES ASSUME NetInit PROVE NetOK
  OBVIOUS
<1>1. FwdOK /\ FwdNames
  BY FwdInitOK, FwdInitNames DEF NetInit
<1>2. ProducerTypeOK
  BY EmptySeq DEF NetInit, ProducerInit, ProducerTypeOK
<1>3. LinksOK
  BY <1>2, EmptySeq DEF NetInit, LinksOK
<1>4. CountsOK
  BY NetworkAssumption DEF NetInit, CountsOK
<1> QED BY <1>1, <1>3, <1>4 DEF NetOK
-----------------------------------------------------------------------------
(* Every step of the network is a step of the forwarders, or none.         *)

LEMMA AskIsFwdStep ==
    ASSUME NEW c \in Consumers, Ask(c)
    PROVE  \E n \in Nodes : AppInterest(n) \/ PacketWhileWaiting(n)
<1>1. c.node \in Nodes /\ c.face \in UpperFaces
  BY NetworkAssumption
<1>2. PICK i \in Wanted : ProcessHLInterest(c.node, i, c.face)
                          \/ DropWhileWaiting(c.node, i.name)
  BY DEF Ask
<1>3. i \in Interests /\ Offered
  BY NetworkAssumption DEF Ask
<1> QED BY <1>1, <1>2, <1>3 DEF AppInterest, PacketWhileWaiting

LEMMA ArrivalsAreHeard ==
    ASSUME LinksOK, NEW n \in Nodes, arriving[n] # <<>>
    PROVE  /\ Head(arriving[n]).face \in LowerFaces
           /\ Head(arriving[n]).src \in Neighbours(n)
           /\ Head(arriving[n]).packet \in Interests \cup DataPackets
           /\ Head(arriving[n]).packet.type = "interest" =>
                 Head(arriving[n]).packet \in Interests
           /\ Head(arriving[n]).packet.type = "data" =>
                 Head(arriving[n]).packet \in DataPackets
<1>1. Head(arriving[n]) \in HeardBy(n)
  BY HeadTailProperties DEF LinksOK
<1>2. /\ Head(arriving[n]).face \in LowerFaces
      /\ Head(arriving[n]).src \in Neighbours(n)
      /\ Head(arriving[n]).packet \in Interests \cup DataPackets
  BY <1>1 DEF HeardBy, Arrival
<1>3. /\ \A i \in Interests : i.type = "interest"
      /\ \A d \in DataPackets : d.type = "data"
  BY PacketsAssumption
<1> QED BY <1>2, <1>3

LEMMA ReceiveIsFwdStep ==
    ASSUME LinksOK, NEW n \in Nodes, Receive(n)
    PROVE  LinkInterest(n) \/ LinkData(n) \/ PacketWhileWaiting(n)
<1> DEFINE a == Head(arriving[n])
<1>1. Offered /\ arriving[n] # <<>>
  BY DEF Receive
<1>2. \/ a.packet.type = "interest" /\ ProcessLLInterest(n, a.packet, a.face, a.src)
      \/ a.packet.type = "data" /\ ProcessLLData(n, a.packet, a.face, a.src)
      \/ DropWhileWaiting(n, a.packet.name)
  BY DEF Receive
<1>3. /\ a.face \in LowerFaces /\ a.src \in Neighbours(n)
      /\ a.packet \in Interests \cup DataPackets
      /\ a.packet.type = "interest" => a.packet \in Interests
      /\ a.packet.type = "data" => a.packet \in DataPackets
  BY <1>1, ArrivalsAreHeard
<1> HIDE DEF a
<1> QED BY <1>1, <1>2, <1>3 DEF LinkInterest, LinkData, PacketWhileWaiting

LEMMA SendDataIsFwdStep ==
    ASSUME LinksOK, NEW p \in Producers, SendData(p)
    PROVE  AppData(p.node) \/ PacketWhileWaiting(p.node)
<1> DEFINE d == Head(answers[p]).packet
<1>1. answers[p] # <<>> /\ answers[p] \in Seq([packet : DataPackets, at : Nat])
  BY DEF SendData, AnswerArrives, LinksOK, ProducerTypeOK
<1>2. Head(answers[p]) \in [packet : DataPackets, at : Nat]
  BY <1>1, HeadTailProperties
<1>3. d \in DataPackets
  BY <1>2
<1>4. Offered /\ (ProcessHLData(p.node, d) \/ DropWhileWaiting(p.node, d.name))
  BY DEF SendData
<1> HIDE DEF d
<1> QED BY <1>3, <1>4 DEF AppData, PacketWhileWaiting

LEMMA NetStepIsFwdStep == ASSUME NetOK, [NetNext]_netVars PROVE [FwdNext]_fwdVars
<1>1. ASSUME NEW c \in Consumers, Ask(c) PROVE FwdNext
  BY <1>1, AskIsFwdStep DEF FwdNext
<1>2. ASSUME NEW n \in Nodes, Receive(n) PROVE FwdNext
  BY <1>2, ReceiveIsFwdStep DEF FwdNext, NetOK
<1>3. ASSUME NEW n \in Nodes, SelfMessage(n) PROVE FwdNext
  BY <1>3 DEF SelfMessage, FwdNext
<1>4. ASSUME NEW p \in Producers, Register(p) PROVE FwdNext
  <2>1. AppRegister(p.node) /\ p.node \in Nodes
    BY <1>4, ProducerAssumption DEF Register, AppRegister
  <2> QED BY <2>1 DEF FwdNext
<1>5. ASSUME NEW p \in Producers, SendData(p) PROVE FwdNext
  <2>1. p.node \in Nodes
    BY ProducerAssumption
  <2> QED BY <1>5, <2>1, SendDataIsFwdStep DEF FwdNext, NetOK
<1>6. CASE NetTick
  BY <1>6 DEF NetTick, FwdNext
<1>7. ASSUME \/ \E n \in Nodes : Transmit(n)
             \/ \E p \in Producers : Produce(p)
             \/ NetEnd \/ UNCHANGED netVars
      PROVE  UNCHANGED fwdVars
  BY <1>7 DEF Transmit, Produce, NetEnd, FwdEnd, netVars
<1> QED
  BY <1>1, <1>2, <1>3, <1>4, <1>5, <1>6, <1>7 DEF NetNext, NetEvent
-----------------------------------------------------------------------------
(* What the applications of a host are told, and what they wait for.       *)

AnswersTo(face, name) ==
    {k \in DOMAIN sent' : /\ sent'[k].face = face
                          /\ sent'[k].packet.name = name
                          /\ sent'[k].packet.type \in Outcomes}

(* An event at host n in which applications ask for what is in asks: each   *)
(* is told at most once, and only for the Interest that it waited for; only *)
(* those who ask begin to wait.                                             *)
Accounted(n, asks) ==
    /\ \A k \in DOMAIN sent' :
          /\ sent'[k].node = n
          /\ sent'[k].face \in LowerFaces => sent'[k].packet \in Interests \cup DataPackets
    /\ \A m \in Nodes : m # n => pit'[m] = pit[m]
    /\ \A face \in UpperFaces, name \in Names :
          /\ \A k, l \in AnswersTo(face, name) : k = l
          /\ <<face, name>> \notin asks =>
                /\ AppWaits(n, face, name)' => AppWaits(n, face, name)
                /\ AnswersTo(face, name) # {} =>
                      AppWaits(n, face, name) /\ ~ AppWaits(n, face, name)'
          /\ AnswersTo(face, name) # {} /\ AppWaits(n, face, name)' =>
                AppWaits(n, face, name)

LEMMA FacesDiffer == \A face \in UpperFaces : face \notin LowerFaces
  BY FacesAssumption

(* Nothing is sent, no entry is made.                                       *)
LEMMA QuietEvent ==
    ASSUME NEW n \in Nodes, Silent, UNCHANGED pitVars
    PROVE  Accounted(n, {})
<1>1. DOMAIN sent' = {} /\ pit' = pit
  BY SilentSends DEF pitVars
<1>2. \A face, name : AnswersTo(face, name) = {}
  BY <1>1 DEF AnswersTo
<1>3. \A face, name : AppWaits(n, face, name)' <=> AppWaits(n, face, name)
  BY <1>1 DEF AppWaits
<1> QED BY <1>1, <1>2, <1>3 DEF Accounted

(* One packet is sent.                                                      *)
LEMMA OnePacket ==
    ASSUME NEW n, NEW face, NEW mac, NEW packet,
           sent' = <<ToLink(n, face, mac, packet)>>
    PROVE  /\ DOMAIN sent' = {1} /\ sent'[1].node = n
           /\ sent'[1].face = face /\ sent'[1].packet = packet
           /\ \A f, name : AnswersTo(f, name) \subseteq {1}
           /\ \A f, name : AnswersTo(f, name) # {} =>
                 f = face /\ packet.name = name /\ packet.type \in Outcomes
<1>1. /\ DOMAIN sent' = {1} /\ sent'[1].node = n
      /\ sent'[1].face = face /\ sent'[1].packet = packet
  BY DEF ToLink
<1> QED BY <1>1 DEF AnswersTo

(* An Interest is forwarded: a new entry may be made for the one who asks.  *)
LEMMA ForwardEvent ==
    ASSUME FwdOK, NEW n \in Nodes, NEW interest \in Interests, NEW from \in Faces,
           NEW face, NEW src \in Macs, NEW dest,
           \/ ForwardInterestToRemote(n, interest, from, face, src, dest)
           \/ ForwardInterestToLocal(n, interest, from, face, src)
    PROVE  /\ Accounted(n, {<<from, interest.name>>})
           /\ from \in LowerFaces => Accounted(n, {})
<1>1. CASE PitReject(n) /\ Silent
  <2>1. Accounted(n, {})
    BY <1>1, QuietEvent DEF PitReject
  <2> QED BY <2>1 DEF Accounted
<1>2. ASSUME PitCreate(n, interest, from, src), NEW mac,
             sent' = <<ToLink(n, face, mac, interest)>>
      PROVE  /\ Accounted(n, {<<from, interest.name>>})
             /\ from \in LowerFaces => Accounted(n, {})
  <2>1. interest.type = "interest" /\ interest.type \notin Outcomes
    BY PacketsAssumption DEF Outcomes
  <2>2. /\ \A k \in DOMAIN sent' : sent'[k].node = n /\ sent'[k].packet \in Interests
        /\ \A f, name : AnswersTo(f, name) = {}
    BY <1>2, <2>1, OnePacket
  <2> DEFINE e == [interest |-> interest, face |-> from, mac |-> src,
                   expireAt |-> now + interest.lifetime]
  <2>3. /\ pit[n] \in Seq(PitEntry) /\ now \in Nat
        /\ pit'[n] = Append(pit[n], e) /\ \A m \in Nodes : m # n => pit'[m] = pit[m]
    BY <1>2 DEF PitCreate, FwdOK, PitInv, PitTypeOK
  <2>4. e \in PitEntry /\ e.interest = interest /\ e.face = from
    BY <2>3, PacketsAssumption DEF PitEntry
  <2> HIDE DEF e
  <2>5. \A i \in DOMAIN pit'[n] :
           (i \in DOMAIN pit[n] /\ pit'[n][i] = pit[n][i]) \/ pit'[n][i] = e
    BY <2>3, <2>4, PushBack
  <2>6. \A f, name : AppWaits(n, f, name)' =>
           AppWaits(n, f, name) \/ (f = from /\ name = interest.name)
    BY <2>4, <2>5 DEF AppWaits
  <2> QED BY <2>2, <2>3, <2>6, FacesDiffer DEF Accounted
<1> QED
  BY <1>1, <1>2 DEF ForwardInterestToRemote, ForwardInterestToLocal, ToApp

(* Data of the Content Store is sent to the one who asks.                   *)
LEMMA CachedEvent ==
    ASSUME FwdOK, NEW n \in Nodes, NEW name, NEW fresh \in BOOLEAN, NEW face \in Faces,
           NEW mac, CsHit(n, name, fresh),
           sent' = <<ToLink(n, face, mac, CsData(n, name))>>, UNCHANGED pitVars
    PROVE  /\ Accounted(n, {<<face, name>>})
           /\ face \in LowerFaces => Accounted(n, {})
<1> DEFINE d == CsData(n, name)
<1>1. d \in DataPackets /\ d.name = name
  <2>1. CsPosition(n, name) # 0
    BY DEF CsHit
  <2>2. d.name = name
    BY <2>1, CsHost, CsPositionFindsFirst DEF CsData, FwdOK
  <2> QED BY <2>2, FoundEntries
<1> HIDE DEF d
<1>2. /\ \A k \in DOMAIN sent' : sent'[k].node = n /\ sent'[k].packet \in DataPackets
      /\ \A f, nm : \A k, l \in AnswersTo(f, nm) : k = l
      /\ \A f, nm : AnswersTo(f, nm) # {} => f = face /\ nm = name
  BY <1>1, OnePacket DEF d
<1>3. pit' = pit
  BY DEF pitVars
<1>4. \A f, nm : AppWaits(n, f, nm)' <=> AppWaits(n, f, nm)
  BY <1>3 DEF AppWaits
<1> QED BY <1>2, <1>3, <1>4, FacesDiffer DEF Accounted

(* An entry goes: nobody begins to wait.                                    *)
LEMMA NobodyBegins ==
    ASSUME FwdOK, FwdNames, NEW n \in Nodes,
           (\E name \in Names : PitRemove(n, name)) \/ PitCheckTimeout(n)
    PROVE  /\ \A m \in Nodes : m # n => pit'[m] = pit[m]
           /\ \A f, name : AppWaits(n, f, name)' => AppWaits(n, f, name)
<1>1. pit \in [Nodes -> Seq(PitEntry)] /\ pit[n] \in Seq(PitEntry)
  BY DEF FwdOK, PitInv, PitTypeOK
<1>2. \/ pit' = pit
      \/ \E keep \in SUBSET DOMAIN pit[n] : pit' = [pit EXCEPT ![n] = Retain(pit[n], keep)]
  <2>1. CASE PitCheckTimeout(n)
    <3>1. PitUnexpired(n) \in SUBSET DOMAIN pit[n]
      BY DEF PitUnexpired
    <3> QED BY <2>1, <3>1 DEF PitCheckTimeout
  <2>2. ASSUME NEW name \in Names, PitRemove(n, name)
        PROVE  \/ pit' = pit
               \/ \E keep \in SUBSET DOMAIN pit[n] :
                     pit' = [pit EXCEPT ![n] = Retain(pit[n], keep)]
    BY <2>2 DEF PitRemove, Erase
  <2> QED BY <2>1, <2>2
<1>3. CASE pit' = pit
  BY <1>3 DEF AppWaits
<1>4. ASSUME NEW keep \in SUBSET DOMAIN pit[n],
             pit' = [pit EXCEPT ![n] = Retain(pit[n], keep)]
      PROVE  /\ \A m \in Nodes : m # n => pit'[m] = pit[m]
             /\ \A f, name : AppWaits(n, f, name)' => AppWaits(n, f, name)
  <2>1. pit'[n] = Retain(pit[n], keep) /\ \A m \in Nodes : m # n => pit'[m] = pit[m]
    BY <1>1, <1>4
  <2>2. \A k \in DOMAIN pit'[n] : \E i \in DOMAIN pit[n] : pit'[n][k] = pit[n][i]
    BY <1>1, <2>1, RetainProperties
  <2> QED BY <2>1, <2>2 DEF AppWaits
<1> QED BY <1>2, <1>3, <1>4
(* Data uses up the entry it answers: its application waited until now.     *)
LEMMA AnswerEvent ==
    ASSUME FwdOK, FwdNames, NEW n \in Nodes, NEW d \in DataPackets,
           PitLookup(n, d.name) # 0, PitRemove(n, d.name),
           \/ Silent
           \/ \E mac : sent' = <<ToLink(n, Breadcrumb(n, d).face, mac, d)>>
    PROVE  Accounted(n, {})
<1> DEFINE pe == Breadcrumb(n, d)
<1>1. d.name \in Names
  BY PacketsAssumption
<1>2. /\ \A m \in Nodes : m # n => pit'[m] = pit[m]
      /\ \A f, name : AppWaits(n, f, name)' => AppWaits(n, f, name)
  BY <1>1, NobodyBegins
<1>3. PitUnique(pit[n]) /\ PitInv
  BY DEF FwdNames, HostNames, FwdOK
<1>4. \A f : ~ AppWaits(n, f, d.name)'
  <2>1. ~ Pending(n, d.name)'
    BY <1>3, PitRemoveNames
  <2> QED BY <2>1 DEF Pending, AppWaits
<1>5. AppWaits(n, pe.face, d.name)
  <2>1. PitLookup(n, d.name) \in DOMAIN pit[n] /\ pe.interest.name = d.name
    BY <1>3, PitHost, PitLookupFindsFirst DEF Breadcrumb
  <2> QED BY <2>1 DEF AppWaits, Breadcrumb
<1> HIDE DEF pe
<1>6. CASE Silent
  <2>1. DOMAIN sent' = {}
    BY <1>6, SilentSends
  <2> QED BY <1>2, <2>1 DEF Accounted, AnswersTo
<1>7. ASSUME NEW mac, sent' = <<ToLink(n, pe.face, mac, d)>>
      PROVE  Accounted(n, {})
  <2>1. /\ \A k \in DOMAIN sent' : sent'[k].node = n /\ sent'[k].packet = d
        /\ \A f, nm : \A k, l \in AnswersTo(f, nm) : k = l
        /\ \A f, nm : AnswersTo(f, nm) # {} => f = pe.face /\ nm = d.name
    BY <1>7, OnePacket
  <2> QED BY <1>2, <1>4, <1>5, <2>1 DEF Accounted
<1> QED BY <1>6, <1>7 DEF pe

LEMMA ProcessLLInterestAccounted ==
    ASSUME FwdOK, NEW n \in Nodes, NEW interest \in Interests,
           NEW from \in LowerFaces, NEW src \in Macs,
           ProcessLLInterest(n, interest, from, src)
    PROVE  Accounted(n, {})
<1>1. from \in Faces /\ interest.mustBeFresh \in BOOLEAN
  BY PacketsAssumption DEF Faces
<1>2. CASE LLAnswerFromCache(n, interest, from, src)
  BY <1>1, <1>2, CachedEvent DEF LLAnswerFromCache, ForwardDataToRemote
<1>3. CASE LLFollowRoute(n, interest, from, src)
  BY <1>1, <1>3, ForwardEvent DEF LLFollowRoute
<1>4. CASE \/ DropDuplicate(n, interest)
           \/ LLDelayFlooding(n, interest, from, src)
           \/ LLDropInterest(n, interest)
  BY <1>4, QuietEvent DEF DropDuplicate, LLDelayFlooding, LLDropInterest
<1> QED BY <1>2, <1>3, <1>4 DEF ProcessLLInterest

LEMMA ProcessHLInterestAccounted ==
    ASSUME FwdOK, NEW n \in Nodes, NEW interest \in Interests,
           NEW from \in UpperFaces, ProcessHLInterest(n, interest, from)
    PROVE  Accounted(n, {<<from, interest.name>>})
<1>1. from \in Faces /\ interest.mustBeFresh \in BOOLEAN /\ MacOf[n] \in Macs
  BY PacketsAssumption, ForwardingAssumption DEF Faces
<1>2. CASE HLAnswerFromCache(n, interest, from)
  BY <1>1, <1>2, CachedEvent DEF HLAnswerFromCache, ForwardDataToLocal, ToApp
<1>3. CASE HLSend(n, interest, from)
  BY <1>1, <1>3, ForwardEvent DEF HLSend
<1>4. CASE DropDuplicate(n, interest)
  <2>1. Accounted(n, {})
    BY <1>4, QuietEvent DEF DropDuplicate
  <2> QED BY <2>1 DEF Accounted
<1> QED BY <1>2, <1>3, <1>4 DEF ProcessHLInterest

LEMMA ProcessDataAccounted ==
    ASSUME FwdOK, FwdNames, NEW n \in Nodes, NEW d \in DataPackets, NEW face, NEW src,
           ProcessLLData(n, d, face, src) \/ ProcessHLData(n, d)
    PROVE  Accounted(n, {})
<1>1. CASE Unsolicited(n, d)
  BY <1>1, QuietEvent DEF Unsolicited
<1>2. CASE SolicitedLL(n, d, face, src)
  <2>1. \/ Silent
        \/ \E mac : sent' = <<ToLink(n, Breadcrumb(n, d).face, mac, d)>>
    BY <1>2 DEF SolicitedLL, LLDelayData, LLDeliverData, LLKeepData,
                ForwardDataToLocal, ToApp
  <2> QED BY <1>2, <2>1, AnswerEvent DEF SolicitedLL
<1>3. CASE SolicitedHL(n, d)
  <2>1. \E mac : sent' = <<ToLink(n, Breadcrumb(n, d).face, mac, d)>>
    BY <1>3 DEF SolicitedHL, ForwardDataToRemote, ForwardDataToLocal, ToApp
  <2> QED BY <1>3, <2>1, AnswerEvent DEF SolicitedHL
<1> QED BY <1>1, <1>2, <1>3 DEF ProcessLLData, ProcessHLData

LEMMA DelayedIsKnown ==
    ASSUME FwdOK, NEW n \in Nodes
    PROVE  /\ delayed[n].type = "interest" =>
                 /\ delayed[n].packet \in Interests
                 /\ delayed[n].face \in LowerFaces /\ delayed[n].src \in Macs
           /\ delayed[n].type = "data" =>
                 delayed[n].packet \in DataPackets /\ delayed[n].face \in LowerFaces
  BY DEF FwdOK, Nothing, DelayedInterest, DelayedData

LEMMA SendDelayedAccounted ==
    ASSUME FwdOK, NEW n \in Nodes, SendDelayedInterest(n) \/ SendDelayedData(n)
    PROVE  Accounted(n, {})
<1> DEFINE w == delayed[n]
<1>1. CASE SendDelayedInterest(n)
  <2>1. w.packet \in Interests /\ w.face \in LowerFaces /\ w.face \in Faces
        /\ w.src \in Macs
    BY <1>1, DelayedIsKnown DEF SendDelayedInterest, Faces
  <2>2. ForwardInterestToRemote(n, w.packet, w.face, DefaultFace, w.src, Broadcast)
    BY <1>1 DEF SendDelayedInterest
  <2> HIDE DEF w
  <2> QED BY <2>1, <2>2, ForwardEvent
<1>2. CASE SendDelayedData(n)
  <2>1. w.packet \in DataPackets /\ w.face \in LowerFaces
    BY <1>2, DelayedIsKnown DEF SendDelayedData
  <2>2. sent' = <<ToLink(n, w.face, DataDest(w.dest), w.packet)>> /\ pit' = pit
    BY <1>2 DEF SendDelayedData, ForwardDataToRemote, pitVars
  <2> HIDE DEF w
  <2>3. /\ \A k \in DOMAIN sent' :
              sent'[k].node = n /\ sent'[k].packet \in DataPackets
        /\ \A f \in UpperFaces : \A nm : AnswersTo(f, nm) = {}
    BY <2>1, <2>2, OnePacket, FacesDiffer
  <2>4. \A f, nm : AppWaits(n, f, nm)' <=> AppWaits(n, f, nm)
    BY <2>2 DEF AppWaits
  <2> QED BY <2>2, <2>3, <2>4 DEF Accounted
<1> QED BY <1>1, <1>2
(* A check of the PIT: those whose Interest timed out had one of that name.  *)
LEMMA PitTimerAccounted ==
    ASSUME FwdOK, FwdNames, NEW n \in Nodes, PitTimerEvent(n)
    PROVE  Accounted(n, {})
<1> DEFINE late == {i \in DOMAIN pit[n] \ PitUnexpired(n) : pit[n][i].face \in UpperFaces}
           returned == Retain(pit[n], late)
           left == PitUnexpired(n)
<1>1. /\ pit \in [Nodes -> Seq(PitEntry)] /\ pit[n] \in Seq(PitEntry)
      /\ PitUnique(pit[n])
  BY DEF FwdOK, PitInv, PitTypeOK, FwdNames, HostNames
<1>2. /\ late \in SUBSET DOMAIN pit[n] /\ left \in SUBSET DOMAIN pit[n]
      /\ \A i \in late : pit[n][i].face \in UpperFaces /\ i \notin left
  BY DEF PitUnexpired
<1>3. sent' = [k \in DOMAIN returned |-> ToApp(n, returned[k].face, Timeout(returned[k].interest))]
  BY DEF PitTimerEvent, TimedOutForApps
<1>4. PitCheckTimeout(n)
  BY DEF PitTimerEvent
<1>5. pit'[n] = Retain(pit[n], left)
  BY <1>1, <1>4 DEF PitCheckTimeout
<1>6. /\ \A m \in Nodes : m # n => pit'[m] = pit[m]
      /\ \A f, name : AppWaits(n, f, name)' => AppWaits(n, f, name)
  BY <1>4, NobodyBegins
<1>7. /\ PitUnique(returned)
      /\ \A k \in DOMAIN returned : \E i \in late : returned[k] = pit[n][i]
  BY <1>1, <1>2, RetainKeepsUnique
<1>8. \A k \in DOMAIN pit'[n] : \E i \in left : pit'[n][k] = pit[n][i]
  BY <1>1, <1>2, <1>5, RetainKeepsUnique
<1> HIDE DEF late, left, returned
<1>9. \A k \in DOMAIN sent' :
         /\ k \in DOMAIN returned
         /\ sent'[k].node = n /\ sent'[k].face = returned[k].face
         /\ sent'[k].packet.name = returned[k].interest.name
  <2> SUFFICES ASSUME NEW k \in DOMAIN sent'
               PROVE  /\ k \in DOMAIN returned
                      /\ sent'[k].node = n /\ sent'[k].face = returned[k].face
                      /\ sent'[k].packet.name = returned[k].interest.name
    OBVIOUS
  <2>1. k \in DOMAIN returned
    BY <1>3
  <2>2. returned[k].interest \in Interests
    <3>1. \A i \in late : pit[n][i] \in PitEntry
      BY <1>1, <1>2, PitHost DEF FwdOK
    <3> QED BY <1>7, <2>1, <3>1 DEF PitEntry
  <2>3. Timeout(returned[k].interest).name = returned[k].interest.name
    BY <2>2, PacketsAssumption DEF Timeout
  <2>4. sent'[k] = ToApp(n, returned[k].face, Timeout(returned[k].interest))
    BY <1>3, <2>1
  <2> QED BY <2>1, <2>3, <2>4 DEF ToApp, ToLink
<1>10. \A k \in DOMAIN sent' : sent'[k].face \in UpperFaces
  BY <1>2, <1>7, <1>9
<1>11. \A f, name : \A k, l \in AnswersTo(f, name) : k = l
  BY <1>7, <1>9 DEF AnswersTo, PitUnique
<1>12. ASSUME NEW f, NEW name, NEW k \in AnswersTo(f, name)
       PROVE  AppWaits(n, f, name) /\ ~ AppWaits(n, f, name)'
  <2>1. k \in DOMAIN returned /\ returned[k].face = f /\ returned[k].interest.name = name
    BY <1>9 DEF AnswersTo
  <2>2. PICK i \in late : returned[k] = pit[n][i]
    BY <1>7, <2>1
  <2>3. AppWaits(n, f, name)
    BY <1>2, <2>1, <2>2 DEF AppWaits
  <2>4. \A j \in DOMAIN pit[n] : pit[n][j].interest.name = name => j = i
    BY <1>1, <1>2, <2>1, <2>2 DEF PitUnique
  <2>5. \A l \in DOMAIN pit'[n] : pit'[n][l].interest.name # name
    BY <1>2, <1>8, <2>2, <2>4
  <2> QED BY <2>3, <2>5 DEF AppWaits
<1> QED BY <1>6, <1>9, <1>10, <1>11, <1>12, FacesDiffer DEF Accounted

LEMMA OtherEventsAccounted ==
    ASSUME NEW n \in Nodes,
           \/ \E name : DropWhileWaiting(n, name)
           \/ \E prefix, face : RegisterPrefix(n, prefix, face)
           \/ FibTimerEvent(n) \/ CsTimerEvent(n)
    PROVE  Accounted(n, {})
<1>1. Silent /\ UNCHANGED pitVars
  BY DEF DropWhileWaiting, RegisterPrefix, FibTimerEvent, CsTimerEvent
<1> QED BY <1>1, QuietEvent
-----------------------------------------------------------------------------
(* What a host sends becomes frames, Interests for producers and answers.   *)

LEMMA QueuedOK ==
    ASSUME FwdOK, queue \in [Nodes -> Seq(Frame)], NEW n \in Nodes,
           sent' \in Seq(Transmission), NEW asks, Accounted(n, asks), Queued(n)
    PROVE  queue' \in [Nodes -> Seq(Frame)]
<1> DEFINE low == {k \in DOMAIN sent' : sent'[k].face \in LowerFaces}
           down == Retain(sent', low)
           frames == [k \in DOMAIN down |-> ToFrame(down[k])]
<1>1. /\ queue' = [queue EXCEPT ![n] = queue[n] \o frames]
      /\ now + MacDelay \in Nat /\ 0 \in 0..MaxRepeats
  BY NetworkAssumption DEF Queued, FwdOK, PitInv, PitTypeOK
<1>2. /\ low \in SUBSET DOMAIN sent'
      /\ \A k \in low : /\ sent'[k] \in Transmission
                        /\ sent'[k].face \in LowerFaces
                        /\ sent'[k].packet \in Interests \cup DataPackets
  BY LenProperties, ElementOfSeq DEF Accounted
<1>3. /\ down \in Seq(Transmission)
      /\ \A k \in DOMAIN down : \E i \in low : down[k] = sent'[i]
  BY <1>2, RetainProperties
<1> HIDE DEF low, down
<1>4. \A k \in DOMAIN down : ToFrame(down[k]) \in Frame
  BY <1>1, <1>2, <1>3 DEF ToFrame, Frame, Transmission
<1>5. frames \in Seq(Frame)
  BY <1>3, <1>4
<1> HIDE DEF frames
<1>6. queue[n] \o frames \in Seq(Frame)
  BY <1>5, ConcatProperties
<1> QED BY <1>1, <1>6

LEMMA HandedUpOK ==
    ASSUME handed \in [Producers -> Seq(Interests)], NEW n \in Nodes,
           sent' \in Seq(Transmission), HandedUp(n)
    PROVE  handed' \in [Producers -> Seq(Interests)]
<1> SUFFICES ASSUME NEW p \in Producers PROVE handed'[p] \in Seq(Interests)
  BY DEF HandedUp
<1> DEFINE theirs == {k \in DOMAIN sent' : /\ p = [node |-> n, face |-> sent'[k].face]
                                           /\ sent'[k].packet.type = "interest"}
           mine == Retain(sent', theirs)
           packets == [k \in DOMAIN mine |-> mine[k].packet]
<1>1. handed'[p] = handed[p] \o packets
  BY DEF HandedUp
<1>2. \A i \in Interests : Timeout(i).type = "timeout"
  BY PacketsAssumption DEF Timeout
<1>3. \A d \in DataPackets : d.type = "data"
  BY PacketsAssumption
<1>4. /\ theirs \in SUBSET DOMAIN sent'
      /\ \A k \in theirs : sent'[k] \in Transmission /\ sent'[k].packet.type = "interest"
  BY LenProperties, ElementOfSeq
<1>5. \A k \in theirs : sent'[k].packet \in Interests
  BY <1>2, <1>3, <1>4 DEF Transmission
<1>6. /\ mine \in Seq(Transmission)
      /\ \A k \in DOMAIN mine : \E i \in theirs : mine[k] = sent'[i]
  BY <1>4, RetainProperties
<1> HIDE DEF theirs, mine
<1>7. \A k \in DOMAIN mine : mine[k].packet \in Interests
  BY <1>5, <1>6
<1>8. packets \in Seq(Interests)
  BY <1>6, <1>7
<1> HIDE DEF packets
<1> QED BY <1>1, <1>8, ConcatProperties
(* The host of a request holds one Interest of that name, or none.           *)
LEMMA OneOutstanding ==
    ASSUME FwdNames, NEW r \in Requests
    PROVE  Outstanding(r) =
              IF AppWaits(r.who.node, r.who.face, r.name) THEN 1 ELSE 0
<1> DEFINE n == r.who.node
           held == {i \in DOMAIN pit[n] : pit[n][i].face = r.who.face
                                          /\ pit[n][i].interest.name = r.name}
<1>1. n \in Nodes
  BY NetworkAssumption DEF Requests
<1>2. Outstanding(r) = Cardinality(held)
  BY DEF Outstanding
<1>3. PitUnique(pit[n])
  BY <1>1 DEF FwdNames, HostNames
<1>4. AppWaits(n, r.who.face, r.name) <=> held # {}
  BY DEF AppWaits
<1>5. \A i, j \in held : i = j
  BY <1>3 DEF PitUnique
<1> HIDE DEF held, n
<1>6. CASE held = {}
  BY <1>2, <1>4, <1>6, FS_EmptySet DEF n
<1>7. CASE held # {}
  <2>1. \E i : held = {i}
    BY <1>5, <1>7
  <2>2. Cardinality(held) = 1
    BY <2>1, FS_Singleton
  <2> QED BY <1>2, <1>4, <1>7, <2>2 DEF n
<1> QED BY <1>6, <1>7

(* A packet for an application is Data or its Interest back, and at most one *)
(* of an event is of that name.                                              *)
LEMMA ToldOK ==
    ASSUME CountsOK, NEW n \in Nodes, NEW asks, Accounted(n, asks), Told(n),
           NEW r \in Requests
    PROVE  /\ told' \in [Requests -> [Outcomes -> Nat]]
           /\ told'[r]["data"] + told'[r]["timeout"] <=
                 told[r]["data"] + told[r]["timeout"] + 1
           /\ \/ r.who.node # n
              \/ AnswersTo(r.who.face, r.name) = {}
              => told'[r] = told[r]
<1> DEFINE About(q, o) ==
              {k \in DOMAIN sent' : /\ q = [who |-> [node |-> n, face |-> sent'[k].face],
                                            name |-> sent'[k].packet.name]
                                    /\ sent'[k].packet.type = o}
<1>1. told' = [q \in Requests |-> [o \in Outcomes |->
                   told[q][o] + Cardinality(About(q, o))]]
  BY DEF Told
<1>2. ASSUME NEW q \in Requests, NEW o \in Outcomes
      PROVE  /\ About(q, o) \subseteq AnswersTo(q.who.face, q.name)
             /\ q.who.node # n => About(q, o) = {}
  BY <1>2 DEF AnswersTo
<1>3. \A q \in Requests : \A k, l \in AnswersTo(q.who.face, q.name) : k = l
  BY NetworkAssumption DEF Accounted, Requests
<1>4. \A q \in Requests : About(q, "data") \cap About(q, "timeout") = {}
  OBVIOUS
<1> HIDE DEF About
<1>5. ASSUME NEW q \in Requests, NEW o \in Outcomes
      PROVE  /\ Cardinality(About(q, o)) \in {0, 1}
             /\ Cardinality(About(q, o)) = 0 <=> About(q, o) = {}
  <2>1. \A k, l \in About(q, o) : k = l
    BY <1>2, <1>3, <1>5
  <2> DEFINE these == About(q, o)
  <2>2. \A k, l \in these : k = l
    BY <2>1
  <2> HIDE DEF these
  <2>3. ASSUME these # {} PROVE \E k : these = {k}
    <3>1. PICK k : k \in these
      BY <2>3
    <3>2. these = {k}
      BY <2>2, <3>1
    <3> QED BY <3>2
  <2>4. Cardinality(these) \in {0, 1} /\ (Cardinality(these) = 0 <=> these = {})
    BY <2>3, FS_EmptySet, FS_Singleton
  <2> QED BY <2>4 DEF these
<1>6. told' \in [Requests -> [Outcomes -> Nat]]
  <2> SUFFICES ASSUME NEW q \in Requests, NEW o \in Outcomes
               PROVE  told[q][o] + Cardinality(About(q, o)) \in Nat
    BY <1>1
  <2>1. told[q][o] \in Nat
    BY DEF CountsOK
  <2> QED BY <1>5, <2>1
<1>7. "data" \in Outcomes /\ "timeout" \in Outcomes
  BY DEF Outcomes
<1>8. /\ told'[r]["data"] = told[r]["data"] + Cardinality(About(r, "data"))
      /\ told'[r]["timeout"] = told[r]["timeout"] + Cardinality(About(r, "timeout"))
      /\ told[r]["data"] \in Nat /\ told[r]["timeout"] \in Nat
  BY <1>1, <1>7 DEF CountsOK
<1>9. Cardinality(About(r, "data")) = 0 \/ Cardinality(About(r, "timeout")) = 0
  <2>1. About(r, "data") = {} \/ About(r, "timeout") = {}
    BY <1>2, <1>3, <1>4, <1>7
  <2> QED BY <1>5, <1>7, <2>1
<1>10. ASSUME r.who.node # n \/ AnswersTo(r.who.face, r.name) = {}
       PROVE  told'[r] = told[r]
  <2>1. \A o \in Outcomes : Cardinality(About(r, o)) = 0
    BY <1>2, <1>5, <1>10
  <2>2. told[r] \in [Outcomes -> Nat] /\ told'[r] \in [Outcomes -> Nat]
    BY <1>6 DEF CountsOK
  <2>3. \A o \in Outcomes : told'[r][o] = told[r][o]
    BY <1>1, <2>1, <2>2
  <2> QED BY <2>2, <2>3
<1>11. /\ Cardinality(About(r, "data")) \in {0, 1}
       /\ Cardinality(About(r, "timeout")) \in {0, 1}
  BY <1>5, <1>7
<1> QED BY <1>6, <1>8, <1>9, <1>10, <1>11
(* An event of the forwarder of host n keeps links and counts in order.      *)
LinksSoFar ==
    /\ registrations' \subseteq registrations
    /\ answers' \in [Producers -> Seq([packet : DataPackets, at : Nat])]
    /\ arriving' \in [Nodes -> Seq(Arrival)]
    /\ \A m \in Nodes : arriving'[m] \in Seq(HeardBy(m))

AsksCounted(n, asks) ==
    /\ asked' \in [Requests -> 0..MaxAsks]
    /\ \A r \in Requests :
          /\ asked[r] <= asked'[r]
          /\ r.who.node = n /\ <<r.who.face, r.name>> \in asks =>
                asked'[r] = asked[r] + 1

LEMMA HostEventLinks ==
    ASSUME NetOK, NEW n \in Nodes, NEW asks, sent' \in Seq(Transmission),
           Accounted(n, asks), Dispatch(n), LinksSoFar
    PROVE  LinksOK'
<1>1. queue' \in [Nodes -> Seq(Frame)]
  BY QueuedOK DEF NetOK, LinksOK, Dispatch
<1>2. handed' \in [Producers -> Seq(Interests)]
  BY HandedUpOK DEF NetOK, LinksOK, ProducerTypeOK, Dispatch
<1>3. ProducerTypeOK'
  BY <1>2 DEF LinksSoFar, NetOK, LinksOK, ProducerTypeOK
<1>4. \A m : HeardBy(m)' = HeardBy(m)
  BY DEF HeardBy, Arrival, Neighbours
<1> QED BY <1>1, <1>3, <1>4 DEF LinksOK, LinksSoFar

OneEach ==
    \A r \in Requests :
        Outstanding(r) = IF AppWaits(r.who.node, r.who.face, r.name) THEN 1 ELSE 0

LEMMA NamesOneEach == FwdNames => OneEach
  BY OneOutstanding DEF OneEach

LEMMA HostEventCounts ==
    ASSUME NetOK, FwdNames', NoAnswerUnasked, NEW n \in Nodes, NEW asks,
           Accounted(n, asks), Dispatch(n), AsksCounted(n, asks)
    PROVE  CountsOK' /\ NoAnswerUnasked'
<1>1. CountsOK /\ FwdNames /\ Told(n)
  BY DEF NetOK, Dispatch
<1>0. OneEach /\ OneEach'
  BY <1>1, NamesOneEach, PTL
<1>2. ASSUME NEW r \in Requests
      PROVE  /\ told' \in [Requests -> [Outcomes -> Nat]]
             /\ told'[r]["data"] + told'[r]["timeout"] + Outstanding(r)' <= asked'[r]
  <2> DEFINE m == r.who.node
             face == r.who.face
             name == r.name
  <2>1. m \in Nodes /\ face \in UpperFaces /\ name \in Names
    BY NetworkAssumption DEF Requests
  <2>2. /\ told' \in [Requests -> [Outcomes -> Nat]]
        /\ told'[r]["data"] + told'[r]["timeout"] <=
              told[r]["data"] + told[r]["timeout"] + 1
        /\ m # n \/ AnswersTo(face, name) = {} => told'[r] = told[r]
    BY <1>1, ToldOK
  <2>3. /\ Outstanding(r) = IF AppWaits(m, face, name) THEN 1 ELSE 0
        /\ Outstanding(r)' = IF AppWaits(m, face, name)' THEN 1 ELSE 0
    BY <1>0 DEF OneEach
  <2>4. /\ told[r]["data"] \in Nat /\ told[r]["timeout"] \in Nat
        /\ told'[r]["data"] \in Nat /\ told'[r]["timeout"] \in Nat
        /\ asked[r] \in Nat /\ asked'[r] \in Nat /\ asked[r] <= asked'[r]
    <3>1. /\ told[r] \in [Outcomes -> Nat] /\ told'[r] \in [Outcomes -> Nat]
          /\ asked[r] \in 0..MaxAsks /\ asked'[r] \in 0..MaxAsks
          /\ asked[r] <= asked'[r]
      BY <1>1, <2>2 DEF CountsOK, AsksCounted
    <3>2. "data" \in Outcomes /\ "timeout" \in Outcomes
      BY DEF Outcomes
    <3>3. \A k \in 0..MaxAsks : k \in Nat
      BY NetworkAssumption
    <3> HIDE DEF m, face, name
    <3> QED BY <3>1, <3>2, <3>3
  <2>5. told[r]["data"] + told[r]["timeout"] + Outstanding(r) <= asked[r]
    BY DEF NoAnswerUnasked
  <2>6. CASE m # n
    <3>1. AppWaits(m, face, name)' <=> AppWaits(m, face, name)
      BY <2>1, <2>6 DEF Accounted, AppWaits
    <3> QED BY <2>2, <2>3, <2>4, <2>5, <2>6, <3>1
  <2>7. CASE m = n /\ <<face, name>> \in asks
    <3>1. asked'[r] = asked[r] + 1
      BY <2>7 DEF AsksCounted
    <3>2. AnswersTo(face, name) # {} /\ AppWaits(m, face, name)' =>
             AppWaits(m, face, name)
      BY <2>1, <2>7 DEF Accounted
    <3> HIDE DEF m, face, name
    <3>3. CASE AnswersTo(face, name) = {}
      BY <2>2, <2>3, <2>4, <2>5, <3>1, <3>3
    <3>4. CASE AnswersTo(face, name) # {}
      BY <2>2, <2>3, <2>4, <2>5, <3>1, <3>2, <3>4
    <3> QED BY <3>3, <3>4
  <2>8. CASE m = n /\ <<face, name>> \notin asks
    <3>1. /\ AppWaits(m, face, name)' => AppWaits(m, face, name)
          /\ AnswersTo(face, name) # {} =>
                AppWaits(m, face, name) /\ ~ AppWaits(m, face, name)'
      BY <2>1, <2>8 DEF Accounted
    <3> HIDE DEF m, face, name
    <3>2. CASE AnswersTo(face, name) = {}
      BY <2>2, <2>3, <2>4, <2>5, <3>1, <3>2
    <3>3. CASE AnswersTo(face, name) # {}
      BY <2>2, <2>3, <2>4, <2>5, <3>1, <3>3
    <3> QED BY <3>2, <3>3
  <2> QED BY <2>2, <2>6, <2>7, <2>8
<1>3. NoAnswerUnasked'
  BY <1>2 DEF NoAnswerUnasked, Requests
<1>4. told' \in [Requests -> [Outcomes -> Nat]]
  <2>1. CASE Requests = {}
    BY <2>1 DEF Dispatch, Told
  <2>2. CASE Requests # {}
    BY <1>2, <2>2
  <2> QED BY <2>1, <2>2
<1>5. CountsOK'
  BY <1>4 DEF CountsOK, AsksCounted, Requests, Outcomes
<1> QED BY <1>3, <1>5
HostOK(n, asks) == LinksSoFar /\ AsksCounted(n, asks) /\ Accounted(n, asks)

LEMMA HostEventOK ==
    ASSUME NetOK, NoAnswerUnasked, FwdOK', FwdNames', sent' \in Seq(Transmission),
           NEW n \in Nodes, NEW asks, HostOK(n, asks), Dispatch(n)
    PROVE  NetOK' /\ NoAnswerUnasked'
  BY HostEventLinks, HostEventCounts DEF HostOK, NetOK

(* Nobody asks, and what is under way to the forwarder stays.                *)
LEMMA NobodyAsks ==
    ASSUME CountsOK, asked' = asked, NEW n PROVE AsksCounted(n, {})
  BY NetworkAssumption DEF AsksCounted, CountsOK

LEMMA AskOK ==
    ASSUME NetOK, NEW c \in Consumers, Ask(c)
    PROVE  c.node \in Nodes /\ \E asks : HostOK(c.node, asks)
<1>1. c.node \in Nodes /\ c.face \in UpperFaces
      /\ c = [node |-> c.node, face |-> c.face]
  BY NetworkAssumption
<1>2. PICK i \in Wanted :
         LET r == [who |-> c, name |-> i.name] IN
         /\ asked[r] < MaxAsks
         /\ ProcessHLInterest(c.node, i, c.face) \/ DropWhileWaiting(c.node, i.name)
         /\ asked' = [asked EXCEPT ![r] = @ + 1]
  BY DEF Ask
<1> DEFINE r == [who |-> c, name |-> i.name]
           asks == {<<c.face, i.name>>}
<1>3. i \in Interests /\ i.name \in Names
  BY NetworkAssumption, PacketsAssumption
<1>4. r \in Requests /\ r.who = c /\ r.name = i.name
  BY <1>3 DEF Requests
<1>5. Accounted(c.node, asks)
  <2>1. CASE ProcessHLInterest(c.node, i, c.face)
    BY <1>1, <1>3, <2>1, ProcessHLInterestAccounted DEF NetOK
  <2>2. CASE DropWhileWaiting(c.node, i.name)
    <3>1. Accounted(c.node, {})
      BY <1>1, <2>2, OtherEventsAccounted
    <3> QED BY <3>1 DEF Accounted
  <2> QED BY <1>2, <2>1, <2>2
<1>6. asked \in [Requests -> 0..MaxAsks] /\ MaxAsks \in Nat
  BY NetworkAssumption DEF NetOK, CountsOK
<1>7. asked[r] < MaxAsks /\ asked' = [asked EXCEPT ![r] = @ + 1]
  BY <1>2
<1>8. ASSUME NEW q \in Requests, q.who.node = c.node,
             <<q.who.face, q.name>> \in asks
      PROVE  q = r
  BY <1>1, <1>8, NetworkAssumption DEF Requests
<1> HIDE DEF r
<1>9. /\ asked' \in [Requests -> 0..MaxAsks]
      /\ asked'[r] = asked[r] + 1
      /\ \A q \in Requests : asked[q] <= asked'[q]
  BY <1>4, <1>6, <1>7
<1>10. AsksCounted(c.node, asks)
  BY <1>8, <1>9 DEF AsksCounted
<1>11. LinksSoFar
  BY DEF LinksSoFar, Ask, NetOK, LinksOK, ProducerTypeOK
<1> QED BY <1>1, <1>5, <1>10, <1>11 DEF HostOK

LEMMA ReceiveOK ==
    ASSUME NetOK, NEW n \in Nodes, Receive(n) PROVE HostOK(n, {})
<1> DEFINE a == Head(arriving[n])
<1>1. arriving[n] # <<>> /\ asked' = asked
      /\ arriving' = [arriving EXCEPT ![n] = Tail(arriving[n])]
  BY DEF Receive
<1>2. \/ a.packet.type = "interest" /\ ProcessLLInterest(n, a.packet, a.face, a.src)
      \/ a.packet.type = "data" /\ ProcessLLData(n, a.packet, a.face, a.src)
      \/ DropWhileWaiting(n, a.packet.name)
  BY DEF Receive
<1>3. /\ a.face \in LowerFaces /\ a.src \in Neighbours(n)
      /\ a.packet.type = "interest" => a.packet \in Interests
      /\ a.packet.type = "data" => a.packet \in DataPackets
  BY <1>1, ArrivalsAreHeard DEF NetOK
<1> HIDE DEF a
<1>4. a.src \in Macs
  BY <1>3 DEF Neighbours
<1>5. Accounted(n, {})
  BY <1>2, <1>3, <1>4, ProcessLLInterestAccounted, ProcessDataAccounted,
     OtherEventsAccounted DEF NetOK
<1>6. LinksSoFar
  <2>1. /\ arriving \in [Nodes -> Seq(Arrival)]
        /\ \A m \in Nodes : arriving[m] \in Seq(HeardBy(m))
    BY DEF NetOK, LinksOK
  <2>2. Tail(arriving[n]) \in Seq(Arrival) /\ Tail(arriving[n]) \in Seq(HeardBy(n))
    BY <1>1, <2>1, HeadTailProperties
  <2>3. /\ arriving' \in [Nodes -> Seq(Arrival)]
        /\ \A m \in Nodes : arriving'[m] \in Seq(HeardBy(m))
    BY <1>1, <2>1, <2>2
  <2> QED BY <2>3 DEF LinksSoFar, Receive, NetOK, LinksOK, ProducerTypeOK
<1> QED BY <1>1, <1>5, <1>6, NobodyAsks DEF HostOK, NetOK

LEMMA RegisterOK ==
    ASSUME NetOK, NEW p \in Producers, Register(p) PROVE HostOK(p.node, {})
<1>1. Accounted(p.node, {})
  BY ProducerAssumption, OtherEventsAccounted DEF Register
<1>2. LinksSoFar
  BY DEF LinksSoFar, Register, RegistrationArrives, NetOK, LinksOK, ProducerTypeOK
<1>3. asked' = asked
  BY DEF Register
<1> QED BY <1>1, <1>2, <1>3, NobodyAsks DEF HostOK, NetOK

LEMMA SendDataOK ==
    ASSUME NetOK, NEW p \in Producers, SendData(p) PROVE HostOK(p.node, {})
<1> DEFINE d == Head(answers[p]).packet
<1>1. /\ answers[p] # <<>> /\ answers[p] \in Seq([packet : DataPackets, at : Nat])
      /\ answers' = [answers EXCEPT ![p] = Tail(answers[p])]
  BY DEF SendData, AnswerArrives, NetOK, LinksOK, ProducerTypeOK
<1>2. /\ Head(answers[p]) \in [packet : DataPackets, at : Nat]
      /\ Tail(answers[p]) \in Seq([packet : DataPackets, at : Nat])
  BY <1>1, HeadTailProperties
<1>3. d \in DataPackets /\ p.node \in Nodes
  BY <1>2, ProducerAssumption
<1>4. ProcessHLData(p.node, d) \/ DropWhileWaiting(p.node, d.name)
  BY DEF SendData
<1> HIDE DEF d
<1>5. Accounted(p.node, {})
  BY <1>3, <1>4, ProcessDataAccounted, OtherEventsAccounted DEF NetOK
<1>6. LinksSoFar
  BY <1>1, <1>2 DEF LinksSoFar, SendData, NetOK, LinksOK, ProducerTypeOK
<1>7. asked' = asked
  BY DEF SendData
<1> QED BY <1>5, <1>6, <1>7, NobodyAsks DEF HostOK, NetOK

LEMMA SelfMessageOK ==
    ASSUME NetOK, NEW n \in Nodes, SelfMessage(n) PROVE HostOK(n, {})
<1>1. Accounted(n, {})
  BY SendDelayedAccounted, PitTimerAccounted, OtherEventsAccounted
     DEF SelfMessage, NetOK
<1>2. LinksSoFar
  BY DEF LinksSoFar, SelfMessage, NetOK, LinksOK, ProducerTypeOK
<1>3. asked' = asked
  BY DEF SelfMessage
<1> QED BY <1>1, <1>2, <1>3, NobodyAsks DEF HostOK, NetOK
-----------------------------------------------------------------------------
(* A frame arrives at hosts that hear its sender, never at the sender.       *)
LEMMA TransmitOK ==
    ASSUME NetOK, NEW n \in Nodes, Transmit(n) PROVE LinksOK'
<1> DEFINE frame == Head(queue[n])
<1>1. queue[n] # <<>> /\ queue \in [Nodes -> Seq(Frame)] /\ queue[n] \in Seq(Frame)
  BY DEF Transmit, NetOK, LinksOK
<1>2. frame \in Frame /\ Tail(queue[n]) \in Seq(Frame)
  BY <1>1, HeadTailProperties
<1>3. PICK hosts \in Receivers(n, frame) :
         /\ arriving' = [m \in Nodes |->
                IF m \in hosts
                THEN Append(arriving[m], [face |-> frame.face, src |-> MacOf[n],
                                          packet |-> frame.packet])
                ELSE arriving[m]]
         /\ \/ queue' = [queue EXCEPT ![n] = Tail(@)]
            \/ /\ hosts # {} /\ Repeats(frame)
               /\ queue' = [queue EXCEPT ![n] =
                      <<[frame EXCEPT !.repeats = @ + 1]>> \o Tail(@)]
  BY DEF Transmit
<1> DEFINE again == [frame EXCEPT !.repeats = @ + 1]
           a == [face |-> frame.face, src |-> MacOf[n], packet |-> frame.packet]
<1>4. ASSUME Repeats(frame) PROVE again \in Frame
  <2>1. frame.repeats \in 0..MaxRepeats /\ frame.repeats < MaxRepeats
    BY <1>2, <1>4 DEF Repeats, Frame
  <2> HIDE DEF frame
  <2>2. frame.repeats + 1 \in 0..MaxRepeats
    BY <2>1, NetworkAssumption
  <2> QED BY <1>2, <2>2 DEF Frame
<1>5. a \in Arrival /\ a.src = MacOf[n]
  BY <1>2, ForwardingAssumption DEF Frame, Arrival
<1> HIDE DEF frame, a, again
<1>6. queue' \in [Nodes -> Seq(Frame)]
  <2>1. CASE queue' = [queue EXCEPT ![n] = Tail(@)]
    BY <1>1, <1>2, <2>1
  <2>2. CASE /\ Repeats(frame)
             /\ queue' = [queue EXCEPT ![n] = <<again>> \o Tail(@)]
    <3>1. <<again>> \in Seq(Frame)
      BY <1>4, <2>2
    <3>2. <<again>> \o Tail(queue[n]) \in Seq(Frame)
      BY <1>2, <3>1, ConcatProperties
    <3> QED BY <1>1, <2>2, <3>2
  <2> QED BY <1>3, <2>1, <2>2 DEF again
<1>7. ASSUME NEW m \in hosts PROVE m \in Nodes /\ a \in HeardBy(m)
  <2>1. m \in Audience(n, frame)
    BY <1>3 DEF Receivers
  <2>2. m \in Nodes /\ MacOf[n] # MacOf[m]
    BY <2>1, NetworkAssumption DEF Audience
  <2> QED BY <1>5, <2>2, ForwardingAssumption DEF HeardBy, Neighbours
<1>8. ASSUME NEW m \in Nodes
      PROVE  arriving'[m] \in Seq(Arrival) /\ arriving'[m] \in Seq(HeardBy(m))
  <2>1. arriving[m] \in Seq(Arrival) /\ arriving[m] \in Seq(HeardBy(m))
    BY DEF NetOK, LinksOK
  <2>2. arriving'[m] = IF m \in hosts THEN Append(arriving[m], a) ELSE arriving[m]
    BY <1>3 DEF a
  <2> QED BY <1>5, <1>7, <2>1, <2>2, AppendProperties
<1>9. arriving' \in [Nodes -> Seq(Arrival)]
  BY <1>3, <1>8
<1>10. ProducerTypeOK'
  BY DEF Transmit, producerVars, NetOK, LinksOK, ProducerTypeOK
<1>11. \A m : HeardBy(m)' = HeardBy(m)
  BY DEF HeardBy, Arrival, Neighbours
<1> QED BY <1>6, <1>8, <1>9, <1>10, <1>11 DEF LinksOK

(* What a producer answers is Data as the forwarder knows it.                *)
LEMMA ProduceOK ==
    ASSUME NetOK, NEW p \in Producers, Produce(p) PROVE LinksOK'
<1> DEFINE T == [packet : DataPackets, at : Nat]
           x == [packet |-> Answer(p, Head(handed[p])), at |-> now + AnswerDelay]
<1>1. /\ handed[p] # <<>> /\ handed \in [Producers -> Seq(Interests)]
      /\ answers \in [Producers -> Seq(T)] /\ answers[p] \in Seq(T)
      /\ now \in Nat
  BY DEF Produce, ProcessInterest, NetOK, LinksOK, ProducerTypeOK, FwdOK,
         PitInv, PitTypeOK
<1>2. Head(handed[p]) \in Interests /\ Tail(handed[p]) \in Seq(Interests)
  BY <1>1, HeadTailProperties
<1>3. x \in T
  BY <1>1, <1>2, NetworkAssumption, ProducerAssumption DEF Answer
<1>4. answers' = answers \/ answers' = [answers EXCEPT ![p] = Append(answers[p], x)]
  BY DEF Produce, ProcessInterest
<1> HIDE DEF x, T
<1>5. answers' \in [Producers -> Seq(T)]
  <2>1. Append(answers[p], x) \in Seq(T)
    BY <1>1, <1>3, AppendProperties
  <2> QED BY <1>1, <1>4, <2>1
<1>6. handed' \in [Producers -> Seq(Interests)]
  BY <1>1, <1>2 DEF Produce, ProcessInterest
<1>7. ProducerTypeOK'
  BY <1>5, <1>6 DEF Produce, ProcessInterest, NetOK, LinksOK, ProducerTypeOK, T
<1>8. \A m : HeardBy(m)' = HeardBy(m)
  BY DEF HeardBy, Arrival, Neighbours
<1> QED BY <1>7, <1>8 DEF Produce, linkVars, NetOK, LinksOK

(* No forwarder acts: nobody is told anything.                               *)
LEMMA SameCounts ==
    ASSUME CountsOK, NoAnswerUnasked, UNCHANGED consumerVars, pit' = pit
    PROVE  CountsOK' /\ NoAnswerUnasked'
  BY DEF CountsOK, NoAnswerUnasked, consumerVars, Outstanding, Requests, Outcomes

LEMMA NetNextKeepsOK ==
    NetOK /\ NoAnswerUnasked /\ [NetNext]_netVars => NetOK' /\ NoAnswerUnasked'
<1> SUFFICES ASSUME NetOK, NoAnswerUnasked, [NetNext]_netVars
             PROVE  NetOK' /\ NoAnswerUnasked'
  OBVIOUS
<1>1. [FwdNext]_fwdVars
  BY NetStepIsFwdStep
<1>2. FwdOK' /\ FwdNames' /\ sent' \in Seq(Transmission)
  BY <1>1, FwdNextKeepsOK, FwdNextNames, FwdNextOK DEF NetOK, StepOK
<1>3. ASSUME NEW n \in Nodes, Dispatch(n), NEW asks, HostOK(n, asks)
      PROVE  NetOK' /\ NoAnswerUnasked'
  BY <1>2, <1>3, HostEventOK
<1>4. ASSUME NEW c \in Consumers, Ask(c) PROVE NetOK' /\ NoAnswerUnasked'
  BY <1>3, <1>4, AskOK DEF Ask
<1>5. ASSUME NEW n \in Nodes, Receive(n) PROVE NetOK' /\ NoAnswerUnasked'
  BY <1>3, <1>5, ReceiveOK DEF Receive
<1>6. ASSUME NEW p \in Producers, Register(p) PROVE NetOK' /\ NoAnswerUnasked'
  BY <1>3, <1>6, RegisterOK, ProducerAssumption DEF Register
<1>7. ASSUME NEW p \in Producers, SendData(p) PROVE NetOK' /\ NoAnswerUnasked'
  BY <1>3, <1>7, SendDataOK, ProducerAssumption DEF SendData
<1>8. ASSUME NEW n \in Nodes, SelfMessage(n) PROVE NetOK' /\ NoAnswerUnasked'
  BY <1>3, <1>8, SelfMessageOK DEF SelfMessage
<1>9. ASSUME LinksOK', UNCHANGED consumerVars, pit' = pit
      PROVE  NetOK' /\ NoAnswerUnasked'
  BY <1>2, <1>9, SameCounts DEF NetOK
<1>10. ASSUME NEW n \in Nodes, Transmit(n) PROVE NetOK' /\ NoAnswerUnasked'
  BY <1>9, <1>10, TransmitOK DEF Transmit, fwdVars, pitVars
<1>11. ASSUME NEW p \in Producers, Produce(p) PROVE NetOK' /\ NoAnswerUnasked'
  BY <1>9, <1>11, ProduceOK DEF Produce, fwdVars, pitVars
<1>12. CASE NetTick \/ UNCHANGED netVars \/ NetEnd
  <2>1. UNCHANGED <<producerVars, linkVars, consumerVars>> /\ pit' = pit
    BY <1>12 DEF NetTick, FwdTick, NetEnd, netVars, fwdVars, pitVars,
                 linkVars, consumerVars
  <2>2. \A m : HeardBy(m)' = HeardBy(m)
    BY DEF HeardBy, Arrival, Neighbours
  <2>3. LinksOK'
    BY <2>1, <2>2 DEF NetOK, LinksOK, ProducerTypeOK, producerVars, linkVars
  <2> QED BY <1>9, <2>1, <2>3
<1> QED BY <1>4, <1>5, <1>6, <1>7, <1>8, <1>10, <1>11, <1>12 DEF NetNext, NetEvent

LEMMA NetInitNobodyAsked == NetInit => NoAnswerUnasked
<1> SUFFICES ASSUME NetInit, NEW r \in Requests
             PROVE  told[r]["data"] + told[r]["timeout"] + Outstanding(r) <= asked[r]
  BY DEF NoAnswerUnasked
<1>1. FwdNames /\ r.who.node \in Nodes
  BY NetInitOK, NetworkAssumption DEF NetOK, Requests
<1>2. pit[r.who.node] = <<>>
  BY <1>1 DEF NetInit, FwdInit, PitInit
<1>3. ~ AppWaits(r.who.node, r.who.face, r.name)
  BY <1>2 DEF AppWaits
<1>4. Outstanding(r) = 0
  BY <1>1, <1>3, OneOutstanding
<1> QED BY <1>4 DEF NetInit, Outcomes

(* Frames, packets under way and counts are well formed in every network:    *)
(* what one component hands over is what the next one expects.               *)
THEOREM NetTypeCorrect == NetSpec => []NetTypeOK
<1>1. NetOK /\ sent \in Seq(Transmission) => NetTypeOK
  BY DEF NetOK, FwdOK, LinksOK, CountsOK, NetTypeOK, FwdTypeOK, PitInv, FibInv, CsInv
<1>2. NetInit => sent \in Seq(Transmission)
  BY EmptySeq DEF NetInit, FwdInit
<1>3. NetOK /\ sent \in Seq(Transmission) /\ [NetNext]_netVars =>
         (sent \in Seq(Transmission))'
  BY NetStepIsFwdStep, FwdNextOK DEF StepOK, NetOK
<1> QED
  BY NetInitOK, NetInitNobodyAsked, NetNextKeepsOK, <1>1, <1>2, <1>3, PTL DEF NetSpec

(* Each host of a network behaves as a host does among arbitrary neighbours  *)
(* and applications: what is proved of FwdSpec holds in every network.       *)
THEOREM NetHostsAreForwarders == NetSpec => NetImplementsForwarding
<1>1. NetInit => FwdInit
  BY DEF NetInit
<1> QED
  BY NetInitOK, NetInitNobodyAsked, NetNextKeepsOK, NetStepIsFwdStep, <1>1, PTL
     DEF NetSpec, FwdSpec, NetImplementsForwarding

(* No consumer of any network hears of an Interest twice, nor of one that    *)
(* its host still holds: whatever is lost, repeated or cached on the way.    *)
THEOREM NetNoAnswerUnasked == NetSpec => []NoAnswerUnasked
  BY NetInitOK, NetInitNobodyAsked, NetNextKeepsOK, PTL DEF NetSpec
-----------------------------------------------------------------------------
(* The trails of pending Interests.                                          *)

(* The longest time from the making of a PIT entry to the making of the one *)
(* of the next host: the frame in the MAC, then the wait of flooding.       *)
HopTime == MacDelay + MaxDelay

(* When a PIT entry was made.                                               *)
Made(e) == e.expireAt - e.interest.lifetime

(* Host m has seen an Interest for the name since then and would not ask    *)
(* again, because it waits or has the Data; or it was very long ago.        *)
Remembers(m, name, since) ==
    \/ \E i \in DOMAIN pit[m] :
          pit[m][i].interest.name = name /\ Made(pit[m][i]) >= since
    \/ \E i \in DOMAIN cs[m] :
          /\ cs[m][i].data.name = name
          /\ cs[m][i].fresh
          /\ Came(cs[m][i]) >= since
    \/ now > since + TrailTime

(* A host of that address sent an Interest for the name since then.         *)
CameFrom(mac, name, since) ==
    /\ since \in Int /\ since <= now
    /\ \A m \in Nodes : mac = MacOf[m] =>
          m \in Askers /\ (m \in Relays => Remembers(m, name, since))

(* The inductive invariant follows an Interest from the entry of one host,  *)
(* through MAC, receiver and flooding wait, into the entry of the next.     *)
EntryTrail(n, e) ==
    e.face \in LowerFaces =>
        n \in Answerers /\ CameFrom(e.mac, e.interest.name, Made(e) - HopTime)

PitTrails == \A n \in Nodes : \A e \in ToSet(pit[n]) : EntryTrail(n, e)

DelayedTrail(n, w) ==
    w.type = "interest" =>
        n \in Forwarders /\ CameFrom(w.src, w.packet.name, w.at - HopTime)

DelayedTrails == \A n \in Nodes : \A w \in {delayed[n]} : DelayedTrail(n, w)

FrameTrail(n, frame) ==
    frame.packet.type = "interest" =>
        CameFrom(MacOf[n], frame.packet.name, frame.at - MacDelay)

QueueTrails == \A n \in Nodes : \A frame \in ToSet(queue[n]) : FrameTrail(n, frame)

ArrivalTrail(a) ==
    a.packet.type = "interest" => CameFrom(a.src, a.packet.name, now - MacDelay)

ArrivingTrails ==
    Offered => \A n \in Nodes : \A a \in ToSet(arriving[n]) : ArrivalTrail(a)

(* Frames leave in order and, while there is traffic, in time.              *)
QueueTimes ==
    \A n \in Nodes : \A k \in DOMAIN queue[n] :
        /\ Offered => queue[n][k].at >= now
        /\ queue[n][k].at <= now + MacDelay
        /\ \A l \in DOMAIN queue[n] : k <= l => queue[n][k].at <= queue[n][l].at

(* Only producers' registrations lead to applications.                      *)
UpwardRoutes ==
    \A n \in Nodes : \A i \in DOMAIN fib[n] :
        fib[n][i].face \in UpperFaces => n \in Answerers

TrailOK ==
    /\ PitTrails /\ DelayedTrails /\ QueueTrails /\ ArrivingTrails
    /\ QueueTimes /\ UpwardRoutes
-----------------------------------------------------------------------------
(* Arithmetic of the hops.                                                  *)

LEMMA TimesIncreases ==
    ASSUME NEW a \in Nat, NEW b \in Nat, NEW h \in Nat, a <= b
    PROVE  a * h \in Nat /\ a * h <= b * h
<1>1. PICK d \in Nat : b = a + d
  <2>1. b - a \in Nat /\ b = a + (b - a)
    OBVIOUS
  <2> QED BY <2>1
<1>2. b * h = a * h + d * h /\ d * h \in Nat /\ a * h \in Nat
  BY <1>1
<1> QED BY <1>2

(* The constants as the proofs use them.                                    *)
LEMMA HopsFitTrail ==
    ASSUME TrailsAreShort
    PROVE  /\ HopTime \in Nat /\ MacDelay \in Nat /\ MaxDelay \in Nat
           /\ IsFiniteSet(Relays) /\ Cardinality(Relays) \in Nat
           /\ TrailTime \in Nat
           /\ \A j \in Nat : j <= Cardinality(Relays) =>
                 j * HopTime \in Nat /\ j * HopTime <= TrailTime
<1>1. MacDelay \in Nat /\ MaxDelay \in Nat /\ HopTime \in Nat
  BY NetworkAssumption, ForwardingAssumption DEF HopTime
<1>2. IsFiniteSet(Relays) /\ Cardinality(Relays) \in Nat
  BY FS_CardinalityType DEF TrailsAreShort
<1>3. TrailTime = Cardinality(Relays) * HopTime
  BY <1>1, <1>2 DEF TrailTime, HopTime
<1>4. \A j \in Nat : j <= Cardinality(Relays) =>
         j * HopTime \in Nat /\ j * HopTime <= Cardinality(Relays) * HopTime
  BY <1>1, <1>2, TimesIncreases
<1>5. TrailTime \in Nat
  BY <1>1, <1>2, <1>3
<1> QED BY <1>1, <1>2, <1>3, <1>4, <1>5

(* If fewer than k things are spread over k windows, one window is empty.   *)
LEMMA EmptyWindow ==
    ASSUME NEW P, IsFiniteSet(P), NEW k \in Nat, Cardinality(P) < k, NEW In,
           \A x \in P : \A i, j \in 0..(k - 1) : <<x, i>> \in In /\ <<x, j>> \in In => i = j
    PROVE  \E j \in 0..(k - 1) : \A x \in P : <<x, j>> \notin In
<1> SUFFICES ASSUME \A j \in 0..(k - 1) : \E x \in P : <<x, j>> \in In PROVE FALSE
  OBVIOUS
<1> DEFINE f == [j \in 0..(k - 1) |-> CHOOSE x \in P : <<x, j>> \in In]
<1>1. \A j \in 0..(k - 1) : f[j] \in P /\ <<f[j], j>> \in In
  OBVIOUS
<1>2. f \in [0..(k - 1) -> P]
  BY <1>1
<1>3. IsFiniteSet(0..(k - 1)) /\ Cardinality(0..(k - 1)) = k
  <2>1. 0 \in Int /\ k - 1 \in Int
    OBVIOUS
  <2>2. /\ IsFiniteSet(0..(k - 1))
        /\ Cardinality(0..(k - 1)) = IF 0 > k - 1 THEN 0 ELSE k - 1 - 0 + 1
    BY <2>1, FS_Interval
  <2> QED BY <2>2
<1> HIDE DEF f
<1>4. \E i, j \in 0..(k - 1) : i # j /\ f[i] = f[j]
  BY <1>2, <1>3, FS_PigeonHole
<1> QED BY <1>1, <1>4

LEMMA MadeIsInt ==
    ASSUME FwdOK, NEW n \in Nodes, NEW i \in DOMAIN pit[n]
    PROVE  Made(pit[n][i]) \in Int
<1>1. pit[n][i] \in PitEntry
  BY PitHost DEF FwdOK
<1>2. pit[n][i].expireAt \in Nat /\ pit[n][i].interest.lifetime \in Nat
  BY <1>1, PacketsAssumption DEF PitEntry
<1> QED BY <1>2 DEF Made
-----------------------------------------------------------------------------
(* An entry that closes a ring cannot be made.  The hosts of the ring saw   *)
(* the name one after the other, each within a hop of the next; where the   *)
(* distance to the youngest is longer than a hop the ring is broken, or it  *)
(* was a ring before.  Such a gap exists: there are more multiples of a hop *)
(* in the TrailTime than other hosts in the ring.                           *)
LEMMA NoRingThrough ==
    ASSUME NetOK, PitTrails, BreadcrumbsLeadHome, TrailsAreShort,
           NEW n \in Nodes, NEW name \in Names,
           ~ Pending(n, name), ~ Fresh(n, name), n \in Answerers,
           NEW R \in SUBSET Nodes, NEW next \in R,
           CameFrom(MacOf[next], name, now - HopTime),
           \A x \in R \ {n} : \E y \in R : OwesTo(x, name, y)
    PROVE  FALSE
<1> DEFINE H == HopTime
           K == Cardinality(Relays)
           P == {x \in R \ {n} : x \in Relays}
           Entry(x) == {i \in DOMAIN pit[x] : pit[x][i].interest.name = name}
<1>1. /\ FwdOK /\ now \in Nat
      /\ \A x \in Nodes : PitUnique(pit[x]) /\ (Pending(x, name) => ~ Fresh(x, name))
  BY DEF NetOK, FwdOK, PitInv, PitTypeOK, FwdNames, HostNames
<1>2. /\ H \in Nat /\ K \in Nat /\ IsFiniteSet(Relays) /\ TrailTime \in Nat
      /\ \A j \in Nat : j <= K => j * H \in Nat /\ j * H <= TrailTime
  BY HopsFitTrail
<1>3. \A x \in Nodes : \A i, j \in Entry(x) : i = j /\ Made(pit[x][i]) \in Int
  BY <1>1, MadeIsInt DEF PitUnique
\* Hosts of the ring owe Data to hosts that asked for it since then.
<1>4. ASSUME NEW x \in R \ {n}
      PROVE  /\ x \in Answerers /\ Entry(x) # {}
             /\ \E y \in R : OwesTo(x, name, y)
             /\ \A y \in R : OwesTo(x, name, y) =>
                   \E i \in Entry(x) : CameFrom(MacOf[y], name, Made(pit[x][i]) - H)
  <2>1. \A y \in R : OwesTo(x, name, y) =>
           \E i \in Entry(x) : /\ x \in Answerers
                               /\ CameFrom(MacOf[y], name, Made(pit[x][i]) - H)
    BY <1>4 DEF OwesTo, PitTrails, EntryTrail, ToSet
  <2>2. \E y \in R : OwesTo(x, name, y)
    BY <1>4
  <2> QED BY <2>1, <2>2
<1>5. \A y \in R : \A since : CameFrom(MacOf[y], name, since) =>
         y \in Askers /\ (y \in Relays => Remembers(y, name, since))
  BY DEF CameFrom
<1>6. next \in Askers
  BY <1>5
<1> HIDE DEF Entry
\* Without n there would be a ring already.
<1>7. ASSUME NEW S \in SUBSET (R \ {n}), S # {},
             \A x \in S : \E y \in S : OwesTo(x, name, y)
      PROVE  FALSE
  <2>1. S \in (SUBSET Nodes) \ {{}}
    BY <1>7
  <2> QED BY <1>7, <2>1 DEF BreadcrumbsLeadHome
<1>8. CASE n \notin Askers
  <2>1. next \in P
    BY <1>4, <1>6, <1>8 DEF Relays
  <2>2. ASSUME NEW x \in P PROVE \E y \in P : OwesTo(x, name, y)
    <3>1. PICK y \in R : OwesTo(x, name, y)
      BY <1>4, <2>2
    <3>2. y \in Askers
      BY <1>4, <1>5, <2>2, <3>1
    <3>3. y \in P
      BY <1>4, <1>8, <3>2 DEF Relays
    <3> QED BY <3>1, <3>3
  <2> QED BY <1>7, <2>1, <2>2
<1>9. CASE n \in Askers
  <2>1. n \in Relays
    BY <1>9 DEF Relays
  <2>2. IsFiniteSet(P) /\ Cardinality(P) < K
    <3>1. IsFiniteSet(Relays \ {n}) /\ Cardinality(Relays \ {n}) = K - 1
      BY <1>2, <2>1, FS_RemoveElement
    <3>2. P \in SUBSET (Relays \ {n})
      OBVIOUS
    <3>3. IsFiniteSet(P) /\ Cardinality(P) <= K - 1
      BY <3>1, <3>2, FS_Subset
    <3>4. Cardinality(P) \in Nat
      BY <3>3, FS_CardinalityType
    <3> QED BY <1>2, <3>3, <3>4
  <2> DEFINE In == {w \in P \X (0..(K - 1)) : \E i \in Entry(w[1]) :
                      /\ Made(pit[w[1]][i]) >= now - (w[2] + 1) * H
                      /\ Made(pit[w[1]][i]) < now - w[2] * H}
  <2>3. \A x \in P : \A i, j \in 0..(K - 1) : <<x, i>> \in In /\ <<x, j>> \in In => i = j
    <3> SUFFICES ASSUME NEW x \in P, NEW i \in 0..(K - 1), NEW j \in 0..(K - 1),
                        <<x, i>> \in In, <<x, j>> \in In, i < j
                 PROVE  FALSE
      BY <1>2
    <3>1. PICK k \in Entry(x) : Made(pit[x][k]) >= now - (i + 1) * H
      OBVIOUS
    <3>2. PICK l \in Entry(x) : Made(pit[x][l]) < now - j * H
      OBVIOUS
    <3>3. k = l /\ Made(pit[x][k]) \in Int
      BY <1>3
    <3>4. (i + 1) * H \in Nat /\ (i + 1) * H <= j * H /\ j * H \in Nat
      BY <1>2, TimesIncreases
    <3> QED BY <1>1, <3>1, <3>2, <3>3, <3>4
  <2>4. PICK j \in 0..(K - 1) : \A x \in P : <<x, j>> \notin In
    <3> HIDE DEF In, P
    <3> QED BY <1>2, <2>2, <2>3, EmptyWindow
  <2>5. /\ j * H \in Nat /\ (j + 1) * H = j * H + H /\ (j + 1) * H <= TrailTime
        /\ (j + 1) * H \in Nat
    BY <1>2
  <2> DEFINE S == {x \in P : \E i \in Entry(x) : Made(pit[x][i]) >= now - j * H}
  \* One who asked less than a hop earlier is on this side of the gap.
  <2>6. ASSUME NEW y \in R, NEW since \in Int, since >= now - (j + 1) * H,
               CameFrom(MacOf[y], name, since)
        PROVE  y \in S
    <3>1. y \in Askers
      BY <1>5, <2>6
    <3>2. y \in Relays
      BY <1>4, <2>1, <3>1 DEF Relays
    <3>3. Remembers(y, name, since)
      BY <1>5, <2>6, <3>2
    <3>4. ~ (now > since + TrailTime)
      BY <1>1, <1>2, <2>5, <2>6
    <3>5. ~ Fresh(y, name)
      BY <1>1, <1>4 DEF Entry, Pending
    <3>6. PICK i \in DOMAIN pit[y] :
             pit[y][i].interest.name = name /\ Made(pit[y][i]) >= since
      BY <3>3, <3>4, <3>5 DEF Remembers, Fresh
    <3>7. y # n /\ i \in Entry(y)
      BY <3>6 DEF Pending, Entry
    <3>8. y \in P /\ <<y, j>> \notin In /\ Made(pit[y][i]) \in Int
      BY <1>3, <2>4, <3>2, <3>7
    <3>9. Made(pit[y][i]) >= now - (j + 1) * H
      BY <1>1, <2>5, <2>6, <3>6, <3>8
    <3>10. ~ (Made(pit[y][i]) < now - j * H)
      BY <3>7, <3>8, <3>9
    <3>11. Made(pit[y][i]) >= now - j * H
      BY <1>1, <2>5, <3>8, <3>10
    <3> QED BY <3>7, <3>8, <3>11
  <2>7. next \in S
    <3>1. now - H \in Int /\ now - H >= now - (j + 1) * H
      BY <1>1, <1>2, <2>5
    <3> QED BY <2>6, <3>1
  <2>8. ASSUME NEW x \in S PROVE \E y \in S : OwesTo(x, name, y)
    <3>1. PICK y \in R : OwesTo(x, name, y)
      BY <1>4
    <3>2. PICK i \in Entry(x) : CameFrom(MacOf[y], name, Made(pit[x][i]) - H)
      BY <1>4, <3>1
    <3>3. PICK k \in Entry(x) : Made(pit[x][k]) >= now - j * H
      OBVIOUS
    <3>4. k = i /\ Made(pit[x][i]) \in Int
      BY <1>3
    <3>5. /\ Made(pit[x][i]) - H \in Int
          /\ Made(pit[x][i]) - H >= now - (j + 1) * H
      BY <1>1, <1>2, <2>5, <3>3, <3>4
    <3>6. y \in S
      BY <2>6, <3>2, <3>5
    <3> QED BY <3>1, <3>6
  <2>9. S \in SUBSET (R \ {n}) /\ S # {}
    BY <2>7
  <2> QED BY <1>7, <2>8, <2>9
<1> QED BY <1>8, <1>9
-----------------------------------------------------------------------------
(* What a host remembers survives every event of it.                        *)

(* The host now holds fresh Data of that name that has just come.           *)
FreshlyCached(n, name) ==
    \E k \in DOMAIN cs'[n] :
        /\ cs'[n][k].data.name = name
        /\ cs'[n][k].fresh
        /\ Came(cs'[n][k]) = now

(* A PIT entry stays, or is very old, or was answered.                      *)
PitKept(n) ==
    \A i \in DOMAIN pit[n] :
        \/ \E k \in DOMAIN pit'[n] : pit'[n][k] = pit[n][i]
        \/ now > Made(pit[n][i]) + TrailTime
        \/ FreshlyCached(n, pit[n][i].interest.name)

(* Fresh Data stays, or came long ago, or is made fresh once more.          *)
CsKept(n) ==
    \A i \in DOMAIN cs[n] : cs[n][i].fresh =>
        \/ \E k \in DOMAIN cs'[n] : cs'[n][k] = cs[n][i]
        \/ now > Came(cs[n][i]) + TrailTime
        \/ FreshlyCached(n, cs[n][i].data.name)

KeepsMemory(n) ==
    \A name : \A since \in Int :
        since <= now /\ Remembers(n, name, since) => Remembers(n, name, since)'

LEMMA TrailTimeConstant == TrailTime' = TrailTime
  BY DEF TrailTime, Relays, Answerers, Askers

(* The date at which Data came is within reach of the clock's arithmetic.   *)
LEMMA CameIsInt ==
    ASSUME FwdOK, TrailsAreShort, NEW n \in Nodes, NEW i \in DOMAIN cs[n]
    PROVE  /\ Came(cs[n][i]) \in Int
           /\ cs[n][i].staleAt <= now => now > Came(cs[n][i]) + TrailTime
<1>1. /\ cs[n][i] \in CsEntry /\ now \in Nat /\ TrailTime \in Nat
  BY CsHost, HopsFitTrail DEF FwdOK
<1>2. /\ cs[n][i].staleAt \in Nat /\ cs[n][i].data.freshness \in Nat
      /\ cs[n][i].data.freshness > TrailTime
  BY <1>1, PacketsAssumption DEF CsEntry, TrailsAreShort
<1> QED BY <1>1, <1>2 DEF Came

LEMMA MemoryKept ==
    ASSUME FwdOK, TrailsAreShort, NEW n \in Nodes, now' = now, PitKept(n), CsKept(n)
    PROVE  KeepsMemory(n)
<1> SUFFICES ASSUME NEW name, NEW since \in Int, since <= now,
                    Remembers(n, name, since)
             PROVE  Remembers(n, name, since)'
  BY DEF KeepsMemory
<1>1. now \in Nat /\ TrailTime \in Nat
  BY HopsFitTrail DEF FwdOK, PitInv, PitTypeOK
<1>2. ASSUME FreshlyCached(n, name) PROVE Remembers(n, name, since)'
  <2>1. PICK k \in DOMAIN cs'[n] : /\ cs'[n][k].data.name = name
                                   /\ cs'[n][k].fresh
                                   /\ Came(cs'[n][k]) = now
    BY <1>2 DEF FreshlyCached
  <2>2. Came(cs'[n][k]) >= since
    BY <2>1
  <2> QED BY <2>1, <2>2 DEF Remembers, Came
<1>3. ASSUME NEW i \in DOMAIN pit[n], pit[n][i].interest.name = name,
             Made(pit[n][i]) >= since
      PROVE  Remembers(n, name, since)'
  <2>1. CASE now > Made(pit[n][i]) + TrailTime
    <3>1. Made(pit[n][i]) \in Int
      BY MadeIsInt
    <3>2. now > since + TrailTime
      BY <1>1, <1>3, <2>1, <3>1
    <3> QED BY <3>2, TrailTimeConstant DEF Remembers
  <2>2. ASSUME NEW k \in DOMAIN pit'[n], pit'[n][k] = pit[n][i]
        PROVE  Remembers(n, name, since)'
    BY <1>3, <2>2 DEF Remembers, Made
  <2> QED BY <1>2, <1>3, <2>1, <2>2 DEF PitKept
<1>4. ASSUME NEW i \in DOMAIN cs[n], cs[n][i].data.name = name, cs[n][i].fresh,
             Came(cs[n][i]) >= since
      PROVE  Remembers(n, name, since)'
  <2>1. CASE now > Came(cs[n][i]) + TrailTime
    <3>1. Came(cs[n][i]) \in Int
      BY CameIsInt
    <3>2. now > since + TrailTime
      BY <1>1, <1>4, <2>1, <3>1
    <3> QED BY <3>2, TrailTimeConstant DEF Remembers
  <2>2. ASSUME NEW k \in DOMAIN cs'[n], cs'[n][k] = cs[n][i]
        PROVE  Remembers(n, name, since)'
    BY <1>4, <2>2 DEF Remembers, Came
  <2> QED BY <1>2, <1>4, <2>1, <2>2 DEF CsKept
<1>5. CASE now > since + TrailTime
  BY <1>5, TrailTimeConstant DEF Remembers
<1> QED BY <1>3, <1>4, <1>5 DEF Remembers

(* An older date asks for less.                                             *)
LEMMA MemoryIsMonotone ==
    ASSUME FwdOK, TrailsAreShort, NEW m \in Nodes, NEW name,
           NEW since \in Int, NEW older \in Int, older <= since,
           Remembers(m, name, since)
    PROVE  Remembers(m, name, older)
<1>1. now \in Nat /\ TrailTime \in Nat
  BY HopsFitTrail DEF FwdOK, PitInv, PitTypeOK
<1>2. \A i \in DOMAIN pit[m] : Made(pit[m][i]) \in Int
  BY MadeIsInt
<1>3. \A i \in DOMAIN cs[m] : Came(cs[m][i]) \in Int
  BY CameIsInt
<1> QED BY <1>1, <1>2, <1>3 DEF Remembers
-----------------------------------------------------------------------------
(* What the calls of the tables keep.                                       *)

LEMMA SamePitKept == ASSUME NEW n, pit' = pit PROVE PitKept(n)
  BY DEF PitKept

LEMMA SameCsKept == ASSUME NEW n, cs' = cs PROVE CsKept(n)
  BY DEF CsKept

LEMMA PitCreateKeeps ==
    ASSUME FwdOK, NEW n \in Nodes, NEW interest \in Interests, NEW face \in Faces,
           NEW src \in Macs, PitCreate(n, interest, face, src)
    PROVE  /\ PitKept(n)
           /\ \A i \in DOMAIN pit'[n] :
                 \/ \E j \in DOMAIN pit[n] : pit'[n][i] = pit[n][j]
                 \/ /\ pit'[n][i].interest = interest /\ pit'[n][i].face = face
                    /\ pit'[n][i].mac = src /\ Made(pit'[n][i]) = now
           /\ \E i \in DOMAIN pit'[n] :
                 pit'[n][i].interest = interest /\ Made(pit'[n][i]) = now
           /\ \A m \in Nodes : m # n => pit'[m] = pit[m]
<1> DEFINE e == [interest |-> interest, face |-> face, mac |-> src,
                 expireAt |-> now + interest.lifetime]
<1>1. /\ pit[n] \in Seq(PitEntry) /\ now \in Nat
      /\ pit'[n] = Append(pit[n], e) /\ \A m \in Nodes : m # n => pit'[m] = pit[m]
  BY DEF PitCreate, FwdOK, PitInv, PitTypeOK
<1>2. /\ e \in PitEntry /\ e.interest = interest /\ e.face = face /\ e.mac = src
      /\ Made(e) = now
  BY <1>1, PacketsAssumption DEF PitEntry, Made
<1> HIDE DEF e
<1>3. /\ DOMAIN pit'[n] = DOMAIN pit[n] \cup {Len(pit[n]) + 1}
      /\ pit'[n][Len(pit[n]) + 1] = e
      /\ \A i \in DOMAIN pit[n] : pit'[n][i] = pit[n][i]
  BY <1>1, <1>2, PushBack
<1> QED BY <1>1, <1>2, <1>3 DEF PitKept

LEMMA PitRemoveKeeps ==
    ASSUME FwdOK, NEW n \in Nodes, NEW gone, PitRemove(n, gone)
    PROVE  /\ FreshlyCached(n, gone) => PitKept(n)
           /\ \A i \in DOMAIN pit'[n] : \E j \in DOMAIN pit[n] : pit'[n][i] = pit[n][j]
           /\ \A m \in Nodes : m # n => pit'[m] = pit[m]
<1> DEFINE p == PitLookup(n, gone)
           keep == DOMAIN pit[n] \ {p}
<1>1. pit[n] \in Seq(PitEntry)
  BY PitHost DEF FwdOK
<1>2. p # 0 => pit[n][p].interest.name = gone
  BY <1>1, PitLookupFindsFirst
<1>3. CASE p = 0
  <2>1. pit' = pit
    BY <1>3 DEF PitRemove
  <2> QED BY <2>1 DEF PitKept
<1>4. CASE p # 0
  <2>1. pit'[n] = Retain(pit[n], keep) /\ \A m \in Nodes : m # n => pit'[m] = pit[m]
    BY <1>4 DEF PitRemove, Erase, FwdOK, PitInv, PitTypeOK
  <2>2. keep \in SUBSET DOMAIN pit[n]
    OBVIOUS
  <2>3. \A i \in DOMAIN pit[n] : i \in keep \/ pit[n][i].interest.name = gone
    BY <1>2, <1>4
  <2> HIDE DEF keep
  <2>4. /\ \A k \in DOMAIN pit'[n] : \E i \in keep : pit'[n][k] = pit[n][i]
        /\ \A i \in keep : \E k \in DOMAIN pit'[n] : pit'[n][k] = pit[n][i]
    BY <1>1, <2>1, <2>2, RetainProperties
  <2> QED BY <2>1, <2>2, <2>3, <2>4 DEF PitKept
<1> QED BY <1>3, <1>4

LEMMA PitCheckKeeps ==
    ASSUME FwdOK, TrailsAreShort, NEW n \in Nodes, PitCheckTimeout(n)
    PROVE  /\ PitKept(n)
           /\ \A i \in DOMAIN pit'[n] : \E j \in DOMAIN pit[n] : pit'[n][i] = pit[n][j]
           /\ \A m \in Nodes : m # n => pit'[m] = pit[m]
<1> DEFINE keep == PitUnexpired(n)
<1>1. /\ pit[n] \in Seq(PitEntry) /\ now \in Nat
      /\ \A i \in DOMAIN pit[n] : pit[n][i] \in PitEntry
  BY PitHost DEF FwdOK
<1>2. keep \in SUBSET DOMAIN pit[n]
  BY DEF PitUnexpired
<1>3. pit'[n] = Retain(pit[n], keep) /\ \A m \in Nodes : m # n => pit'[m] = pit[m]
  BY DEF PitCheckTimeout, FwdOK, PitInv, PitTypeOK
<1>4. ASSUME NEW i \in DOMAIN pit[n], i \notin keep
      PROVE  now > Made(pit[n][i]) + TrailTime
  <2>1. /\ pit[n][i].expireAt \in Nat /\ pit[n][i].interest \in Interests
        /\ pit[n][i].interest.lifetime \in Nat
    BY <1>1, PacketsAssumption DEF PitEntry
  <2>2. pit[n][i].expireAt <= now
    BY <1>1, <1>4, <2>1 DEF PitUnexpired
  <2>3. pit[n][i].interest.lifetime > TrailTime /\ TrailTime \in Nat
    BY <2>1, HopsFitTrail DEF TrailsAreShort
  <2> QED BY <1>1, <2>1, <2>2, <2>3 DEF Made
<1> HIDE DEF keep
<1>5. /\ \A k \in DOMAIN pit'[n] : \E i \in keep : pit'[n][k] = pit[n][i]
      /\ \A i \in keep : \E k \in DOMAIN pit'[n] : pit'[n][k] = pit[n][i]
  BY <1>1, <1>2, <1>3, RetainProperties
<1> QED BY <1>2, <1>3, <1>4, <1>5 DEF PitKept

(* Data makes its name fresh, and costs another one only if it came long    *)
(* ago: names are distinct, so that the new entry is not in place of any.   *)
LEMMA CsAddKeeps ==
    ASSUME FwdOK, TrailsAreShort, NEW n \in Nodes, n \in Relays, KeepsYoungData(n),
           NEW d \in DataPackets, CsAdd(n, d)
    PROVE  CsKept(n) /\ FreshlyCached(n, d.name)
<1>1. /\ CsInv /\ cs[n] \in Seq(CsEntry) /\ now \in Nat /\ DOMAIN cs[n] = 1..Len(cs[n])
      /\ \A i \in DOMAIN cs[n] : cs[n][i] \in CsEntry
      /\ CsMaxSize[n] # 0
  BY CsHost DEF FwdOK, TrailsAreShort
<1>2. /\ d.freshness \in Nat /\ d.freshness > TrailTime /\ TrailTime \in Nat
      /\ d.freshness > 0
  BY HopsFitTrail, PacketsAssumption DEF TrailsAreShort
<1>3. CASE CsRefresh(n, d)
  <2> DEFINE p == CsPosition(n, d.name)
             e == CsRenewed(cs[n][p], d)
  <2>1. p \in DOMAIN cs[n] /\ cs[n][p].data.name = d.name
    BY <1>1, <1>3, CsPositionFindsFirst DEF CsRefresh
  <2>2. /\ e \in CsEntry /\ e.data = cs[n][p].data /\ e.fresh
        /\ e.staleAt = now + d.freshness
    BY <1>1, <1>2, <2>1, CsEntryFacts
  <2>3. cs'[n] = [cs[n] EXCEPT ![p] = e]
    BY <1>3 DEF CsRefresh, CsInv, CsTypeOK, FwdOK
  <2> HIDE DEF p, e
  <2>4. /\ DOMAIN cs'[n] = DOMAIN cs[n] /\ cs'[n][p] = e
        /\ \A i \in DOMAIN cs[n] : i # p => cs'[n][i] = cs[n][i]
    BY <2>1, <2>3
  <2>5. e.data.freshness = d.freshness
    BY <2>1, <2>2 DEF CsEntry, TrailsAreShort
  <2>6. Came(e) = now
    BY <1>1, <1>2, <2>2, <2>5 DEF Came
  <2>7. FreshlyCached(n, d.name)
    BY <2>1, <2>2, <2>4, <2>6 DEF FreshlyCached
  <2> QED BY <2>1, <2>4, <2>7 DEF CsKept
<1>4. CASE CsInsert(n, d)
  <2> DEFINE e == CsNewEntry(d)
             room == CsRoom(n)
  <2>1. e \in CsEntry /\ e.data = d /\ e.fresh /\ e.staleAt = now + d.freshness
    <3>1. e \in CsEntry /\ e.data = d /\ (~ e.fresh => e.staleAt = 0)
          /\ (e.fresh => e.staleAt = now + d.freshness)
      BY <1>1, CsEntryFacts
    <3>2. e.staleAt = now + d.freshness
      BY <1>2 DEF CsNewEntry
    <3> HIDE DEF e
    <3> QED BY <1>1, <1>2, <3>1, <3>2
  <2>2. cs'[n] = Append(room, e)
    BY <1>4 DEF CsInsert, CsInv, CsTypeOK, FwdOK
  \* The oldest entry may go, the others stay.
  <2>3. /\ room \in Seq(CsEntry)
        /\ \A k \in DOMAIN room : \E i \in DOMAIN cs[n] : room[k] = cs[n][i]
        /\ \A i \in DOMAIN cs[n] : i # 1 => \E k \in DOMAIN room : room[k] = cs[n][i]
        /\ room = cs[n] \/ \A k \in DOMAIN room : k + 1 \in DOMAIN cs[n]
                                                 /\ room[k] = cs[n][k + 1]
    <3>1. CASE room = cs[n]
      BY <1>1, <3>1
    <3>2. CASE room = Tail(cs[n]) /\ CsFull(n)
      <4>1. cs[n] # <<>> /\ Len(cs[n]) \in Nat
        BY <1>1, <3>2, EmptySeq DEF CsFull
      <4>2. /\ room \in Seq(CsEntry) /\ Len(room) = Len(cs[n]) - 1
            /\ \A k \in 1..Len(room) : room[k] = cs[n][k + 1]
        BY <1>1, <3>2, <4>1, HeadTailProperties
      <4>3. DOMAIN room = 1..(Len(cs[n]) - 1)
        BY <4>2, LenProperties
      <4> HIDE DEF room
      <4>4. \A k \in DOMAIN room : k + 1 \in DOMAIN cs[n] /\ room[k] = cs[n][k + 1]
        BY <1>1, <4>1, <4>2, <4>3
      <4>5. \A i \in DOMAIN cs[n] : i # 1 =>
               i - 1 \in DOMAIN room /\ room[i - 1] = cs[n][i]
        BY <1>1, <4>1, <4>2, <4>3
      <4> QED BY <4>2, <4>4, <4>5
    <3> QED BY <3>1, <3>2 DEF CsRoom
  <2> HIDE DEF e, room
  <2>4. /\ DOMAIN cs'[n] = DOMAIN room \cup {Len(room) + 1}
        /\ cs'[n][Len(room) + 1] = e
        /\ \A i \in DOMAIN room : cs'[n][i] = room[i]
    BY <2>1, <2>2, <2>3, PushBack
  <2>5. Came(e) = now /\ e.data.name = d.name
    BY <1>1, <1>2, <2>1 DEF Came
  <2>6. FreshlyCached(n, d.name)
    BY <2>1, <2>4, <2>5 DEF FreshlyCached
  <2>7. ASSUME NEW i \in DOMAIN cs[n], cs[n][i].fresh
        PROVE  \/ \E k \in DOMAIN cs'[n] : cs'[n][k] = cs[n][i]
               \/ now > Came(cs[n][i]) + TrailTime
               \/ FreshlyCached(n, cs[n][i].data.name)
    <3>1. CASE \E k \in DOMAIN room : room[k] = cs[n][i]
      BY <2>4, <3>1
    <3>2. CASE ~ \E k \in DOMAIN room : room[k] = cs[n][i]
      <4>1. i = 1 /\ \A k \in DOMAIN room : k + 1 \in DOMAIN cs[n]
                                             /\ room[k] = cs[n][k + 1]
        BY <2>3, <2>7, <3>2
      <4>2. \A k \in DOMAIN room : room[k].data.name # cs[n][i].data.name
        <5>1. \A k \in DOMAIN room : k + 1 # i
          BY <2>3, <4>1, LenProperties
        <5> QED BY <1>1, <2>7, <4>1, <5>1 DEF CsInv, CsNamesUnique
      <4>3. \/ \E k \in DOMAIN cs'[n] : cs'[n][k].data.name = cs[n][i].data.name
            \/ now > Came(cs[n][i]) + TrailTime
        BY <2>7 DEF KeepsYoungData
      <4>4. ASSUME NEW k \in DOMAIN cs'[n], cs'[n][k].data.name = cs[n][i].data.name
            PROVE  cs[n][i].data.name = d.name
        BY <2>4, <2>5, <4>2, <4>4
      <4> QED BY <2>6, <4>3, <4>4
    <3> QED BY <3>1, <3>2
  <2> QED BY <2>6, <2>7 DEF CsKept
<1> QED BY <1>1, <1>3, <1>4 DEF CsAdd, CsDisabled

LEMMA CsCheckKeeps ==
    ASSUME FwdOK, TrailsAreShort, NEW n \in Nodes, CsCheckStale(n)
    PROVE  CsKept(n)
<1>1. /\ cs[n] \in Seq(CsEntry) /\ now \in Nat
      /\ \A i \in DOMAIN cs[n] : cs[n][i] \in CsEntry
  BY CsHost DEF FwdOK
<1>2. cs'[n] = CsAfterCheck(n)
  BY DEF CsCheckStale, FwdOK, CsInv, CsTypeOK
<1>3. \A i \in DOMAIN cs[n] :
         i \in DOMAIN cs'[n] /\ (cs'[n][i] = cs[n][i] \/ cs[n][i].staleAt <= now)
  BY <1>1, <1>2 DEF CsAfterCheck
<1> QED BY <1>3, CameIsInt DEF CsKept
-----------------------------------------------------------------------------
(* The trail of an event at host n.                                         *)

(* An entry that this event makes continues a trail, under a new name.      *)
Entered(n, e) ==
    /\ Made(e) = now
    /\ ~ Pending(n, e.interest.name) /\ ~ Fresh(n, e.interest.name)
    /\ EntryTrail(n, e)

(* An Interest for a neighbour has an entry made by the event.              *)
SentTrail(n, s) ==
    s.face \in LowerFaces /\ s.packet.type = "interest" =>
        /\ n \in Askers
        /\ \E i \in DOMAIN pit'[n] :
              pit'[n][i].interest.name = s.packet.name /\ Made(pit'[n][i]) = now

OthersAlone(n) ==
    \A m \in Nodes : m # n =>
        /\ pit'[m] = pit[m] /\ cs'[m] = cs[m]
        /\ fib'[m] = fib[m] /\ delayed'[m] = delayed[m]

TrailEvent(n) ==
    /\ now' = now
    /\ OthersAlone(n)
    /\ n \in Relays => KeepsMemory(n)
    /\ \A i \in DOMAIN pit'[n] :
          (\E j \in DOMAIN pit[n] : pit'[n][i] = pit[n][j]) \/ Entered(n, pit'[n][i])
    /\ \A k \in DOMAIN sent' : SentTrail(n, sent'[k])
    /\ DelayedTrail(n, delayed'[n])
    /\ \A i \in DOMAIN fib'[n] : fib'[n][i].face \in UpperFaces => n \in Answerers

(* Nothing changes but what is put aside, and no Interest is sent.          *)
LEMMA QuietTrail ==
    ASSUME FwdOK, TrailsAreShort, UpwardRoutes, NEW n \in Nodes,
           now' = now, pit' = pit, cs' = cs, fib' = fib,
           \A m \in Nodes : m # n => delayed'[m] = delayed[m],
           \A k \in DOMAIN sent' : sent'[k].packet.type # "interest",
           DelayedTrail(n, delayed'[n])
    PROVE  TrailEvent(n)
<1>1. KeepsMemory(n)
  BY MemoryKept, SamePitKept, SameCsKept
<1> QED BY <1>1 DEF TrailEvent, OthersAlone, SentTrail, UpwardRoutes

LEMMA SilentTrail ==
    ASSUME FwdOK, TrailsAreShort, UpwardRoutes, NEW n \in Nodes, Silent,
           now' = now, pit' = pit, cs' = cs, fib' = fib,
           \A m \in Nodes : m # n => delayed'[m] = delayed[m],
           DelayedTrail(n, delayed'[n])
    PROVE  TrailEvent(n)
<1>1. DOMAIN sent' = {}
  BY SilentSends
<1> QED BY <1>1, QuietTrail

(* An Interest is forwarded: to a neighbour by one who asks neighbours, to  *)
(* an application by a route that leads there.                              *)
LEMMA ForwardTrail ==
    ASSUME FwdOK, TrailsAreShort, UpwardRoutes, NEW n \in Nodes,
           NEW interest \in Interests, NEW from \in Faces, NEW face, NEW src \in Macs,
           NEW dest,
           \/ /\ ForwardInterestToRemote(n, interest, from, face, src, dest)
              /\ n \in Askers
           \/ /\ ForwardInterestToLocal(n, interest, from, face, src)
              /\ face \in UpperFaces,
           ~ Pending(n, interest.name), ~ Fresh(n, interest.name),
           from \in LowerFaces =>
              n \in Answerers /\ CameFrom(src, interest.name, now - HopTime),
           now' = now, cs' = cs, fib' = fib,
           \A m \in Nodes : m # n => delayed'[m] = delayed[m],
           DelayedTrail(n, delayed'[n])
    PROVE  TrailEvent(n)
<1>1. CASE PitReject(n) /\ Silent
  BY <1>1, SilentTrail DEF PitReject, pitVars
<1>2. ASSUME PitCreate(n, interest, from, src), NEW mac,
             sent' = <<ToLink(n, face, mac, interest)>>,
             n \in Askers \/ face \in UpperFaces
      PROVE  TrailEvent(n)
  <2>1. /\ PitKept(n) /\ \A m \in Nodes : m # n => pit'[m] = pit[m]
        /\ \A i \in DOMAIN pit'[n] :
              \/ \E j \in DOMAIN pit[n] : pit'[n][i] = pit[n][j]
              \/ /\ pit'[n][i].interest = interest /\ pit'[n][i].face = from
                 /\ pit'[n][i].mac = src /\ Made(pit'[n][i]) = now
        /\ \E i \in DOMAIN pit'[n] :
              pit'[n][i].interest = interest /\ Made(pit'[n][i]) = now
    BY <1>2, PitCreateKeeps
  <2>2. KeepsMemory(n)
    BY <2>1, MemoryKept, SameCsKept
  <2>3. \A i \in DOMAIN pit'[n] :
           (\E j \in DOMAIN pit[n] : pit'[n][i] = pit[n][j]) \/ Entered(n, pit'[n][i])
    BY <2>1 DEF Entered, EntryTrail
  <2>4. \A k \in DOMAIN sent' : sent'[k].face = face /\ sent'[k].packet = interest
    BY <1>2, OnePacket
  <2>5. \A k \in DOMAIN sent' : SentTrail(n, sent'[k])
    BY <1>2, <2>1, <2>4, FacesDiffer DEF SentTrail
  <2> QED BY <2>1, <2>2, <2>3, <2>5 DEF TrailEvent, OthersAlone, UpwardRoutes
<1> QED
  BY <1>1, <1>2 DEF ForwardInterestToRemote, ForwardInterestToLocal, ToApp

LEMMA CameEarlier ==
    ASSUME FwdOK, TrailsAreShort, NEW mac, NEW name, NEW since, NEW older \in Int,
           CameFrom(mac, name, since), older <= since
    PROVE  CameFrom(mac, name, older)
<1>1. since \in Int /\ since <= now /\ now \in Nat
  BY DEF CameFrom, FwdOK, PitInv, PitTypeOK
<1>2. \A m \in Nodes : Remembers(m, name, since) => Remembers(m, name, older)
  BY <1>1, MemoryIsMonotone
<1>3. older <= now
  BY <1>1
<1> QED BY <1>2, <1>3 DEF CameFrom

LEMMA NodesThatAsk ==
    /\ \A n \in Forwarders : n \in Answerers /\ n \in Askers
    /\ \A p \in Producers : p.node \in Answerers
    /\ \A c \in Consumers : c.node \in Askers
  BY DEF Answerers, Askers

(* An Interest from the network.                                            *)
LEMMA ProcessLLInterestTrail ==
    ASSUME FwdOK, TrailsAreShort, UpwardRoutes, DelayedTrails, NEW n \in Nodes,
           NEW interest \in Interests, NEW from \in LowerFaces, NEW src \in Macs,
           ProcessLLInterest(n, interest, from, src),
           CameFrom(src, interest.name, now - MacDelay)
    PROVE  TrailEvent(n)
<1>1. /\ now' = now /\ cs' = cs /\ fib' = fib /\ from \in Faces
      /\ interest.mustBeFresh \in BOOLEAN /\ now \in Nat
      /\ MacDelay \in Nat /\ MaxDelay \in Nat /\ HopTime = MacDelay + MaxDelay
  BY PacketsAssumption, NetworkAssumption, ForwardingAssumption
     DEF ProcessLLInterest, csVars, fibVars, Faces, FwdOK, PitInv, PitTypeOK, HopTime
<1>2. CASE LLAnswerFromCache(n, interest, from, src)
  <2>1. /\ pit' = pit /\ delayed' = delayed
        /\ CsData(n, interest.name) \in DataPackets
        /\ \E dest : sent' = <<ToLink(n, from, dest, CsData(n, interest.name))>>
    BY <1>1, <1>2, FoundEntries DEF LLAnswerFromCache, pitVars, ForwardDataToRemote
  <2>2. \A k \in DOMAIN sent' : sent'[k].packet.type = "data"
    BY <2>1, OnePacket, PacketsAssumption
  <2> QED BY <1>1, <2>1, <2>2, QuietTrail DEF DelayedTrails
<1>3. CASE DropDuplicate(n, interest) \/ LLDropInterest(n, interest)
  <2>1. pit' = pit /\ delayed' = delayed /\ Silent
    BY <1>3 DEF DropDuplicate, LLDropInterest, pitVars
  <2> QED BY <1>1, <2>1, SilentTrail DEF DelayedTrails
<1>4. CASE LLFollowRoute(n, interest, from, src)
  <2> DEFINE fe == FibLookup(n, interest.name)
  <2>1. /\ ~ Pending(n, interest.name) /\ ~ Fresh(n, interest.name)
        /\ delayed' = delayed /\ FibHit(n, interest.name)
        /\ \/ /\ n \in Forwarders
              /\ ForwardInterestToRemote(n, interest, from, fe.face, src, fe.mac)
           \/ /\ fe.face \in UpperFaces
              /\ ForwardInterestToLocal(n, interest, from, fe.face, src)
    BY <1>4, NewNames DEF LLFollowRoute
  <2>2. n \in Forwarders \/ fe.face \in UpperFaces => n \in Answerers
    <3>1. \E i \in DOMAIN fib[n] : fe = fib[n][i]
      BY <2>1, FibHost, FibMatchFindsFirst DEF FibHit, FibLookup, FwdOK
    <3> QED BY <3>1, NodesThatAsk DEF UpwardRoutes
  <2>3. now - HopTime \in Int /\ now - HopTime <= now - MacDelay
    BY <1>1
  <2>4. CameFrom(src, interest.name, now - HopTime)
    BY <2>3, CameEarlier
  <2> HIDE DEF fe
  <2>5. DelayedTrail(n, delayed'[n])
    BY <2>1 DEF DelayedTrails
  <2> QED BY <1>1, <2>1, <2>2, <2>4, <2>5, NodesThatAsk, ForwardTrail
<1>5. CASE LLDelayFlooding(n, interest, from, src)
  <2>1. PICK delay \in InterestDelays :
           delayed' = [delayed EXCEPT ![n] =
                          [type |-> "interest", packet |-> interest,
                           face |-> from, src |-> src, at |-> now + delay]]
    BY <1>5 DEF LLDelayFlooding
  <2>2. /\ delayed'[n].packet = interest /\ delayed'[n].src = src
        /\ delayed'[n].at = now + delay
        /\ \A m \in Nodes : m # n => delayed'[m] = delayed[m]
    BY <2>1 DEF FwdOK
  <2>3. delay \in 0..MaxDelay
    BY ForwardingAssumption
  <2>4. (now + delay) - HopTime \in Int /\ (now + delay) - HopTime <= now - MacDelay
    BY <1>1, <2>3
  <2>5. CameFrom(src, interest.name, (now + delay) - HopTime)
    BY <2>4, CameEarlier
  <2>6. DelayedTrail(n, delayed'[n])
    <3>1. n \in Forwarders
      BY <1>5 DEF LLDelayFlooding
    <3>2. CameFrom(delayed'[n].src, delayed'[n].packet.name, delayed'[n].at - HopTime)
      BY <2>2, <2>5
    <3> QED BY <3>1, <3>2 DEF DelayedTrail
  <2>7. pit' = pit /\ Silent
    BY <1>5 DEF LLDelayFlooding, pitVars
  <2> QED BY <1>1, <2>2, <2>6, <2>7, SilentTrail
<1> QED BY <1>2, <1>3, <1>4, <1>5 DEF ProcessLLInterest

(* An Interest from an application.                                         *)
LEMMA ProcessHLInterestTrail ==
    ASSUME FwdOK, TrailsAreShort, UpwardRoutes, DelayedTrails, NEW n \in Nodes,
           NEW interest \in Interests, NEW from \in UpperFaces,
           ProcessHLInterest(n, interest, from), n \in Askers
    PROVE  TrailEvent(n)
<1>1. /\ now' = now /\ cs' = cs /\ fib' = fib /\ from \in Faces
      /\ from \notin LowerFaces /\ MacOf[n] \in Macs
      /\ interest.mustBeFresh \in BOOLEAN
  BY PacketsAssumption, ForwardingAssumption, FacesDiffer
     DEF ProcessHLInterest, csVars, fibVars, Faces
<1>2. delayed' = delayed /\ DelayedTrail(n, delayed'[n])
  BY DEF ProcessHLInterest, HLAnswerFromCache, DropDuplicate, HLSend, DelayedTrails
<1>3. CASE HLAnswerFromCache(n, interest, from)
  <2>1. /\ pit' = pit
        /\ CsData(n, interest.name) \in DataPackets
        /\ \E dest : sent' = <<ToLink(n, from, dest, CsData(n, interest.name))>>
    BY <1>1, <1>3, FoundEntries DEF HLAnswerFromCache, pitVars, ForwardDataToLocal, ToApp
  <2>2. \A k \in DOMAIN sent' : sent'[k].packet.type = "data"
    BY <2>1, OnePacket, PacketsAssumption
  <2> QED BY <1>1, <1>2, <2>1, <2>2, QuietTrail
<1>4. CASE DropDuplicate(n, interest)
  <2>1. pit' = pit /\ Silent
    BY <1>4 DEF DropDuplicate, pitVars
  <2> QED BY <1>1, <1>2, <2>1, SilentTrail
<1>5. CASE HLSend(n, interest, from)
  <2>1. ~ Pending(n, interest.name) /\ ~ Fresh(n, interest.name)
    BY <1>5, NewNames DEF HLSend
  <2>2. \E face, dest :
           \/ ForwardInterestToRemote(n, interest, from, face, MacOf[n], dest)
           \/ /\ ForwardInterestToLocal(n, interest, from, face, MacOf[n])
              /\ face \in UpperFaces
    BY <1>5 DEF HLSend
  <2> QED BY <1>1, <1>2, <2>1, <2>2, ForwardTrail
<1> QED BY <1>3, <1>4, <1>5 DEF ProcessHLInterest
-----------------------------------------------------------------------------
(* Routes to applications come from registrations.                          *)
LEMMA FibCreateTrail ==
    ASSUME FwdOK, UpwardRoutes, NEW n \in Nodes, NEW d \in DataPackets,
           NEW face \in LowerFaces, NEW src \in Macs,
           FibCreate(n, d.name, d.prefixLength, face, src)
    PROVE  /\ \A m \in Nodes : m # n => fib'[m] = fib[m]
           /\ \A i \in DOMAIN fib'[n] : fib'[n][i].face \in UpperFaces => n \in Answerers
<1>1. /\ fib \in [Nodes -> Seq(FibEntry)] /\ fib[n] \in Seq(FibEntry) /\ now \in Nat
      /\ \A i \in DOMAIN fib[n] : fib[n][i] \in FibEntry
  BY FibHost DEF FwdOK, FibInv, FibTypeOK
<1>2. CASE FibUpdate(n, d.name, src)
  <2> DEFINE p == FibMatch(n, d.name)
             e == [fib[n][p] EXCEPT !.mac = src, !.erased = FALSE,
                                    !.expireAt = now + EntryLifetime]
  <2>1. p \in DOMAIN fib[n]
    BY <1>1, <1>2, FibMatchFindsFirst DEF FibUpdate
  <2>2. fib' = [fib EXCEPT ![n] = [fib[n] EXCEPT ![p] = e]]
    BY <1>1, <1>2, <2>1 DEF FibUpdate
  <2>3. e.face = fib[n][p].face
    BY <1>1, <2>1 DEF FibEntry
  <2> HIDE DEF e, p
  <2>4. /\ \A m \in Nodes : m # n => fib'[m] = fib[m]
        /\ \A i \in DOMAIN fib'[n] : i \in DOMAIN fib[n] /\ fib'[n][i].face = fib[n][i].face
    BY <1>1, <2>1, <2>2, <2>3
  <2> QED BY <2>4 DEF UpwardRoutes
<1>3. CASE FibInsert(n, d.name, d.prefixLength, face, src)
  <2> DEFINE e == [prefix |-> SubSeq(d.name, 1, d.prefixLength), face |-> face,
                   mac |-> src, expireAt |-> now + EntryLifetime, erased |-> FALSE]
  <2>1. /\ fib'[n] = Append(fib[n], e)
        /\ \A m \in Nodes : m # n => fib'[m] = fib[m]
    BY <1>1, <1>3 DEF FibInsert
  <2>2. e.face \notin UpperFaces
    BY FacesDiffer
  <2> HIDE DEF e
  <2>3. \A i \in DOMAIN fib'[n] :
           (i \in DOMAIN fib[n] /\ fib'[n][i] = fib[n][i]) \/ fib'[n][i] = e
    BY <1>1, <2>1, LenProperties, AppendProperties
  <2> QED BY <2>1, <2>2, <2>3 DEF UpwardRoutes
<1>4. CASE FibInsertRefused(n, d.name)
  BY <1>4 DEF FibInsertRefused, fibVars, UpwardRoutes
<1> QED BY <1>2, <1>3, <1>4 DEF FibCreate

LEMMA RegisterPrefixTrail ==
    ASSUME FwdOK, TrailsAreShort, UpwardRoutes, DelayedTrails, NEW n \in Nodes,
           NEW prefix, NEW face, RegisterPrefix(n, prefix, face), n \in Answerers
    PROVE  TrailEvent(n)
<1>1. /\ now' = now /\ pit' = pit /\ cs' = cs /\ delayed' = delayed /\ DOMAIN sent' = {}
  BY SilentSends DEF RegisterPrefix, pitVars, csVars
<1>2. \A m \in Nodes : m # n => fib'[m] = fib[m]
  BY DEF RegisterPrefix, FibRegister, FibRegisterRefused, fibVars, FwdOK, FibInv, FibTypeOK
<1>3. KeepsMemory(n)
  BY <1>1, MemoryKept, SamePitKept, SameCsKept
<1> QED BY <1>1, <1>2, <1>3 DEF TrailEvent, OthersAlone, DelayedTrails

LEMMA FibTimerTrail ==
    ASSUME FwdOK, TrailsAreShort, UpwardRoutes, DelayedTrails, NEW n \in Nodes,
           FibTimerEvent(n)
    PROVE  TrailEvent(n)
<1>1. /\ now' = now /\ pit' = pit /\ cs' = cs /\ delayed' = delayed /\ DOMAIN sent' = {}
  BY SilentSends DEF FibTimerEvent, pitVars, csVars
<1>2. /\ fib \in [Nodes -> Seq(FibEntry)]
      /\ \A i \in DOMAIN fib[n] : fib[n][i] \in FibEntry
  BY FibHost DEF FwdOK, FibInv, FibTypeOK
<1>3. fib'[n] = FibAfterCheck(n) /\ \A m \in Nodes : m # n => fib'[m] = fib[m]
  BY <1>2 DEF FibTimerEvent, FibCheckExpired
<1>4. \A i \in DOMAIN fib'[n] : i \in DOMAIN fib[n] /\ fib'[n][i].face = fib[n][i].face
  BY <1>2, <1>3 DEF FibAfterCheck, FibEntry
<1>5. KeepsMemory(n)
  BY <1>1, MemoryKept, SamePitKept, SameCsKept
<1> QED BY <1>1, <1>3, <1>4, <1>5 DEF TrailEvent, OthersAlone, DelayedTrails, UpwardRoutes
-----------------------------------------------------------------------------
(* Data: what it takes from the PIT it leaves in the Content Store.         *)
LEMMA DataTrail ==
    ASSUME FwdOK, TrailsAreShort, NEW n \in Nodes, n \in Relays => KeepsYoungData(n),
           NEW d \in DataPackets, now' = now,
           \/ PitRemove(n, d.name) /\ CsAdd(n, d)
           \/ pit' = pit /\ (CsAdd(n, d) \/ UNCHANGED csVars)
    PROVE  /\ n \in Relays => KeepsMemory(n)
           /\ \A i \in DOMAIN pit'[n] : \E j \in DOMAIN pit[n] : pit'[n][i] = pit[n][j]
           /\ \A m \in Nodes : m # n => pit'[m] = pit[m] /\ cs'[m] = cs[m]
<1>1. /\ \A i \in DOMAIN pit'[n] : \E j \in DOMAIN pit[n] : pit'[n][i] = pit[n][j]
      /\ \A m \in Nodes : m # n => pit'[m] = pit[m]
  BY PitRemoveKeeps
<1>2. \A m \in Nodes : m # n => cs'[m] = cs[m]
  BY CsAddNames DEF csVars, FwdOK
<1>3. ASSUME n \in Relays PROVE PitKept(n) /\ CsKept(n)
  BY <1>3, CsAddKeeps, PitRemoveKeeps, SamePitKept, SameCsKept DEF csVars
<1> QED BY <1>1, <1>2, <1>3, MemoryKept

LEMMA ProcessDataTrail ==
    ASSUME FwdOK, TrailsAreShort, UpwardRoutes, DelayedTrails,
           NEW n \in Nodes, n \in Relays => KeepsYoungData(n), NEW d \in DataPackets, NEW face \in LowerFaces,
           NEW src \in Macs, ProcessLLData(n, d, face, src) \/ ProcessHLData(n, d)
    PROVE  TrailEvent(n)
<1>1. now' = now /\ d.type = "data"
  BY PacketsAssumption DEF ProcessLLData, ProcessHLData
<1>2. \/ PitRemove(n, d.name) /\ CsAdd(n, d)
      \/ pit' = pit /\ (CsAdd(n, d) \/ UNCHANGED csVars)
  BY DEF ProcessLLData, ProcessHLData, SolicitedLL, SolicitedHL, Unsolicited, pitVars
<1>3. /\ n \in Relays => KeepsMemory(n)
      /\ \A i \in DOMAIN pit'[n] : \E j \in DOMAIN pit[n] : pit'[n][i] = pit[n][j]
      /\ \A m \in Nodes : m # n => pit'[m] = pit[m] /\ cs'[m] = cs[m]
  BY <1>1, <1>2, DataTrail
<1>4. /\ \A m \in Nodes : m # n => fib'[m] = fib[m]
      /\ \A i \in DOMAIN fib'[n] : fib'[n][i].face \in UpperFaces => n \in Answerers
  <2>1. FibCreate(n, d.name, d.prefixLength, face, src) \/ fib' = fib
    BY DEF ProcessLLData, ProcessHLData, SolicitedLL, SolicitedHL, Unsolicited, fibVars
  <2> QED BY <2>1, FibCreateTrail DEF UpwardRoutes
<1>5. \/ Silent
      \/ \E f, dest : sent' = <<ToLink(n, f, dest, d)>>
  BY DEF ProcessLLData, ProcessHLData, SolicitedLL, SolicitedHL, Unsolicited,
         LLDelayData, LLDeliverData, LLKeepData, ForwardDataToRemote,
         ForwardDataToLocal, ToApp
<1>6. \A k \in DOMAIN sent' : sent'[k].packet.type # "interest"
  BY <1>1, <1>5, OnePacket, SilentSends
<1>7. /\ \A m \in Nodes : m # n => delayed'[m] = delayed[m]
      /\ DelayedTrail(n, delayed'[n])
  <2>1. delayed' = delayed \/ LLDelayData(n, d)
    BY DEF ProcessLLData, ProcessHLData, SolicitedLL, SolicitedHL, Unsolicited,
           LLDeliverData, LLKeepData
  <2>2. CASE delayed' = delayed
    BY <2>2 DEF DelayedTrails
  <2>3. CASE LLDelayData(n, d)
    <3>1. \E w : w.type = "data" /\ delayed' = [delayed EXCEPT ![n] = w]
      BY <2>3 DEF LLDelayData
    <3> QED BY <3>1 DEF FwdOK, DelayedTrail
  <2> QED BY <2>1, <2>2, <2>3
<1> QED BY <1>1, <1>3, <1>4, <1>6, <1>7 DEF TrailEvent, OthersAlone, SentTrail
-----------------------------------------------------------------------------
(* Self messages, and packets that come while another waits.                *)
LEMMA DropWhileWaitingTrail ==
    ASSUME FwdOK, TrailsAreShort, UpwardRoutes, DelayedTrails, NEW n \in Nodes,
           NEW name, DropWhileWaiting(n, name)
    PROVE  TrailEvent(n)
<1>1. /\ now' = now /\ pit' = pit /\ cs' = cs /\ fib' = fib /\ Silent
      /\ delayed' = delayed \/ delayed' = [delayed EXCEPT ![n] = Nothing]
  BY DEF DropWhileWaiting, pitVars, fibVars, csVars
<1>2. /\ \A m \in Nodes : m # n => delayed'[m] = delayed[m]
      /\ delayed'[n] = delayed[n] \/ delayed'[n] = Nothing
  BY <1>1 DEF FwdOK
<1>3. DelayedTrail(n, delayed'[n])
  BY <1>2 DEF DelayedTrails, DelayedTrail, Nothing
<1> QED BY <1>1, <1>2, <1>3, SilentTrail

LEMMA SendDelayedTrail ==
    ASSUME FwdOK, FwdNames, TrailsAreShort, UpwardRoutes, DelayedTrails, NEW n \in Nodes,
           SendDelayedInterest(n) \/ SendDelayedData(n)
    PROVE  TrailEvent(n)
<1> DEFINE w == delayed[n]
<1>1. /\ now' = now /\ cs' = cs /\ fib' = fib
      /\ delayed' = [delayed EXCEPT ![n] = Nothing] /\ w.at = now
  BY DEF SendDelayedInterest, SendDelayedData, fibVars, csVars, Due
<1>2. /\ \A m \in Nodes : m # n => delayed'[m] = delayed[m]
      /\ delayed'[n] = Nothing
  BY <1>1 DEF FwdOK
<1>3. DelayedTrail(n, delayed'[n])
  BY <1>2 DEF DelayedTrail, Nothing
<1>4. CASE SendDelayedInterest(n)
  <2>1. /\ w.packet \in Interests /\ w.face \in LowerFaces /\ w.face \in Faces
        /\ w.src \in Macs
    BY <1>4, DelayedIsKnown DEF SendDelayedInterest, Faces
  <2>2. /\ ~ Pending(n, w.packet.name) /\ ~ Fresh(n, w.packet.name)
        /\ n \in Forwarders /\ CameFrom(w.src, w.packet.name, now - HopTime)
    BY <1>1, <1>4 DEF SendDelayedInterest, FwdNames, HostNames, DelayedTrails, DelayedTrail
  <2>3. ForwardInterestToRemote(n, w.packet, w.face, DefaultFace, w.src, Broadcast)
    BY <1>4 DEF SendDelayedInterest
  <2> HIDE DEF w
  <2> QED BY <1>1, <1>2, <1>3, <2>1, <2>2, <2>3, NodesThatAsk, ForwardTrail
<1>5. CASE SendDelayedData(n)
  <2>1. w.packet \in DataPackets /\ w.packet.type = "data"
    BY <1>5, DelayedIsKnown, PacketsAssumption DEF SendDelayedData
  <2>2. /\ pit' = pit
        /\ \E dest : sent' = <<ToLink(n, w.face, dest, w.packet)>>
    BY <1>5 DEF SendDelayedData, ForwardDataToRemote, pitVars
  <2> HIDE DEF w
  <2>3. \A k \in DOMAIN sent' : sent'[k].packet.type # "interest"
    BY <2>1, <2>2, OnePacket
  <2> QED BY <1>1, <1>2, <1>3, <2>2, <2>3, QuietTrail
<1> QED BY <1>4, <1>5

LEMMA TimersTrail ==
    ASSUME FwdOK, TrailsAreShort, UpwardRoutes, DelayedTrails, NEW n \in Nodes,
           PitTimerEvent(n) \/ CsTimerEvent(n)
    PROVE  TrailEvent(n)
<1>1. now' = now /\ fib' = fib /\ delayed' = delayed
  BY DEF PitTimerEvent, CsTimerEvent, fibVars
<1>2. CASE PitTimerEvent(n)
  <2> DEFINE late == {i \in DOMAIN pit[n] \ PitUnexpired(n) :
                         pit[n][i].face \in UpperFaces}
             returned == Retain(pit[n], late)
  <2>1. cs' = cs /\ PitCheckTimeout(n)
    BY <1>2 DEF PitTimerEvent, csVars
  <2>2. /\ PitKept(n) /\ \A m \in Nodes : m # n => pit'[m] = pit[m]
        /\ \A i \in DOMAIN pit'[n] : \E j \in DOMAIN pit[n] : pit'[n][i] = pit[n][j]
    BY <2>1, PitCheckKeeps
  <2>3. KeepsMemory(n)
    BY <1>1, <2>1, <2>2, MemoryKept, SameCsKept
  <2>4. pit[n] \in Seq(PitEntry) /\ late \in SUBSET DOMAIN pit[n]
    BY PitHost DEF FwdOK
  <2> HIDE DEF late
  <2>5. \A k \in DOMAIN returned : \E i \in late : returned[k] = pit[n][i]
    <3>1. PICK v \in Seq(PitEntry) : v = pit[n]
      BY <2>4
    <3>2. PICK keep \in SUBSET DOMAIN v : keep = late
      BY <2>4, <3>1
    <3>3. \A k \in DOMAIN Retain(v, keep) : \E i \in keep : Retain(v, keep)[k] = v[i]
      BY RetainProperties
    <3> QED BY <3>1, <3>2, <3>3
  <2> USE DEF late
  <2>6. \A k \in DOMAIN returned : returned[k].face \in UpperFaces
    BY <2>5
  <2>7. sent' = [k \in DOMAIN returned |->
                    ToApp(n, returned[k].face, Timeout(returned[k].interest))]
    BY <1>2 DEF PitTimerEvent, TimedOutForApps
  <2> HIDE DEF returned
  <2>8. \A k \in DOMAIN sent' : sent'[k].face \in UpperFaces
    BY <2>6, <2>7 DEF ToApp, ToLink
  <2>9. \A k \in DOMAIN sent' : SentTrail(n, sent'[k])
    BY <2>8, FacesDiffer DEF SentTrail
  <2> QED BY <1>1, <2>1, <2>2, <2>3, <2>9 DEF TrailEvent, OthersAlone, DelayedTrails, UpwardRoutes
<1>3. CASE CsTimerEvent(n)
  <2>1. pit' = pit /\ CsCheckStale(n) /\ DOMAIN sent' = {}
    BY <1>3, SilentSends DEF CsTimerEvent, pitVars
  <2>2. \A m \in Nodes : m # n => cs'[m] = cs[m]
    BY <2>1, CsCheckNames DEF FwdOK
  <2>3. KeepsMemory(n)
    BY <1>1, <2>1, MemoryKept, SamePitKept, CsCheckKeeps
  <2> QED BY <1>1, <2>1, <2>2, <2>3 DEF TrailEvent, OthersAlone, DelayedTrails, UpwardRoutes
<1> QED BY <1>2, <1>3
-----------------------------------------------------------------------------
(* From the event of a host to the network.                                 *)

(* The events of the applications and of the kernel leave trails.           *)
LEMMA HostEventsTrail ==
    ASSUME NetOK, TrailsAreShort, \A n \in Relays : KeepsYoungData(n), TrailOK
    PROVE  /\ \A c \in Consumers : Ask(c) => c.node \in Nodes /\ TrailEvent(c.node)
           /\ \A n \in Nodes : Receive(n) \/ SelfMessage(n) => TrailEvent(n)
           /\ \A p \in Producers : Register(p) \/ SendData(p) =>
                 p.node \in Nodes /\ TrailEvent(p.node)
<1>1. /\ FwdOK /\ FwdNames /\ UpwardRoutes /\ DelayedTrails /\ LinksOK
      /\ \A p \in Producers : p.node \in Nodes /\ p.node \in Answerers
      /\ \A c \in Consumers : c.node \in Nodes /\ c.node \in Askers /\ c.face \in UpperFaces
  BY NodesThatAsk, ProducerAssumption, NetworkAssumption DEF NetOK, TrailOK
<1>2. ASSUME NEW c \in Consumers, Ask(c) PROVE TrailEvent(c.node)
  <2>1. PICK i \in Wanted : \/ ProcessHLInterest(c.node, i, c.face)
                            \/ DropWhileWaiting(c.node, i.name)
    BY <1>2 DEF Ask
  <2>2. i \in Interests
    BY NetworkAssumption
  <2> QED BY <1>1, <2>1, <2>2, ProcessHLInterestTrail, DropWhileWaitingTrail
<1>3. ASSUME NEW n \in Nodes, Receive(n) PROVE TrailEvent(n)
  <2> DEFINE a == Head(arriving[n])
  <2>1. Offered /\ arriving[n] # <<>>
    BY <1>3 DEF Receive
  <2>2. \/ a.packet.type = "interest" /\ ProcessLLInterest(n, a.packet, a.face, a.src)
        \/ a.packet.type = "data" /\ ProcessLLData(n, a.packet, a.face, a.src)
        \/ DropWhileWaiting(n, a.packet.name)
    BY <1>3 DEF Receive
  <2>3. /\ a.face \in LowerFaces /\ a.src \in Neighbours(n)
        /\ a.packet.type = "interest" => a.packet \in Interests
        /\ a.packet.type = "data" => a.packet \in DataPackets
    BY <1>1, <2>1, ArrivalsAreHeard
  <2>4. ArrivalTrail(a)
    <3>1. arriving[n] \in Seq(Arrival) /\ 1 \in DOMAIN arriving[n] /\ a = arriving[n][1]
      BY <1>1, <2>1, HeadTailProperties, LenProperties DEF LinksOK
    <3> QED BY <2>1, <3>1 DEF TrailOK, ArrivingTrails, ToSet
  <2> HIDE DEF a
  <2>5. a.src \in Macs
    BY <2>3 DEF Neighbours
  <2>6. a.packet.type = "interest" => CameFrom(a.src, a.packet.name, now - MacDelay)
    BY <2>4 DEF ArrivalTrail
  <2> QED BY <1>1, <2>2, <2>3, <2>5, <2>6, ProcessLLInterestTrail, ProcessDataTrail,
             DropWhileWaitingTrail
<1>4. ASSUME NEW n \in Nodes, SelfMessage(n) PROVE TrailEvent(n)
  BY <1>1, <1>4, SendDelayedTrail, TimersTrail, FibTimerTrail DEF SelfMessage
<1>5. ASSUME NEW p \in Producers, Register(p) PROVE TrailEvent(p.node)
  BY <1>1, <1>5, RegisterPrefixTrail DEF Register
<1>6. ASSUME NEW p \in Producers, SendData(p) PROVE TrailEvent(p.node)
  <2> DEFINE d == Head(answers[p]).packet
  <2>1. /\ answers[p] # <<>> /\ answers[p] \in Seq([packet : DataPackets, at : Nat])
    BY <1>1, <1>6 DEF SendData, AnswerArrives, LinksOK, ProducerTypeOK
  <2>2. Head(answers[p]) \in [packet : DataPackets, at : Nat]
    BY <2>1, HeadTailProperties
  <2>3. d \in DataPackets
    BY <2>2
  <2>4. ProcessHLData(p.node, d) \/ DropWhileWaiting(p.node, d.name)
    BY <1>6 DEF SendData
  <2> HIDE DEF d
  <2>5. CASE DropWhileWaiting(p.node, d.name)
    BY <1>1, <2>5, DropWhileWaitingTrail
  <2>6. CASE ProcessHLData(p.node, d)
    <3>1. DefaultFace \in LowerFaces /\ MacOf[p.node] \in Macs
      BY <1>1, ForwardingAssumption
    <3> QED BY <1>1, <2>3, <2>6, <3>1, ProcessDataTrail
  <2> QED BY <2>4, <2>5, <2>6
<1> QED BY <1>1, <1>2, <1>3, <1>4, <1>5, <1>6
-----------------------------------------------------------------------------
(* What a host sends joins its queue at the end.                            *)
LEMMA FramesJoin ==
    ASSUME queue \in [Nodes -> Seq(Frame)], NEW n \in Nodes,
           sent' \in Seq(Transmission), Queued(n)
    PROVE  /\ \A m \in Nodes : m # n => queue'[m] = queue[m]
           /\ \A k \in DOMAIN queue'[n] :
                 \/ k \in DOMAIN queue[n] /\ queue'[n][k] = queue[n][k]
                 \/ /\ k \in Int /\ \A l \in DOMAIN queue[n] : l < k
                    /\ \E i \in DOMAIN sent' : sent'[i].face \in LowerFaces
                                               /\ queue'[n][k] = ToFrame(sent'[i])
<1> DEFINE low == {k \in DOMAIN sent' : sent'[k].face \in LowerFaces}
           down == Retain(sent', low)
           frames == [k \in DOMAIN down |-> ToFrame(down[k])]
           old == queue[n]
<1>1. /\ queue'[n] = old \o frames /\ \A m \in Nodes : m # n => queue'[m] = queue[m]
  BY DEF Queued
<1>2. low \in SUBSET DOMAIN sent'
  OBVIOUS
<1>3. /\ down \in Seq(Transmission)
      /\ \A k \in DOMAIN down : \E i \in low : down[k] = sent'[i]
  BY <1>2, RetainProperties
<1>4. \A k \in DOMAIN frames : \E i \in low : frames[k] = ToFrame(sent'[i])
  <2> SUFFICES ASSUME NEW k \in DOMAIN frames
               PROVE  \E i \in low : frames[k] = ToFrame(sent'[i])
    OBVIOUS
  <2>1. k \in DOMAIN down /\ frames[k] = ToFrame(down[k])
    OBVIOUS
  <2>2. PICK i \in low : down[k] = sent'[i]
    BY <1>3, <2>1
  <2> QED BY <2>1, <2>2
<1> DEFINE T == Frame \cup {ToFrame(s) : s \in Transmission}
<1>5. old \in Seq(T) /\ frames \in Seq(T)
  <2>1. old \in Seq(Frame)
    OBVIOUS
  <2>2. frames \in Seq(T)
    BY <1>3
  <2> QED BY <2>1, <2>2
<1> HIDE DEF frames, old, down, low, T
<1>6. \A k \in DOMAIN (old \o frames) :
         \/ k \in DOMAIN old /\ (old \o frames)[k] = old[k]
         \/ /\ k \in Int /\ \A l \in DOMAIN old : l < k
            /\ k - Len(old) \in DOMAIN frames
            /\ (old \o frames)[k] = frames[k - Len(old)]
  <2>1. /\ Len(old) \in Nat /\ DOMAIN old = 1..Len(old)
        /\ Len(frames) \in Nat /\ DOMAIN frames = 1..Len(frames)
    BY <1>5, LenProperties
  <2>2. /\ old \o frames \in Seq(T)
        /\ Len(old \o frames) = Len(old) + Len(frames)
        /\ \A i \in 1..(Len(old) + Len(frames)) :
              (old \o frames)[i] = IF i <= Len(old) THEN old[i] ELSE frames[i - Len(old)]
    BY <1>5, ConcatProperties
  <2>3. DOMAIN (old \o frames) = 1..(Len(old) + Len(frames))
    BY <2>2, LenProperties
  <2> QED BY <2>1, <2>2, <2>3
<1> QED BY <1>1, <1>4, <1>6 DEF old, low

LEMMA TrailConstants ==
    /\ Answerers' = Answerers /\ Askers' = Askers /\ Relays' = Relays
    /\ TrailTime' = TrailTime /\ HopTime' = HopTime
  BY DEF Answerers, Askers, Relays, TrailTime, HopTime

(* Whoever sent an Interest still remembers it after the event.             *)
LEMMA CameKept ==
    ASSUME NEW n \in Nodes, TrailEvent(n), NEW mac, NEW name, NEW since,
           CameFrom(mac, name, since)
    PROVE  CameFrom(mac, name, since)'
<1>1. since \in Int /\ since <= now /\ now' = now
  BY DEF CameFrom, TrailEvent
<1>2. ASSUME NEW m \in Nodes, mac = MacOf[m]
      PROVE  m \in Askers /\ (m \in Relays => Remembers(m, name, since)')
  <2>1. m \in Askers /\ (m \in Relays => Remembers(m, name, since))
    BY <1>2 DEF CameFrom
  <2>2. CASE m = n
    BY <1>1, <2>1, <2>2 DEF TrailEvent, KeepsMemory
  <2>3. CASE m # n
    <3>1. pit'[m] = pit[m] /\ cs'[m] = cs[m]
      BY <2>3 DEF TrailEvent, OthersAlone
    <3>2. Remembers(m, name, since)' <=> Remembers(m, name, since)
      BY <1>1, <3>1, TrailConstants DEF Remembers, Made, Came
    <3> QED BY <2>1, <3>2
  <2> QED BY <2>2, <2>3
<1> QED BY <1>1, <1>2, TrailConstants DEF CameFrom

(* Data goes in no ring after the event.                                    *)
LEMMA HostEventNoRing ==
    ASSUME NetOK, TrailOK, BreadcrumbsLeadHome, TrailsAreShort,
           NEW n \in Nodes, TrailEvent(n)
    PROVE  BreadcrumbsLeadHome'
<1> SUFFICES ASSUME NEW name \in Names, NEW ring \in (SUBSET Nodes) \ {{}},
                    \A x \in ring : \E y \in ring : OwesTo(x, name, y)'
             PROVE  FALSE
  BY DEF BreadcrumbsLeadHome
<1>1. \A x \in ring \ {n} : \A y : OwesTo(x, name, y)' <=> OwesTo(x, name, y)
  BY DEF TrailEvent, OthersAlone, OwesTo
<1>2. CASE \A y \in ring : n \in ring /\ OwesTo(n, name, y)' => OwesTo(n, name, y)
  BY <1>1, <1>2 DEF BreadcrumbsLeadHome
<1>3. ASSUME n \in ring, NEW y \in ring, OwesTo(n, name, y)', ~ OwesTo(n, name, y)
      PROVE  FALSE
  <2>1. PICK i \in DOMAIN pit'[n] : /\ pit'[n][i].interest.name = name
                                    /\ pit'[n][i].face \in LowerFaces
                                    /\ pit'[n][i].mac = MacOf[y]
    BY <1>3 DEF OwesTo
  <2>2. Entered(n, pit'[n][i])
    BY <1>3, <2>1 DEF OwesTo, TrailEvent
  <2>3. /\ ~ Pending(n, name) /\ ~ Fresh(n, name) /\ n \in Answerers
        /\ CameFrom(MacOf[y], name, now - HopTime)
    BY <2>1, <2>2 DEF Entered, EntryTrail
  <2>4. \A x \in ring \ {n} : \E z \in ring : OwesTo(x, name, z)
    BY <1>1
  <2>5. PitTrails
    BY DEF TrailOK
  <2> QED BY <2>3, <2>4, <2>5, NoRingThrough
<1> QED BY <1>2, <1>3

(* The rest of the invariant after the event: new frames are the last ones, *)
(* packets on their way are packets that were on their way.                 *)
LEMMA HostEventTrailOK ==
    ASSUME NetOK, sent' \in Seq(Transmission), TrailOK, TrailsAreShort,
           NEW n \in Nodes, TrailEvent(n), Queued(n),
           \A m \in Nodes : \A k \in DOMAIN arriving'[m] :
              \E l \in DOMAIN arriving[m] : arriving'[m][k] = arriving[m][l]
    PROVE  TrailOK'
<1>1. /\ now' = now /\ now \in Nat /\ MacDelay \in Nat /\ HopTime \in Nat
      /\ queue \in [Nodes -> Seq(Frame)]
      /\ Offered' <=> Offered
  BY HopsFitTrail DEF TrailEvent, NetOK, LinksOK, FwdOK, PitInv, PitTypeOK, Offered
<1>2. \A mac, name, since : CameFrom(mac, name, since) => CameFrom(mac, name, since)'
  BY CameKept
<1>3. PitTrails'
  <2> SUFFICES ASSUME NEW m \in Nodes, NEW e \in ToSet(pit'[m]) PROVE EntryTrail(m, e)'
    BY DEF PitTrails
  <2>1. PICK i \in DOMAIN pit'[m] : e = pit'[m][i]
    BY DEF ToSet
  <2>2. (\E j \in DOMAIN pit[m] : e = pit[m][j]) \/ EntryTrail(m, e)
    BY <2>1 DEF TrailEvent, OthersAlone, Entered
  <2>3. EntryTrail(m, e)
    BY <2>2 DEF TrailOK, PitTrails, ToSet
  <2> QED BY <1>2, <2>3, TrailConstants DEF EntryTrail, Made
<1>4. DelayedTrails'
  <2> SUFFICES ASSUME NEW m \in Nodes, NEW w, w = delayed'[m] PROVE DelayedTrail(m, w)'
    BY DEF DelayedTrails
  <2>1. DelayedTrail(m, w)
    BY DEF TrailEvent, OthersAlone, TrailOK, DelayedTrails
  <2> QED BY <1>2, <2>1, TrailConstants DEF DelayedTrail
<1>5. /\ \A m \in Nodes : m # n => queue'[m] = queue[m]
      /\ \A k \in DOMAIN queue'[n] :
            \/ k \in DOMAIN queue[n] /\ queue'[n][k] = queue[n][k]
            \/ /\ k \in Int /\ \A l \in DOMAIN queue[n] : l < k
               /\ \E i \in DOMAIN sent' : sent'[i].face \in LowerFaces
                                          /\ queue'[n][k] = ToFrame(sent'[i])
  BY <1>1, FramesJoin
<1>6. ASSUME NEW i \in DOMAIN sent'
      PROVE  /\ ToFrame(sent'[i]).packet = sent'[i].packet
             /\ ToFrame(sent'[i]).at = now + MacDelay
  BY DEF ToFrame
<1>7. ASSUME NEW name, NEW i \in DOMAIN sent', sent'[i].face \in LowerFaces,
             sent'[i].packet.type = "interest", sent'[i].packet.name = name,
             NEW since, since = now
      PROVE  CameFrom(MacOf[n], name, since)'
  <2>1. /\ n \in Askers
        /\ \E j \in DOMAIN pit'[n] :
              pit'[n][j].interest.name = name /\ Made(pit'[n][j]) = since
    BY <1>7 DEF TrailEvent, SentTrail
  <2>2. Remembers(n, name, since)'
    BY <1>1, <1>7, <2>1 DEF Remembers, Made
  <2>3. \A m \in Nodes : MacOf[n] = MacOf[m] => m = n
    BY NetworkAssumption
  <2> QED BY <1>1, <1>7, <2>1, <2>2, <2>3, TrailConstants DEF CameFrom
<1>8. QueueTrails'
  <2> SUFFICES ASSUME NEW m \in Nodes, NEW frame \in ToSet(queue'[m])
               PROVE  FrameTrail(m, frame)'
    BY DEF QueueTrails
  <2>1. PICK k \in DOMAIN queue'[m] : frame = queue'[m][k]
    BY DEF ToSet
  <2>2. CASE k \in DOMAIN queue[m] /\ queue'[m][k] = queue[m][k]
    <3>1. FrameTrail(m, frame)
      BY <2>1, <2>2 DEF TrailOK, QueueTrails, ToSet
    <3> QED BY <1>2, <3>1 DEF FrameTrail
  <2>3. CASE m = n /\ \E i \in DOMAIN sent' : sent'[i].face \in LowerFaces
                                              /\ queue'[n][k] = ToFrame(sent'[i])
    <3>1. PICK i \in DOMAIN sent' : sent'[i].face \in LowerFaces
                                    /\ queue'[n][k] = ToFrame(sent'[i])
      BY <2>3
    <3>2. frame.packet = sent'[i].packet /\ frame.at - MacDelay = now
      BY <1>1, <1>6, <2>1, <2>3, <3>1
    <3>3. frame.packet.type = "interest" =>
             CameFrom(MacOf[m], frame.packet.name, frame.at - MacDelay)'
      BY <1>7, <2>3, <3>1, <3>2
    <3> QED BY <3>3 DEF FrameTrail
  <2> QED BY <1>5, <2>1, <2>2, <2>3
<1>9. ArrivingTrails'
  <2> SUFFICES ASSUME Offered, NEW m \in Nodes, NEW a \in ToSet(arriving'[m])
               PROVE  ArrivalTrail(a)'
    BY <1>1 DEF ArrivingTrails
  <2>1. PICK k \in DOMAIN arriving'[m] : a = arriving'[m][k]
    BY DEF ToSet
  <2>2. ArrivalTrail(a)
    BY <2>1 DEF TrailOK, ArrivingTrails, ToSet
  <2>3. ASSUME NEW since, since = now - MacDelay, CameFrom(a.src, a.packet.name, since)
        PROVE  CameFrom(a.src, a.packet.name, since)'
    BY <1>2, <2>3
  <2> QED BY <1>1, <2>2, <2>3 DEF ArrivalTrail
<1>10. QueueTimes'
  <2> SUFFICES ASSUME NEW m \in Nodes, NEW k \in DOMAIN queue'[m]
               PROVE  /\ Offered => queue'[m][k].at >= now
                      /\ queue'[m][k].at <= now + MacDelay
                      /\ \A l \in DOMAIN queue'[m] : k <= l =>
                            queue'[m][k].at <= queue'[m][l].at
    BY <1>1 DEF QueueTimes
  <2>1. CASE m # n
    BY <1>5, <2>1 DEF TrailOK, QueueTimes
  <2>2. CASE m = n
    <3>1. \A j \in DOMAIN queue'[n] :
             \/ j \in DOMAIN queue[n] /\ queue'[n][j] = queue[n][j]
             \/ /\ j \in Int /\ (\A l \in DOMAIN queue[n] : l < j)
                /\ queue'[n][j].at = now + MacDelay
      BY <1>5, <1>6
    <3>2. DOMAIN queue[n] \subseteq Int
      BY <1>1, LenProperties
    <3> QED BY <1>1, <2>2, <3>1, <3>2 DEF TrailOK, QueueTimes
  <2> QED BY <2>1, <2>2
<1>11. UpwardRoutes'
  BY TrailConstants DEF TrailEvent, OthersAlone, TrailOK, UpwardRoutes
<1> QED BY <1>3, <1>4, <1>8, <1>9, <1>10, <1>11 DEF TrailOK
-----------------------------------------------------------------------------
(* Steps in which no forwarder acts.                                        *)

LEMMA NetInitTrail == NetInit => TrailOK /\ BreadcrumbsLeadHome
<1> SUFFICES ASSUME NetInit PROVE TrailOK /\ BreadcrumbsLeadHome
  OBVIOUS
<1>1. \A n \in Nodes : /\ DOMAIN pit[n] = {} /\ DOMAIN fib[n] = {}
                       /\ DOMAIN queue[n] = {} /\ DOMAIN arriving[n] = {}
                       /\ delayed[n].type # "interest"
  <2>1. DOMAIN << >> = {}
    OBVIOUS
  <2> QED BY <2>1 DEF NetInit, FwdInit, PitInit, FibInit, CsInit, Nothing
<1>2. TrailOK
  BY <1>1 DEF TrailOK, PitTrails, DelayedTrails, DelayedTrail, QueueTrails,
              ArrivingTrails, QueueTimes, UpwardRoutes, ToSet
<1>3. BreadcrumbsLeadHome
  BY <1>1 DEF BreadcrumbsLeadHome, OwesTo
<1> QED BY <1>2, <1>3

(* Who came remains who came as time passes.                                *)
LEMMA CameStays ==
    ASSUME now \in Nat, now' = now \/ now' = now + 1, pit' = pit, cs' = cs,
           TrailsAreShort, NEW mac, NEW name, NEW since, CameFrom(mac, name, since)
    PROVE  CameFrom(mac, name, since)'
<1>1. since \in Int /\ since <= now /\ since <= now' /\ TrailTime \in Nat
  BY HopsFitTrail DEF CameFrom
<1>2. ASSUME NEW m \in Nodes, mac = MacOf[m]
      PROVE  m \in Askers /\ (m \in Relays => Remembers(m, name, since)')
  <2>1. m \in Askers /\ (m \in Relays => Remembers(m, name, since))
    BY <1>2 DEF CameFrom
  <2>2. ASSUME now > since + TrailTime PROVE now' > since + TrailTime
    BY <1>1, <2>2
  <2>3. Remembers(m, name, since) => Remembers(m, name, since)'
    BY <2>2, TrailConstants DEF Remembers, Made, Came
  <2> QED BY <2>1, <2>3
<1> QED BY <1>1, <1>2, TrailConstants DEF CameFrom

(* Tables that do not change owe what they owed, to hosts that came.        *)
LEMMA SameTables ==
    ASSUME now \in Nat, now' = now \/ now' = now + 1, TrailsAreShort,
           UNCHANGED <<pitVars, fibVars, csVars, delayed>>,
           TrailOK, BreadcrumbsLeadHome
    PROVE  PitTrails' /\ DelayedTrails' /\ UpwardRoutes' /\ BreadcrumbsLeadHome'
<1>1. pit' = pit /\ fib' = fib /\ cs' = cs /\ delayed' = delayed
  BY DEF pitVars, fibVars, csVars
<1>2. \A mac, name, since : CameFrom(mac, name, since) => CameFrom(mac, name, since)'
  BY <1>1, CameStays
<1>3. PitTrails'
  <2> SUFFICES ASSUME NEW m \in Nodes, NEW e \in ToSet(pit'[m]) PROVE EntryTrail(m, e)'
    BY DEF PitTrails
  <2>1. EntryTrail(m, e)
    BY <1>1 DEF TrailOK, PitTrails
  <2> QED BY <1>2, <2>1, TrailConstants DEF EntryTrail, Made
<1>4. DelayedTrails'
  <2> SUFFICES ASSUME NEW m \in Nodes, NEW w, w = delayed'[m] PROVE DelayedTrail(m, w)'
    BY DEF DelayedTrails
  <2>1. DelayedTrail(m, w)
    BY <1>1 DEF TrailOK, DelayedTrails
  <2> QED BY <1>2, <2>1, TrailConstants DEF DelayedTrail
<1>5. UpwardRoutes'
  BY <1>1, TrailConstants DEF TrailOK, UpwardRoutes
<1>6. BreadcrumbsLeadHome'
  <2>1. \A n, name, m : OwesTo(n, name, m)' <=> OwesTo(n, name, m)
    BY <1>1 DEF OwesTo
  <2> QED BY <2>1 DEF BreadcrumbsLeadHome
<1> QED BY <1>3, <1>4, <1>5, <1>6

(* The MAC takes frames from the front of a queue, in order.                *)
LEMMA FramesLeave ==
    ASSUME queue \in [Nodes -> Seq(Frame)], NEW n \in Nodes, Transmit(n)
    PROVE  /\ \A m \in Nodes : m # n => queue'[m] = queue[m]
           /\ \E off \in {0, 1} : \A k \in DOMAIN queue'[n] :
                 /\ k \in Int /\ k + off \in DOMAIN queue[n]
                 /\ queue'[n][k].packet = queue[n][k + off].packet
                 /\ queue'[n][k].at = queue[n][k + off].at
<1> DEFINE q == queue[n]
           frame == Head(q)
           again == [frame EXCEPT !.repeats = @ + 1]
<1>1. q # <<>> /\ q \in Seq(Frame)
  BY DEF Transmit
<1>2. /\ frame = q[1] /\ frame \in Frame
      /\ Tail(q) \in Seq(Frame) /\ Len(Tail(q)) = Len(q) - 1
      /\ \A k \in 1..Len(Tail(q)) : Tail(q)[k] = q[k + 1]
      /\ Len(q) \in Nat /\ Len(q) >= 1 /\ DOMAIN q = 1..Len(q)
      /\ DOMAIN Tail(q) = 1..Len(Tail(q))
  BY <1>1, HeadTailProperties, LenProperties, EmptySeq
<1>3. again.packet = frame.packet /\ again.at = frame.at
  BY <1>2 DEF Frame
<1>4. /\ \A m \in Nodes : m # n => queue'[m] = queue[m]
      /\ queue'[n] = Tail(q) \/ queue'[n] = <<again>> \o Tail(q)
  BY DEF Transmit
<1> HIDE DEF frame, again, q
<1>5. CASE queue'[n] = Tail(q)
  <2>1. \A k \in DOMAIN queue'[n] : /\ k \in Int /\ k + 1 \in DOMAIN q
                                    /\ queue'[n][k] = q[k + 1]
    BY <1>2, <1>5
  <2> QED BY <1>4, <2>1 DEF q
<1>6. CASE queue'[n] = <<again>> \o Tail(q)
  <2> DEFINE T == Frame \cup {again}
             j == <<again>> \o Tail(q)
  <2>1. <<again>> \in Seq(T) /\ Tail(q) \in Seq(T) /\ Len(<<again>>) = 1
        /\ <<again>>[1] = again
    BY <1>2
  <2>2. /\ j \in Seq(T) /\ Len(j) = 1 + Len(Tail(q))
        /\ \A i \in 1..(1 + Len(Tail(q))) :
              j[i] = IF i <= 1 THEN <<again>>[i] ELSE Tail(q)[i - 1]
    BY <2>1, ConcatProperties
  <2>3. DOMAIN j = 1..Len(q)
    BY <1>2, <2>2, LenProperties
  <2>4. \A k \in 1..Len(q) : j[k] = IF k = 1 THEN again ELSE q[k]
    BY <1>2, <2>1, <2>2
  <2>5. \A k \in DOMAIN j : /\ k \in Int /\ k + 0 \in DOMAIN q
                            /\ j[k].packet = q[k + 0].packet
                            /\ j[k].at = q[k + 0].at
    BY <1>2, <1>3, <2>3, <2>4
  <2> QED BY <1>4, <1>6, <2>5 DEF q
<1> QED BY <1>4, <1>5, <1>6

LEMMA TransmitTrail ==
    ASSUME NetOK, TrailsAreShort, TrailOK, BreadcrumbsLeadHome,
           NEW n \in Nodes, Transmit(n)
    PROVE  TrailOK' /\ BreadcrumbsLeadHome'
<1> DEFINE frame == Head(queue[n])
           a == [face |-> frame.face, src |-> MacOf[n], packet |-> frame.packet]
<1>1. /\ now' = now /\ now \in Nat /\ MacDelay \in Nat /\ (Offered' <=> Offered)
      /\ UNCHANGED <<pitVars, fibVars, csVars, delayed>> /\ pit' = pit /\ cs' = cs
      /\ queue \in [Nodes -> Seq(Frame)] /\ FwdOK
      /\ arriving \in [Nodes -> Seq(Arrival)]
  BY HopsFitTrail DEF Transmit, fwdVars, pitVars, csVars, NetOK, LinksOK, FwdOK, PitInv,
                      PitTypeOK, Offered
<1>2. PitTrails' /\ DelayedTrails' /\ UpwardRoutes' /\ BreadcrumbsLeadHome'
  BY <1>1, SameTables
<1>3. \A mac, name, since : CameFrom(mac, name, since) => CameFrom(mac, name, since)'
  BY <1>1, CameStays
<1>4. /\ \A m \in Nodes : m # n => queue'[m] = queue[m]
      /\ \E off \in {0, 1} : \A k \in DOMAIN queue'[n] :
            /\ k \in Int /\ k + off \in DOMAIN queue[n]
            /\ queue'[n][k].packet = queue[n][k + off].packet
            /\ queue'[n][k].at = queue[n][k + off].at
  BY <1>1, FramesLeave
<1>5. PICK off \in {0, 1} : \A k \in DOMAIN queue'[n] :
            /\ k \in Int /\ k + off \in DOMAIN queue[n]
            /\ queue'[n][k].packet = queue[n][k + off].packet
            /\ queue'[n][k].at = queue[n][k + off].at
  BY <1>4
<1>6. QueueTrails'
  <2> SUFFICES ASSUME NEW m \in Nodes, NEW k \in DOMAIN queue'[m], NEW f, f = queue'[m][k]
               PROVE  FrameTrail(m, f)'
    BY DEF QueueTrails, ToSet
  <2>1. \E g \in ToSet(queue[m]) : f.packet = g.packet /\ f.at = g.at
    BY <1>4, <1>5 DEF ToSet
  <2>2. FrameTrail(m, f)
    BY <2>1 DEF TrailOK, QueueTrails, FrameTrail
  <2> QED BY <1>3, <2>2 DEF FrameTrail
<1>7. QueueTimes'
  <2> SUFFICES ASSUME NEW m \in Nodes, NEW k \in DOMAIN queue'[m]
               PROVE  /\ Offered => queue'[m][k].at >= now
                      /\ queue'[m][k].at <= now + MacDelay
                      /\ \A l \in DOMAIN queue'[m] : k <= l =>
                            queue'[m][k].at <= queue'[m][l].at
    BY <1>1 DEF QueueTimes
  <2>1. CASE m # n
    BY <1>4, <2>1 DEF TrailOK, QueueTimes
  <2>2. CASE m = n
    <3>1. ASSUME NEW l \in DOMAIN queue'[n], k <= l PROVE k + off <= l + off
      BY <1>5, <2>2, <3>1
    <3> QED BY <1>5, <2>2, <3>1 DEF TrailOK, QueueTimes
  <2> QED BY <2>1, <2>2
<1>8. ArrivingTrails'
  <2> SUFFICES ASSUME Offered, NEW m \in Nodes, NEW k \in DOMAIN arriving'[m],
                      NEW b, b = arriving'[m][k]
               PROVE  ArrivalTrail(b)'
    BY <1>1 DEF ArrivingTrails, ToSet
  <2>1. ASSUME ArrivalTrail(b) PROVE ArrivalTrail(b)'
    <3>1. ASSUME NEW since, since = now - MacDelay, CameFrom(b.src, b.packet.name, since)
          PROVE  CameFrom(b.src, b.packet.name, since)'
      BY <1>3, <3>1
    <3> QED BY <1>1, <2>1, <3>1 DEF ArrivalTrail
  <2>2. CASE b \in ToSet(arriving[m])
    BY <2>1, <2>2 DEF TrailOK, ArrivingTrails
  <2>3. CASE b = a
    <3>1. /\ queue[n] \in Seq(Frame) /\ queue[n] # <<>>
          /\ 1 \in DOMAIN queue[n] /\ frame = queue[n][1] /\ frame \in Frame
      BY <1>1, HeadTailProperties, LenProperties, EmptySeq DEF Transmit
    <3>2. /\ frame.at >= now /\ frame.at \in Nat /\ FrameTrail(n, frame)
      BY <3>1 DEF TrailOK, QueueTimes, QueueTrails, ToSet, Frame
    <3>3. b.packet = frame.packet /\ b.src = MacOf[n]
      BY <2>3
    <3> HIDE DEF frame
    <3>4. now - MacDelay \in Int /\ frame.at - MacDelay \in Int
          /\ now - MacDelay <= frame.at - MacDelay
      BY <1>1, <3>2
    <3>5. ArrivalTrail(b)
      BY <1>1, <3>2, <3>3, <3>4, CameEarlier DEF FrameTrail, ArrivalTrail
    <3> QED BY <2>1, <3>5
  <2>4. b \in ToSet(arriving[m]) \/ b = a
    <3>1. arriving'[m] = arriving[m] \/ arriving'[m] = Append(arriving[m], a)
      BY DEF Transmit
    <3>2. arriving[m] \in Seq(Arrival \cup {a}) /\ a \in Arrival \cup {a}
      BY <1>1
    <3> HIDE DEF a
    <3> QED BY <3>1, <3>2, PushBack DEF ToSet
  <2> QED BY <2>2, <2>3, <2>4
<1> QED BY <1>2, <1>6, <1>7, <1>8 DEF TrailOK

(* Nothing is under way at the end of an instant, while there is traffic.   *)
LEMMA TickTrail ==
    ASSUME NetOK, TrailsAreShort, TrailOK, BreadcrumbsLeadHome, NetTick
    PROVE  TrailOK' /\ BreadcrumbsLeadHome'
<1>1. /\ now' = now + 1 /\ now \in Nat /\ MacDelay \in Nat /\ MaxDelay \in Nat
      /\ UNCHANGED <<pitVars, fibVars, csVars, delayed>> /\ pit' = pit /\ cs' = cs
      /\ queue' = queue /\ arriving' = arriving /\ queue \in [Nodes -> Seq(Frame)]
  BY HopsFitTrail DEF NetTick, FwdTick, Tick, linkVars, pitVars, csVars, NetOK, LinksOK,
                      FwdOK, PitInv, PitTypeOK
<1>2. (Offered' => Offered) /\ (Offered => AllDone)
  BY <1>1, SimTimeAssumption DEF Offered, NetTick
<1>3. PitTrails' /\ DelayedTrails' /\ UpwardRoutes' /\ BreadcrumbsLeadHome'
  BY <1>1, SameTables
<1>4. \A mac, name, since : CameFrom(mac, name, since) => CameFrom(mac, name, since)'
  BY <1>1, CameStays
<1>5. QueueTrails'
  <2> SUFFICES ASSUME NEW m \in Nodes, NEW f \in ToSet(queue'[m]) PROVE FrameTrail(m, f)'
    BY DEF QueueTrails
  <2>1. FrameTrail(m, f)
    BY <1>1 DEF TrailOK, QueueTrails
  <2> QED BY <1>4, <2>1 DEF FrameTrail
<1>6. ArrivingTrails'
  <2>1. Offered' => \A m \in Nodes : DOMAIN arriving'[m] = {}
    BY <1>1, <1>2 DEF AllDone
  <2> QED BY <2>1 DEF ArrivingTrails, ToSet
<1>7. QueueTimes'
  <2> SUFFICES ASSUME NEW m \in Nodes, NEW k \in DOMAIN queue[m]
               PROVE  /\ Offered' => queue[m][k].at >= now + 1
                      /\ queue[m][k].at <= (now + 1) + MacDelay
                      /\ \A l \in DOMAIN queue[m] : k <= l =>
                            queue[m][k].at <= queue[m][l].at
    BY <1>1 DEF QueueTimes
  <2>1. /\ queue[m] \in Seq(Frame) /\ k \in DOMAIN queue[m] /\ queue[m] # <<>>
        /\ queue[m][k] \in Frame /\ DOMAIN queue[m] = 1..Len(queue[m])
        /\ Len(queue[m]) \in Nat
    BY <1>1, LenProperties, ElementOfSeq
  <2>2. /\ 1 \in DOMAIN queue[m] /\ 1 <= k /\ Head(queue[m]) = queue[m][1]
        /\ queue[m][1] \in Frame
    BY <2>1, HeadTailProperties, ElementOfSeq
  <2>3. /\ queue[m][1].at <= queue[m][k].at
        /\ queue[m][k].at <= now + MacDelay
        /\ \A l \in DOMAIN queue[m] : k <= l => queue[m][k].at <= queue[m][l].at
    BY <2>1, <2>2 DEF TrailOK, QueueTimes
  <2>4. Offered' => queue[m][1].at > now
    BY <1>2, <2>1, <2>2 DEF AllDone
  <2>5. queue[m][k].at \in Nat /\ queue[m][1].at \in Nat
    BY <2>1, <2>2 DEF Frame
  <2> QED BY <1>1, <2>3, <2>4, <2>5
<1> QED BY <1>3, <1>5, <1>6, <1>7 DEF TrailOK
-----------------------------------------------------------------------------
LEMMA NetNextTrail ==
    ASSUME NetOK, TrailsAreShort, \A n \in Relays : KeepsYoungData(n),
           TrailOK, BreadcrumbsLeadHome, [NetNext]_netVars
    PROVE  TrailOK' /\ BreadcrumbsLeadHome'
<1>1. sent' \in Seq(Transmission)
  BY NetStepIsFwdStep, FwdNextOK DEF NetOK, StepOK
<1>2. ASSUME NEW n \in Nodes, TrailEvent(n), Dispatch(n),
             \A m \in Nodes : \A k \in DOMAIN arriving'[m] :
                \E l \in DOMAIN arriving[m] : arriving'[m][k] = arriving[m][l]
      PROVE  TrailOK' /\ BreadcrumbsLeadHome'
  BY <1>1, <1>2, HostEventNoRing, HostEventTrailOK DEF Dispatch
<1>3. ASSUME NEW c \in Consumers, Ask(c) PROVE TrailOK' /\ BreadcrumbsLeadHome'
  BY <1>2, <1>3, HostEventsTrail DEF Ask
<1>4. ASSUME NEW n \in Nodes, Receive(n) PROVE TrailOK' /\ BreadcrumbsLeadHome'
  <2>1. /\ arriving \in [Nodes -> Seq(Arrival)] /\ arriving[n] # <<>>
        /\ arriving' = [arriving EXCEPT ![n] = Tail(@)] /\ Dispatch(n)
    BY <1>4 DEF Receive, NetOK, LinksOK
  <2>2. ASSUME NEW m \in Nodes, NEW k \in DOMAIN arriving'[m]
        PROVE  \E l \in DOMAIN arriving[m] : arriving'[m][k] = arriving[m][l]
    <3>1. CASE m # n
      BY <2>1, <3>1
    <3>2. CASE m = n
      <4>1. /\ arriving'[n] = Tail(arriving[n]) /\ arriving[n] \in Seq(Arrival)
        BY <2>1
      <4>2. /\ DOMAIN arriving'[n] = 1..(Len(arriving[n]) - 1)
            /\ DOMAIN arriving[n] = 1..Len(arriving[n]) /\ Len(arriving[n]) \in Nat
            /\ \A i \in 1..(Len(arriving[n]) - 1) :
                  Tail(arriving[n])[i] = arriving[n][i + 1]
        BY <2>1, <4>1, HeadTailProperties, LenProperties
      <4>3. k + 1 \in DOMAIN arriving[n] /\ arriving'[n][k] = arriving[n][k + 1]
        BY <3>2, <4>1, <4>2
      <4> QED BY <3>2, <4>3
    <3> QED BY <3>1, <3>2
  <2>3. TrailEvent(n)
    BY <1>4, HostEventsTrail
  <2> QED BY <1>2, <2>1, <2>2, <2>3
<1>5. ASSUME NEW n \in Nodes, SelfMessage(n) PROVE TrailOK' /\ BreadcrumbsLeadHome'
  BY <1>2, <1>5, HostEventsTrail DEF SelfMessage
<1>6. ASSUME NEW p \in Producers, Register(p) PROVE TrailOK' /\ BreadcrumbsLeadHome'
  BY <1>2, <1>6, HostEventsTrail DEF Register
<1>7. ASSUME NEW p \in Producers, SendData(p) PROVE TrailOK' /\ BreadcrumbsLeadHome'
  BY <1>2, <1>7, HostEventsTrail DEF SendData
<1>8. ASSUME NEW n \in Nodes, Transmit(n) PROVE TrailOK' /\ BreadcrumbsLeadHome'
  BY <1>8, TransmitTrail
<1>9. CASE NetTick
  BY <1>9, TickTrail
<1>10. CASE (\E p \in Producers : Produce(p)) \/ NetEnd \/ UNCHANGED netVars
  <2>1. UNCHANGED <<fwdVars, linkVars>>
    BY <1>10 DEF Produce, NetEnd, netVars, linkVars
  <2>2. /\ now' = now /\ now \in Nat /\ queue' = queue /\ arriving' = arriving
        /\ UNCHANGED <<pitVars, fibVars, csVars, delayed>> /\ pit' = pit /\ cs' = cs
        /\ (Offered' <=> Offered)
    BY <2>1 DEF fwdVars, pitVars, csVars, linkVars, NetOK, FwdOK, PitInv, PitTypeOK, Offered
  <2>3. PitTrails' /\ DelayedTrails' /\ UpwardRoutes' /\ BreadcrumbsLeadHome'
    BY <2>2, SameTables
  <2>4. \A mac, name, since : CameFrom(mac, name, since) => CameFrom(mac, name, since)'
    BY <2>2, CameStays
  <2>5. QueueTimes'
    BY <2>2 DEF TrailOK, QueueTimes
  <2>6. QueueTrails'
    <3> SUFFICES ASSUME NEW m \in Nodes, NEW f \in ToSet(queue'[m]) PROVE FrameTrail(m, f)'
      BY DEF QueueTrails
    <3>1. FrameTrail(m, f)
      BY <2>2 DEF TrailOK, QueueTrails
    <3> QED BY <2>4, <3>1 DEF FrameTrail
  <2>7. ArrivingTrails'
    <3> SUFFICES ASSUME Offered, NEW m \in Nodes, NEW a \in ToSet(arriving'[m])
                 PROVE  ArrivalTrail(a)'
      BY <2>2 DEF ArrivingTrails
    <3>1. ArrivalTrail(a)
      BY <2>2 DEF TrailOK, ArrivingTrails
    <3>2. ASSUME NEW since, since = now - MacDelay, CameFrom(a.src, a.packet.name, since)
          PROVE  CameFrom(a.src, a.packet.name, since)'
      BY <2>4, <3>2
    <3> QED BY <2>2, <3>1, <3>2 DEF ArrivalTrail
  <2> QED BY <2>3, <2>5, <2>6, <2>7 DEF TrailOK
<1> QED BY <1>3, <1>4, <1>5, <1>6, <1>7, <1>8, <1>9, <1>10 DEF NetNext, NetEvent

(* No ring of pending Interests arises in any network whose relays cache,    *)
(* and where lifetimes and freshness outlast the way through all relays:    *)
(* whatever is lost, repeated or asked again, and though Content Stores     *)
(* evict, as long as what they give up did not come a moment ago.           *)
THEOREM NetBreadcrumbsLeadHome ==
    TrailsAreShort => (NetSpec /\ YoungDataStays => []BreadcrumbsLeadHome)
<1> SUFFICES ASSUME TrailsAreShort
             PROVE  NetSpec /\ YoungDataStays => []BreadcrumbsLeadHome
  OBVIOUS
<1> DEFINE Inv == NetOK /\ NoAnswerUnasked /\ TrailOK /\ BreadcrumbsLeadHome
<1>1. NetInit => Inv
  BY NetInitOK, NetInitNobodyAsked, NetInitTrail
<1>2. Inv /\ [NetNext]_netVars /\ [\A n \in Relays : KeepsYoungData(n)]_netVars => Inv'
  <2> SUFFICES ASSUME Inv, [NetNext]_netVars,
                      [\A n \in Relays : KeepsYoungData(n)]_netVars
               PROVE  Inv'
    OBVIOUS
  <2>1. \A n \in Relays : KeepsYoungData(n)
    <3>1. netVars' = netVars => cs' = cs
      BY DEF netVars, fwdVars, csVars
    <3> QED BY <3>1 DEF KeepsYoungData
  <2> QED BY <2>1, NetNextKeepsOK, NetNextTrail
<1>3. Inv => BreadcrumbsLeadHome
  OBVIOUS
<1> QED BY <1>1, <1>2, <1>3, PTL DEF NetSpec, YoungDataStays
=============================================================================
