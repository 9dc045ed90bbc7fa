-------------------------- MODULE ForwardingProofs --------------------------
(***************************************************************************)
(* Proofs about the forwarder: it uses its tables as their specifications  *)
(* allow, so the theorems about the tables hold in it, and the names in    *)
(* its PIT are distinct and not cached as fresh.                           *)
(***************************************************************************)
EXTENDS Forwarding, TableProofs

(* What waits is well formed and will be sent before the Horizon.           *)
DelayedOK ==
    \A n \in Nodes :
        /\ delayed[n] \in {Nothing} \cup DelayedInterest \cup DelayedData
        /\ delayed[n] # Nothing => delayed[n].at <= Horizon

FwdOK == /\ PitInv
         /\ FibInv
         /\ CsInv
         /\ delayed \in [Nodes -> {Nothing} \cup DelayedInterest \cup DelayedData]
         /\ DelayedOK
         /\ sent \in Seq(Transmission)

(* What every table sees of a step.                                         *)
TableSteps == /\ [PitNext]_<<now, pitVars>>
              /\ [FibNext]_<<now, fibVars>>
              /\ [CsNext]_<<now, csVars>>

(* The tables keep their invariants as long as they see their own steps.    *)
LEMMA TablesKeepInv ==
    ASSUME FwdOK, TableSteps PROVE PitInv' /\ FibInv' /\ CsInv'
  BY PitNextKeepsInv, FibNextKeepsInv, CsNextKeepsInv DEF FwdOK, TableSteps

LEMMA FwdInitOK == FwdInit => FwdOK
<1> SUFFICES ASSUME FwdInit PROVE FwdOK
  OBVIOUS
<1>1. PitInv /\ FibInv /\ CsInv
  BY PitInitInv, FibInitInv, CsInitInv DEF FwdInit
<1>2. delayed \in [Nodes -> {Nothing} \cup DelayedInterest \cup DelayedData]
      /\ DelayedOK
  BY DEF FwdInit, DelayedOK
<1>3. sent \in Seq(Transmission)
  BY EmptySeq DEF FwdInit
<1> QED BY <1>1, <1>2, <1>3 DEF FwdOK
-----------------------------------------------------------------------------
(* The calls of a table, seen from the table.                               *)

LEMMA PitCreateIsCall ==
    ASSUME NEW n \in Nodes, NEW interest \in Interests, NEW face \in Faces,
           NEW src \in Macs, now <= Horizon, now' = now,
           PitCreate(n, interest, face, src) \/ PitReject(n)
    PROVE  [PitNext]_<<now, pitVars>>
<1>1. CASE PitCreate(n, interest, face, src)
  BY <1>1 DEF PitNext, PitCreateCall, TrafficOffered
<1>2. CASE PitReject(n)
  BY <1>2 DEF PitReject
<1> QED BY <1>1, <1>2

LEMMA PitRemoveIsCall ==
    ASSUME NEW n \in Nodes, NEW name \in Names, now <= Horizon, now' = now,
           PitRemove(n, name)
    PROVE  [PitNext]_<<now, pitVars>>
  BY DEF PitNext, PitRemoveCall, TrafficOffered

LEMMA FibCreateIsCall ==
    ASSUME NEW n \in Nodes, NEW d \in DataPackets, NEW face \in LowerFaces,
           NEW dest \in Macs, now <= Horizon, now' = now,
           FibCreate(n, d.name, d.prefixLength, face, dest)
    PROVE  [FibNext]_<<now, fibVars>>
  BY DEF FibNext, FibCreateCall, TrafficOffered

LEMMA CsAddIsCall ==
    ASSUME NEW n \in Nodes, NEW d \in DataPackets, now <= Horizon, now' = now,
           CsAdd(n, d)
    PROVE  [CsNext]_<<now, csVars>>
  BY DEF CsNext, CsAddCall, TrafficOffered

(* A packet is offered early enough for the tables, and for what it puts    *)
(* aside to leave before the Horizon.                                       *)
LEMMA OfferedInTime ==
    ASSUME FwdOK, Offered
    PROVE  /\ now \in Nat /\ now <= Horizon
           /\ \A delay \in InterestDelays \cup DataDelays :
                 now + delay \in Nat /\ now + delay <= Horizon
<1>1. now \in Nat /\ MaxDelay \in Nat /\ Horizon \in Nat
      /\ now + MaxDelay <= Horizon
  BY SimTimeAssumption, ForwardingAssumption DEF FwdOK, PitInv, PitTypeOK, Offered
<1>2. \A delay \in InterestDelays \cup DataDelays : delay \in 0..MaxDelay
  BY ForwardingAssumption
<1> QED BY <1>1, <1>2
-----------------------------------------------------------------------------
(* What the forwarder sends.                                                *)

LEMMA LinkIsTransmission ==
    ASSUME NEW n \in Nodes, NEW face \in Faces,
           NEW dest \in Macs \cup {Broadcast},
           NEW packet \in Interests \cup DataPackets \cup {Timeout(i) : i \in Interests}
    PROVE  ToLink(n, face, dest, packet) \in Transmission
  BY DEF ToLink, Transmission

LEMMA AppIsTransmission ==
    ASSUME NEW n \in Nodes, NEW face \in Faces,
           NEW packet \in Interests \cup DataPackets \cup {Timeout(i) : i \in Interests}
    PROVE  ToApp(n, face, packet) \in Transmission
<1>1. MacOf[n] \in Macs \cup {Broadcast}
  BY ForwardingAssumption
<1> QED BY <1>1, LinkIsTransmission DEF ToApp

LEMMA OneIsSent ==
    ASSUME NEW x \in Transmission, sent' = <<x>>
    PROVE  sent' \in Seq(Transmission)
  OBVIOUS

LEMMA NoneIsSent == ASSUME Silent PROVE sent' \in Seq(Transmission)
  BY EmptySeq DEF Silent

LEMMA InterestIsForwarded ==
    ASSUME NEW n \in Nodes, NEW interest \in Interests, NEW from \in Faces,
           NEW face \in Faces, NEW src \in Macs, NEW dest \in Macs \cup {Broadcast},
           now <= Horizon, now' = now,
           \/ ForwardInterestToRemote(n, interest, from, face, src, dest)
           \/ ForwardInterestToLocal(n, interest, from, face, src)
    PROVE  [PitNext]_<<now, pitVars>> /\ sent' \in Seq(Transmission)
<1>1. PitCreate(n, interest, from, src) \/ PitReject(n)
  BY DEF ForwardInterestToRemote, ForwardInterestToLocal
<1>2. InterestDest(dest) \in Macs \cup {Broadcast}
  BY DEF InterestDest
<1>3. ToLink(n, face, InterestDest(dest), interest) \in Transmission
  BY <1>2, LinkIsTransmission
<1>4. ToApp(n, face, interest) \in Transmission
  BY AppIsTransmission
<1>5. sent' \in Seq(Transmission)
  BY <1>3, <1>4, OneIsSent, NoneIsSent
  DEF ForwardInterestToRemote, ForwardInterestToLocal
<1> QED BY <1>1, <1>5, PitCreateIsCall

LEMMA DataIsForwarded ==
    ASSUME NEW n \in Nodes, NEW d \in DataPackets, NEW face \in Faces,
           NEW dest \in Macs,
           \/ ForwardDataToRemote(n, d, face, dest)
           \/ ForwardDataToLocal(n, d, face)
    PROVE  sent' \in Seq(Transmission)
<1>1. DataDest(dest) \in Macs \cup {Broadcast}
  BY DEF DataDest
<1>2. /\ ToLink(n, face, DataDest(dest), d) \in Transmission
      /\ ToApp(n, face, d) \in Transmission
  BY <1>1, LinkIsTransmission, AppIsTransmission
<1> QED BY <1>2, OneIsSent DEF ForwardDataToRemote, ForwardDataToLocal

(* The entries the handlers use are entries of their tables.                *)
LEMMA FoundEntries ==
    ASSUME FwdOK, NEW n \in Nodes, NEW name
    PROVE  /\ PitLookup(n, name) # 0 =>
                 LET pe == pit[n][PitLookup(n, name)] IN
                 /\ pe \in PitEntry /\ pe.face \in Faces /\ pe.mac \in Macs
                 /\ pe.interest.name = name
           /\ FibHit(n, name) => /\ FibLookup(n, name).face \in Faces
                                 /\ FibLookup(n, name).mac \in Macs
           /\ \A fresh \in BOOLEAN :
                 CsHit(n, name, fresh) => CsData(n, name) \in DataPackets
<1>1. /\ pit[n] \in Seq(PitEntry) /\ fib[n] \in Seq(FibEntry) /\ cs[n] \in Seq(CsEntry)
      /\ \A i \in DOMAIN pit[n] : pit[n][i] \in PitEntry
      /\ \A i \in DOMAIN fib[n] : fib[n][i] \in FibEntry
      /\ \A i \in DOMAIN cs[n] : cs[n][i] \in CsEntry
  BY PitHost, FibHost, CsHost DEF FwdOK
<1>2. PitLookup(n, name) # 0 =>
         /\ PitLookup(n, name) \in DOMAIN pit[n]
         /\ pit[n][PitLookup(n, name)].interest.name = name
  BY <1>1, PitLookupFindsFirst
<1>3. FibHit(n, name) => FibLookup(n, name) \in FibEntry
  BY <1>1, FibMatchFindsFirst DEF FibHit, FibLookup
<1>4. \A fresh \in BOOLEAN :
         CsHit(n, name, fresh) => cs[n][CsPosition(n, name)] \in CsEntry
  BY <1>1, CsPositionFindsFirst DEF CsHit
<1>5. \A e \in PitEntry : e.face \in Faces /\ e.mac \in Macs
  BY DEF PitEntry
<1>6. \A e \in FibEntry : e.face \in Faces /\ e.mac \in Macs
  BY DEF FibEntry
<1>7. \A e \in CsEntry : e.data \in DataPackets
  BY DEF CsEntry
<1> QED BY <1>1, <1>2, <1>3, <1>4, <1>5, <1>6, <1>7 DEF CsData
-----------------------------------------------------------------------------
(* Every action is a step, or no step, of each table, and keeps the rest of *)
(* the state well formed.                                                   *)

DelayedOKNext ==
    /\ delayed' \in [Nodes -> {Nothing} \cup DelayedInterest \cup DelayedData]
    /\ DelayedOK'

StepOK == TableSteps /\ DelayedOKNext /\ sent' \in Seq(Transmission)

LEMMA NothingNewWaits == ASSUME FwdOK, delayed' = delayed PROVE DelayedOKNext
  BY DEF FwdOK, DelayedOK, DelayedOKNext

LEMMA OneWaits ==
    ASSUME FwdOK, NEW n \in Nodes,
           NEW w \in {Nothing} \cup DelayedInterest \cup DelayedData,
           w # Nothing => w.at <= Horizon,
           delayed' = [delayed EXCEPT ![n] = w]
    PROVE  DelayedOKNext
  BY DEF FwdOK, DelayedOK, DelayedOKNext

LEMMA ProcessLLInterestOK ==
    ASSUME FwdOK, Offered, NEW n \in Nodes, NEW interest \in Interests,
           NEW from \in LowerFaces, NEW src \in Macs,
           ProcessLLInterest(n, interest, from, src)
    PROVE  StepOK
<1>1. /\ now' = now /\ UNCHANGED fibVars /\ UNCHANGED csVars
      /\ [FibNext]_<<now, fibVars>> /\ [CsNext]_<<now, csVars>>
  BY DEF ProcessLLInterest
<1>2. now <= Horizon /\ from \in Faces
  BY OfferedInTime DEF Faces
<1>3. interest.mustBeFresh \in BOOLEAN
  BY PacketsAssumption
<1>4. CASE LLAnswerFromCache(n, interest, from, src)
  <2>1. CsData(n, interest.name) \in DataPackets
    BY <1>3, <1>4, FoundEntries DEF LLAnswerFromCache
  <2>2. sent' \in Seq(Transmission)
    BY <1>2, <1>4, <2>1, DataIsForwarded DEF LLAnswerFromCache
  <2> QED
    BY <1>1, <1>4, <2>2, NothingNewWaits DEF LLAnswerFromCache, StepOK, TableSteps
<1>5. CASE DropDuplicate(n, interest) \/ LLDropInterest(n, interest)
  BY <1>1, <1>5, NothingNewWaits, NoneIsSent
  DEF DropDuplicate, LLDropInterest, StepOK, TableSteps
<1>6. CASE LLFollowRoute(n, interest, from, src)
  <2> DEFINE fe == FibLookup(n, interest.name)
  <2>1. fe.face \in Faces /\ fe.mac \in Macs \cup {Broadcast}
    BY <1>6, FoundEntries DEF LLFollowRoute
  <2>2. \/ ForwardInterestToRemote(n, interest, from, fe.face, src, fe.mac)
        \/ ForwardInterestToLocal(n, interest, from, fe.face, src)
    BY <1>6 DEF LLFollowRoute
  <2>3. delayed' = delayed
    BY <1>6 DEF LLFollowRoute
  <2> HIDE DEF fe
  <2>4. [PitNext]_<<now, pitVars>> /\ sent' \in Seq(Transmission)
    BY <1>1, <1>2, <2>1, <2>2, InterestIsForwarded
  <2> QED BY <1>1, <2>3, <2>4, NothingNewWaits DEF StepOK, TableSteps
<1>7. CASE LLDelayFlooding(n, interest, from, src)
  <2>1. PICK delay \in InterestDelays :
           delayed' = [delayed EXCEPT ![n] =
                          [type |-> "interest", packet |-> interest,
                           face |-> from, src |-> src, at |-> now + delay]]
    BY <1>7 DEF LLDelayFlooding
  <2>2. now + delay \in Nat /\ now + delay <= Horizon
    BY OfferedInTime
  <2> DEFINE w == [type |-> "interest", packet |-> interest,
                   face |-> from, src |-> src, at |-> now + delay]
  <2>3. w \in DelayedInterest /\ w.at <= Horizon
    BY <1>2, <2>2 DEF DelayedInterest
  <2>4. DelayedOKNext
    BY <2>1, <2>3, OneWaits
  <2> QED BY <1>1, <1>7, <2>4, NoneIsSent DEF LLDelayFlooding, StepOK, TableSteps
<1> QED BY <1>4, <1>5, <1>6, <1>7 DEF ProcessLLInterest

LEMMA ProcessHLInterestOK ==
    ASSUME FwdOK, Offered, NEW n \in Nodes, NEW interest \in Interests,
           NEW from \in UpperFaces, ProcessHLInterest(n, interest, from)
    PROVE  StepOK
<1>1. /\ now' = now /\ UNCHANGED fibVars /\ UNCHANGED csVars
      /\ [FibNext]_<<now, fibVars>> /\ [CsNext]_<<now, csVars>>
  BY DEF ProcessHLInterest
<1>2. now <= Horizon /\ from \in Faces /\ MacOf[n] \in Macs /\ DefaultFace \in Faces
  BY OfferedInTime, ForwardingAssumption DEF Faces
<1>3. interest.mustBeFresh \in BOOLEAN
  BY PacketsAssumption
<1>4. CASE HLAnswerFromCache(n, interest, from)
  <2>1. CsData(n, interest.name) \in DataPackets
    BY <1>3, <1>4, FoundEntries DEF HLAnswerFromCache
  <2>2. sent' \in Seq(Transmission)
    BY <1>2, <1>4, <2>1, DataIsForwarded DEF HLAnswerFromCache
  <2> QED
    BY <1>1, <1>4, <2>2, NothingNewWaits DEF HLAnswerFromCache, StepOK, TableSteps
<1>5. CASE DropDuplicate(n, interest)
  BY <1>1, <1>5, NothingNewWaits, NoneIsSent DEF DropDuplicate, StepOK, TableSteps
<1>6. CASE HLSend(n, interest, from)
  <2> DEFINE fe == FibLookup(n, interest.name)
  <2>1. FibHit(n, interest.name) =>
           fe.face \in Faces /\ fe.mac \in Macs \cup {Broadcast}
    BY FoundEntries
  <2>2. FibHit(n, interest.name) =>
           \/ ForwardInterestToRemote(n, interest, from, fe.face, MacOf[n], fe.mac)
           \/ ForwardInterestToLocal(n, interest, from, fe.face, MacOf[n])
    BY <1>6 DEF HLSend
  <2>3. ~ FibHit(n, interest.name) =>
           ForwardInterestToRemote(n, interest, from, DefaultFace, MacOf[n], Broadcast)
    BY <1>6 DEF HLSend
  <2>4. delayed' = delayed
    BY <1>6 DEF HLSend
  <2> HIDE DEF fe
  <2>5. [PitNext]_<<now, pitVars>> /\ sent' \in Seq(Transmission)
    <3>1. CASE FibHit(n, interest.name)
      BY <1>1, <1>2, <2>1, <2>2, <3>1, InterestIsForwarded
    <3>2. CASE ~ FibHit(n, interest.name)
      BY <1>1, <1>2, <2>3, <3>2, InterestIsForwarded
    <3> QED BY <3>1, <3>2
  <2> QED BY <1>1, <2>4, <2>5, NothingNewWaits DEF StepOK, TableSteps
<1> QED BY <1>4, <1>5, <1>6 DEF ProcessHLInterest

LEMMA UnsolicitedOK ==
    ASSUME FwdOK, Offered, NEW n \in Nodes, NEW d \in DataPackets, now' = now,
           Unsolicited(n, d)
    PROVE  StepOK
<1>1. [PitNext]_<<now, pitVars>> /\ [FibNext]_<<now, fibVars>>
  BY DEF Unsolicited
<1>2. now <= Horizon
  BY OfferedInTime
<1>3. [CsNext]_<<now, csVars>>
  BY <1>2, CsAddIsCall DEF Unsolicited
<1>4. DelayedOKNext /\ sent' \in Seq(Transmission)
  BY NothingNewWaits, NoneIsSent DEF Unsolicited
<1> QED BY <1>1, <1>3, <1>4 DEF StepOK, TableSteps

LEMMA ProcessLLDataOK ==
    ASSUME FwdOK, Offered, NEW n \in Nodes, NEW d \in DataPackets,
           NEW face \in LowerFaces, NEW src \in Macs,
           ProcessLLData(n, d, face, src)
    PROVE  StepOK
<1>1. now' = now /\ now <= Horizon /\ d.name \in Names
  BY OfferedInTime, PacketsAssumption DEF ProcessLLData
<1>2. CASE Unsolicited(n, d)
  BY <1>1, <1>2, UnsolicitedOK
<1>3. CASE SolicitedLL(n, d, face, src)
  <2> DEFINE pe == Breadcrumb(n, d)
  <2>1. pe.face \in Faces /\ pe.mac \in Macs
    BY <1>3, FoundEntries DEF SolicitedLL, Breadcrumb
  <2>2. [PitNext]_<<now, pitVars>>
    BY <1>1, <1>3, PitRemoveIsCall DEF SolicitedLL
  <2>3. [FibNext]_<<now, fibVars>>
    BY <1>1, <1>3, FibCreateIsCall DEF SolicitedLL
  <2>4. [CsNext]_<<now, csVars>>
    BY <1>1, <1>3, CsAddIsCall DEF SolicitedLL
  <2>5. CASE LLDelayData(n, d)
    <3>1. PICK delay \in DataDelays :
             delayed' = [delayed EXCEPT ![n] =
                            [type |-> "data", packet |-> d, face |-> pe.face,
                             dest |-> pe.mac, at |-> now + delay]]
      BY <2>5 DEF LLDelayData
    <3>2. pe.face \in LowerFaces
      BY <2>5 DEF LLDelayData
    <3>3. now + delay \in Nat /\ now + delay <= Horizon
      BY OfferedInTime
    <3> HIDE DEF pe
    <3> DEFINE w == [type |-> "data", packet |-> d, face |-> pe.face,
                     dest |-> pe.mac, at |-> now + delay]
    <3>4. w \in DelayedData /\ w.at <= Horizon
      BY <2>1, <3>2, <3>3 DEF DelayedData
    <3>5. DelayedOKNext
      BY <3>1, <3>4, OneWaits
    <3>6. sent' \in Seq(Transmission)
      BY <2>5, NoneIsSent DEF LLDelayData
    <3> QED BY <2>2, <2>3, <2>4, <3>5, <3>6 DEF StepOK, TableSteps
  <2>6. CASE LLDeliverData(n, d)
    <3>1. sent' \in Seq(Transmission)
      BY <2>1, <2>6, DataIsForwarded DEF LLDeliverData
    <3> QED
      BY <2>2, <2>3, <2>4, <2>6, <3>1, NothingNewWaits
      DEF LLDeliverData, StepOK, TableSteps
  <2>7. CASE LLKeepData(n, d)
    BY <2>2, <2>3, <2>4, <2>7, NothingNewWaits, NoneIsSent
    DEF LLKeepData, StepOK, TableSteps
  <2> QED BY <1>3, <2>5, <2>6, <2>7 DEF SolicitedLL
<1> QED BY <1>2, <1>3 DEF ProcessLLData

LEMMA ProcessHLDataOK ==
    ASSUME FwdOK, Offered, NEW n \in Nodes, NEW d \in DataPackets,
           ProcessHLData(n, d)
    PROVE  StepOK
<1>1. now' = now /\ now <= Horizon /\ d.name \in Names
  BY OfferedInTime, PacketsAssumption DEF ProcessHLData
<1>2. CASE Unsolicited(n, d)
  BY <1>1, <1>2, UnsolicitedOK
<1>3. CASE SolicitedHL(n, d)
  <2> DEFINE pe == Breadcrumb(n, d)
  <2>1. pe.face \in Faces /\ pe.mac \in Macs
    BY <1>3, FoundEntries DEF SolicitedHL, Breadcrumb
  <2>2. [PitNext]_<<now, pitVars>>
    BY <1>1, <1>3, PitRemoveIsCall DEF SolicitedHL
  <2>3. [FibNext]_<<now, fibVars>>
    BY <1>1, <1>3 DEF SolicitedHL
  <2>4. [CsNext]_<<now, csVars>>
    BY <1>1, <1>3, CsAddIsCall DEF SolicitedHL
  <2>5. \/ ForwardDataToRemote(n, d, pe.face, pe.mac)
        \/ ForwardDataToLocal(n, d, pe.face)
    BY <1>3 DEF SolicitedHL
  <2> HIDE DEF pe
  <2>6. sent' \in Seq(Transmission)
    BY <2>1, <2>5, DataIsForwarded
  <2> QED
    BY <1>3, <2>2, <2>3, <2>4, <2>6, NothingNewWaits
    DEF SolicitedHL, StepOK, TableSteps
<1> QED BY <1>2, <1>3 DEF ProcessHLData

LEMMA RegisterPrefixOK ==
    ASSUME FwdOK, Offered, NEW n \in Nodes, NEW prefix \in Names,
           NEW face \in UpperFaces, RegisterPrefix(n, prefix, face)
    PROVE  StepOK
<1>1. now <= Horizon /\ MacOf[n] \in Macs /\ now' = now
  BY OfferedInTime, ForwardingAssumption DEF RegisterPrefix
<1>2. FibRegisterCall(n)
  BY <1>1 DEF RegisterPrefix, FibRegisterCall, TrafficOffered
<1>3. [FibNext]_<<now, fibVars>>
  BY <1>2 DEF FibNext
<1> QED
  BY <1>3, NothingNewWaits, NoneIsSent DEF RegisterPrefix, StepOK, TableSteps

LEMMA SendDelayedOK ==
    ASSUME FwdOK, NEW n \in Nodes, SendDelayedInterest(n) \/ SendDelayedData(n)
    PROVE  StepOK
<1> DEFINE w == delayed[n]
<1>1. /\ w \in {Nothing} \cup DelayedInterest \cup DelayedData
      /\ w # Nothing => w.at <= Horizon
  BY DEF FwdOK, DelayedOK
<1>2. DelayedOKNext
  <2>1. delayed' = [delayed EXCEPT ![n] = Nothing]
    BY DEF SendDelayedInterest, SendDelayedData
  <2> QED BY <2>1, OneWaits
<1>3. DefaultFace \in Faces
  BY ForwardingAssumption DEF Faces
<1>4. CASE SendDelayedInterest(n)
  <2>1. w \in DelayedInterest /\ w.at = now
    BY <1>1, <1>4 DEF SendDelayedInterest, Due, Nothing, DelayedData
  <2>2. w.packet \in Interests /\ w.face \in Faces /\ w.src \in Macs /\ now <= Horizon
    BY <1>1, <2>1 DEF DelayedInterest, Nothing, Faces
  <2>3. /\ ForwardInterestToRemote(n, w.packet, w.face, DefaultFace, w.src, Broadcast)
        /\ now' = now
    BY <1>4 DEF SendDelayedInterest
  <2> HIDE DEF w
  <2>4. [PitNext]_<<now, pitVars>> /\ sent' \in Seq(Transmission)
    BY <1>3, <2>2, <2>3, InterestIsForwarded
  <2> QED BY <1>2, <1>4, <2>4 DEF SendDelayedInterest, StepOK, TableSteps
<1>5. CASE SendDelayedData(n)
  <2>1. w \in DelayedData
    BY <1>1, <1>5 DEF SendDelayedData, Nothing, DelayedInterest
  <2>2. w.packet \in DataPackets /\ w.face \in Faces /\ w.dest \in Macs
    BY <2>1 DEF DelayedData, Faces
  <2>3. ForwardDataToRemote(n, w.packet, w.face, w.dest)
    BY <1>5 DEF SendDelayedData
  <2> HIDE DEF w
  <2>4. sent' \in Seq(Transmission)
    BY <2>2, <2>3, DataIsForwarded
  <2> QED BY <1>2, <1>5, <2>4 DEF SendDelayedData, StepOK, TableSteps
<1> QED BY <1>4, <1>5

LEMMA DropWhileWaitingOK ==
    ASSUME FwdOK, NEW n \in Nodes, NEW name, DropWhileWaiting(n, name)
    PROVE  StepOK
<1>1. \/ delayed' = delayed
      \/ delayed' = [delayed EXCEPT ![n] = Nothing]
  BY DEF DropWhileWaiting
<1>2. DelayedOKNext
  BY <1>1, NothingNewWaits, OneWaits
<1> QED BY <1>2, NoneIsSent DEF DropWhileWaiting, StepOK, TableSteps

(* receiveSignal(): what is sent to the applications are Interests of the PIT *)
(* marked as timed out.                                                      *)
LEMMA PitTimerEventOK ==
    ASSUME FwdOK, NEW n \in Nodes, PitTimerEvent(n)
    PROVE  StepOK
<1>1. [PitNext]_<<now, pitVars>> /\ [FibNext]_<<now, fibVars>> /\ [CsNext]_<<now, csVars>>
  BY DEF PitTimerEvent, PitNext, PitTimerFires
<1> DEFINE told == TimedOutForApps(n)
           keep == {i \in DOMAIN pit[n] \ PitUnexpired(n) :
                       pit[n][i].face \in UpperFaces}
<1>2. pit[n] \in Seq(PitEntry) /\ keep \in SUBSET DOMAIN pit[n]
  BY PitHost DEF FwdOK
<1>3. told = Retain(pit[n], keep)
  BY DEF TimedOutForApps
<1>4. sent' = [k \in DOMAIN told |-> ToApp(n, told[k].face, Timeout(told[k].interest))]
  BY DEF PitTimerEvent
<1> HIDE DEF told, keep
<1>5. told \in Seq(PitEntry) /\ DOMAIN told = 1..Len(told) /\ Len(told) \in Nat
  BY <1>2, <1>3, RetainProperties, LenProperties
<1>6. \A k \in 1..Len(told) :
         ToApp(n, told[k].face, Timeout(told[k].interest)) \in Transmission
  <2> TAKE k \in 1..Len(told)
  <2>1. told[k] \in PitEntry
    BY <1>5, ElementOfSeq
  <2>2. told[k].face \in Faces /\ told[k].interest \in Interests
    BY <2>1 DEF PitEntry
  <2> QED BY <2>2, AppIsTransmission
<1>7. sent' \in [1..Len(told) -> Transmission]
  BY <1>4, <1>5, <1>6
<1>8. sent' \in Seq(Transmission)
  BY <1>5, <1>7, SeqDef
<1>9. DelayedOKNext
  BY NothingNewWaits DEF PitTimerEvent
<1> QED BY <1>1, <1>8, <1>9 DEF StepOK, TableSteps

LEMMA OtherTimersOK ==
    ASSUME FwdOK, NEW n \in Nodes, FibTimerEvent(n) \/ CsTimerEvent(n)
    PROVE  StepOK
<1>1. TableSteps
  BY DEF FibTimerEvent, CsTimerEvent, TableSteps, FibNext, FibTimerFires,
         CsNext, CsTimerFires
<1> QED BY <1>1, NothingNewWaits, NoneIsSent DEF FibTimerEvent, CsTimerEvent, StepOK

LEMMA FwdTickOK == ASSUME FwdOK, FwdTick PROVE StepOK
<1>1. PitTick /\ FibTick /\ CsTick
  BY DEF FwdTick, FwdTimers, Tick, PitTick, FibTick, CsTick
<1>2. TableSteps
  BY <1>1 DEF TableSteps, PitNext, FibNext, CsNext
<1> QED BY <1>2, NothingNewWaits, NoneIsSent DEF FwdTick, StepOK

LEMMA FwdIdleOK == ASSUME FwdOK, UNCHANGED fwdVars PROVE StepOK
<1>1. TableSteps /\ delayed' = delayed /\ sent' = sent
  BY DEF TableSteps, fwdVars
<1>2. DelayedOKNext
  BY <1>1, NothingNewWaits
<1> QED BY <1>1, <1>2 DEF FwdOK, StepOK

LEMMA FwdNextOK == ASSUME FwdOK, [FwdNext]_fwdVars PROVE StepOK
<1>1. ASSUME NEW n \in Nodes, LinkInterest(n) PROVE StepOK
  BY <1>1, ProcessLLInterestOK DEF LinkInterest, Neighbours
<1>2. ASSUME NEW n \in Nodes, LinkData(n) PROVE StepOK
  BY <1>2, ProcessLLDataOK DEF LinkData, Neighbours
<1>3. ASSUME NEW n \in Nodes, AppInterest(n) PROVE StepOK
  BY <1>3, ProcessHLInterestOK DEF AppInterest
<1>4. ASSUME NEW n \in Nodes, AppData(n) PROVE StepOK
  BY <1>4, ProcessHLDataOK DEF AppData
<1>5. ASSUME NEW n \in Nodes, AppRegister(n) PROVE StepOK
  BY <1>5, RegisterPrefixOK DEF AppRegister
<1>6. ASSUME NEW n \in Nodes, PacketWhileWaiting(n) PROVE StepOK
  BY <1>6, DropWhileWaitingOK DEF PacketWhileWaiting
<1>7. ASSUME NEW n \in Nodes, SendDelayedInterest(n) \/ SendDelayedData(n)
      PROVE  StepOK
  BY <1>7, SendDelayedOK
<1>8. ASSUME NEW n \in Nodes, PitTimerEvent(n) PROVE StepOK
  BY <1>8, PitTimerEventOK
<1>9. ASSUME NEW n \in Nodes, FibTimerEvent(n) \/ CsTimerEvent(n) PROVE StepOK
  BY <1>9, OtherTimersOK
<1>10. CASE FwdTick
  BY <1>10, FwdTickOK
<1>11. CASE FwdEnd \/ UNCHANGED fwdVars
  BY <1>11, FwdIdleOK DEF FwdEnd
<1> QED
  BY <1>1, <1>2, <1>3, <1>4, <1>5, <1>6, <1>7, <1>8, <1>9, <1>10, <1>11 DEF FwdNext

LEMMA FwdNextKeepsOK == FwdOK /\ [FwdNext]_fwdVars => FwdOK' /\ TableSteps
<1> SUFFICES ASSUME FwdOK, [FwdNext]_fwdVars PROVE FwdOK' /\ TableSteps
  OBVIOUS
<1>1. TableSteps /\ DelayedOKNext /\ sent' \in Seq(Transmission)
  BY FwdNextOK DEF StepOK
<1>2. PitInv' /\ FibInv' /\ CsInv'
  BY <1>1, TablesKeepInv
<1> QED BY <1>1, <1>2 DEF FwdOK, DelayedOKNext

(* The state of every host stays well formed, through all handlers.          *)
THEOREM FwdTypeCorrect == FwdSpec => []FwdTypeOK
<1>1. FwdOK => FwdTypeOK
  BY DEF FwdOK, FwdTypeOK, PitInv, FibInv, CsInv
<1> QED BY FwdInitOK, FwdNextKeepsOK, <1>1, PTL DEF FwdSpec

(* The forwarder implements the specification of each of its tables: every   *)
(* handler makes only calls that the table allows, and no event of one table *)
(* disturbs another.                                                         *)
THEOREM FwdImplementsTables == FwdSpec => FwdUsesTables
<1>1. FwdInit => PitInit /\ FibInit /\ CsInit
  BY DEF FwdInit
<1>2. TableSteps => /\ [PitNext]_<<now, pitVars>>
                    /\ [FibNext]_<<now, fibVars>>
                    /\ [CsNext]_<<now, csVars>>
  BY DEF TableSteps
<1> QED
  BY FwdInitOK, FwdNextKeepsOK, <1>1, <1>2, PTL
  DEF FwdSpec, FwdUsesTables, PitSpec, FibSpec, CsSpec
-----------------------------------------------------------------------------
(* Names: which are pending, and which the Content Store holds as fresh.     *)

PitUnique(entries) ==
    \A i, j \in DOMAIN entries :
        entries[i].interest.name = entries[j].interest.name => i = j

Pending(n, name) == \E i \in DOMAIN pit[n] : pit[n][i].interest.name = name

Fresh(n, name) ==
    \E i \in DOMAIN cs[n] : cs[n][i].data.name = name /\ cs[n][i].fresh

(* lookup() in the PIT returns nullptr only for a name that is not pending.  *)
LEMMA NotFoundIsNotPending ==
    ASSUME PitInv, NEW n \in Nodes, NEW name, PitLookup(n, name) = 0
    PROVE  ~ Pending(n, name)
  BY PitHost, PitLookupFindsFirst DEF Pending

(* A miss in the Content Store, with or without MustBeFresh, means that the   *)
(* name is not cached as fresh: the search sees every entry of a name.        *)
LEMMA MissIsNotFresh ==
    ASSUME CsInv, NEW n \in Nodes, NEW name, NEW b \in BOOLEAN,
           ~ CsHit(n, name, b)
    PROVE  ~ Fresh(n, name)
<1> SUFFICES ASSUME NEW i \in DOMAIN cs[n], cs[n][i].data.name = name, cs[n][i].fresh
             PROVE  FALSE
  BY DEF Fresh
<1> DEFINE p == CsPosition(n, name)
<1>1. p # 0 /\ p \in DOMAIN cs[n] /\ cs[n][p].data.name = name
  BY CsHost, CsPositionFindsFirst
<1>2. p = i
  BY <1>1 DEF CsInv, CsNamesUnique
<1> QED BY <1>1, <1>2 DEF CsHit

(* Erasing entries keeps names distinct and makes none pending.               *)
LEMMA RetainKeepsUnique ==
    ASSUME NEW S, NEW v \in Seq(S), NEW keep \in SUBSET DOMAIN v, PitUnique(v)
    PROVE  /\ PitUnique(Retain(v, keep))
           /\ \A k \in DOMAIN Retain(v, keep) : \E i \in keep :
                 Retain(v, keep)[k] = v[i]
<1>1. \A k \in DOMAIN Retain(v, keep) : \E i \in keep :
         Rank(keep, i) = k /\ Retain(v, keep)[k] = v[i]
  BY RetainProperties
<1>2. ASSUME NEW k \in DOMAIN Retain(v, keep), NEW l \in DOMAIN Retain(v, keep),
             Retain(v, keep)[k].interest.name = Retain(v, keep)[l].interest.name
      PROVE  k = l
  <2>1. PICK i \in keep : Rank(keep, i) = k /\ Retain(v, keep)[k] = v[i]
    BY <1>1
  <2>2. PICK j \in keep : Rank(keep, j) = l /\ Retain(v, keep)[l] = v[j]
    BY <1>1
  <2>3. i = j
    BY <1>2, <2>1, <2>2 DEF PitUnique
  <2> QED BY <2>1, <2>2, <2>3
<1> QED BY <1>1, <1>2 DEF PitUnique

(* create() of a name that is not pending.                                    *)
LEMMA PitCreateNames ==
    ASSUME PitInv, NEW n \in Nodes, NEW interest \in Interests, NEW face \in Faces,
           NEW src \in Macs, PitCreate(n, interest, face, src),
           PitUnique(pit[n]), ~ Pending(n, interest.name)
    PROVE  /\ PitUnique(pit'[n])
           /\ \A name : Pending(n, name)' => Pending(n, name) \/ name = interest.name
           /\ \A m \in Nodes : m # n => pit'[m] = pit[m]
<1> DEFINE e == [interest |-> interest, face |-> face, mac |-> src,
                 expireAt |-> now + interest.lifetime]
<1>1. pit[n] \in Seq(PitEntry) /\ now \in Nat
  BY PitHost
<1>2. e \in PitEntry /\ e.interest = interest
  BY <1>1, PacketsAssumption DEF PitEntry
<1>3. pit'[n] = Append(pit[n], e) /\ \A m \in Nodes : m # n => pit'[m] = pit[m]
  BY DEF PitCreate, PitInv, PitTypeOK
<1> HIDE DEF e
<1>4. /\ DOMAIN Append(pit[n], e) = DOMAIN pit[n] \cup {Len(pit[n]) + 1}
      /\ Append(pit[n], e)[Len(pit[n]) + 1] = e
      /\ \A i \in DOMAIN pit[n] : Append(pit[n], e)[i] = pit[n][i]
  BY <1>1, <1>2, PushBack
<1>5. \A i \in DOMAIN pit'[n] :
         \/ i \in DOMAIN pit[n] /\ pit'[n][i] = pit[n][i]
         \/ i = Len(pit[n]) + 1 /\ pit'[n][i].interest.name = interest.name
  BY <1>2, <1>3, <1>4
<1>6. PitUnique(pit'[n])
  BY <1>5 DEF PitUnique, Pending
<1>7. \A name : Pending(n, name)' => Pending(n, name) \/ name = interest.name
  BY <1>5 DEF Pending
<1> QED BY <1>3, <1>6, <1>7

(* remove(): the name is not pending any more.                                *)
LEMMA PitRemoveNames ==
    ASSUME PitInv, NEW n \in Nodes, NEW gone, PitRemove(n, gone), PitUnique(pit[n])
    PROVE  /\ PitUnique(pit'[n])
           /\ \A name : Pending(n, name)' => Pending(n, name) /\ name # gone
           /\ \A m \in Nodes : m # n => pit'[m] = pit[m]
<1> DEFINE p == PitLookup(n, gone)
           keep == DOMAIN pit[n] \ {p}
<1>1. pit[n] \in Seq(PitEntry)
  BY PitHost
<1>2. /\ p \in {0} \cup DOMAIN pit[n]
      /\ p # 0 => pit[n][p].interest.name = gone
      /\ \A i \in DOMAIN pit[n] : pit[n][i].interest.name = gone => p # 0
  BY <1>1, PitLookupFindsFirst
<1>3. CASE p = 0
  <2>1. pit' = pit
    BY <1>3 DEF PitRemove
  <2> QED BY <1>2, <1>3, <2>1 DEF Pending
<1>4. CASE p # 0
  <2>1. pit'[n] = Retain(pit[n], keep) /\ \A m \in Nodes : m # n => pit'[m] = pit[m]
    BY <1>4 DEF PitRemove, Erase, PitInv, PitTypeOK
  <2>2. keep \in SUBSET DOMAIN pit[n]
    OBVIOUS
  <2>3. \A i \in keep : pit[n][i].interest.name # gone
    BY <1>2, <1>4 DEF PitUnique
  <2> HIDE DEF keep
  <2>4. /\ PitUnique(pit'[n])
        /\ \A k \in DOMAIN pit'[n] : \E i \in keep : pit'[n][k] = pit[n][i]
    BY <1>1, <2>1, <2>2, RetainKeepsUnique
  <2>5. \A name : Pending(n, name)' => Pending(n, name) /\ name # gone
    BY <2>2, <2>3, <2>4 DEF Pending
  <2> QED BY <2>1, <2>4, <2>5
<1> QED BY <1>3, <1>4

(* The periodic check makes no name pending.                                  *)
LEMMA PitCheckNames ==
    ASSUME PitInv, NEW n \in Nodes, PitCheckTimeout(n), PitUnique(pit[n])
    PROVE  /\ PitUnique(pit'[n])
           /\ \A name : Pending(n, name)' => Pending(n, name)
           /\ \A m \in Nodes : m # n => pit'[m] = pit[m]
<1> DEFINE keep == PitUnexpired(n)
<1>1. pit[n] \in Seq(PitEntry) /\ keep \in SUBSET DOMAIN pit[n]
  BY PitHost DEF PitUnexpired
<1>2. pit'[n] = Retain(pit[n], keep) /\ \A m \in Nodes : m # n => pit'[m] = pit[m]
  BY DEF PitCheckTimeout, PitInv, PitTypeOK
<1> HIDE DEF keep
<1>3. /\ PitUnique(pit'[n])
      /\ \A k \in DOMAIN pit'[n] : \E i \in keep : pit'[n][k] = pit[n][i]
  BY <1>1, <1>2, RetainKeepsUnique
<1> QED BY <1>1, <1>2, <1>3 DEF Pending

(* add() makes at most the name it is given fresh.                            *)
LEMMA CsAddNames ==
    ASSUME CsInv, NEW n \in Nodes, NEW d \in DataPackets, CsAdd(n, d)
    PROVE  /\ \A name : Fresh(n, name)' => Fresh(n, name) \/ name = d.name
           /\ \A m \in Nodes : m # n => cs'[m] = cs[m]
<1>1. /\ cs[n] \in Seq(CsEntry) /\ now \in Nat /\ DOMAIN cs[n] = 1..Len(cs[n])
      /\ \A i \in DOMAIN cs[n] : cs[n][i] \in CsEntry
  BY CsHost
<1>2. CASE CsDisabled(n)
  BY <1>2 DEF CsDisabled, csVars, Fresh
<1>3. CASE CsRefresh(n, d)
  <2> DEFINE p == CsPosition(n, d.name)
             e == CsRenewed(cs[n][p], d)
  <2>1. p \in DOMAIN cs[n] /\ cs[n][p].data.name = d.name
    BY <1>1, <1>3, CsPositionFindsFirst DEF CsRefresh
  <2>2. e \in CsEntry /\ e.data = cs[n][p].data
    <3>1. CASE d.freshness = 0
      BY <1>1, <2>1, <3>1 DEF CsRenewed
    <3>2. CASE d.freshness > 0
      BY <1>1, <2>1, <3>2, CsEntryFacts
    <3> QED BY <3>1, <3>2, PacketsAssumption
  <2>3. cs'[n] = [cs[n] EXCEPT ![p] = e] /\ \A m \in Nodes : m # n => cs'[m] = cs[m]
    BY <1>3 DEF CsRefresh, CsInv, CsTypeOK
  <2> HIDE DEF p, e
  <2>4. \A i \in DOMAIN cs'[n] :
           /\ i \in DOMAIN cs[n]
           /\ cs'[n][i] = cs[n][i] \/ cs'[n][i].data.name = d.name
    BY <2>1, <2>2, <2>3
  <2> QED BY <2>3, <2>4 DEF Fresh
<1>4. CASE CsInsert(n, d)
  <2> DEFINE r == CsRoom(n)
             k == IF CsFull(n) THEN 1 ELSE 0
             e == CsNewEntry(d)
  <2>1. /\ r \in Seq(CsEntry)
        /\ \A i \in DOMAIN r : i + k \in DOMAIN cs[n] /\ r[i] = cs[n][i + k]
    BY <1>4, CsRoomProperties DEF CsInsert
  <2>2. e \in CsEntry /\ e.data = d
    BY <1>1, CsEntryFacts
  <2>3. cs'[n] = Append(r, e) /\ \A m \in Nodes : m # n => cs'[m] = cs[m]
    BY <1>4 DEF CsInsert, CsInv, CsTypeOK
  <2> HIDE DEF r, e, k
  <2>4. /\ DOMAIN Append(r, e) = DOMAIN r \cup {Len(r) + 1}
        /\ Append(r, e)[Len(r) + 1] = e
        /\ \A i \in DOMAIN r : Append(r, e)[i] = r[i]
    BY <2>1, <2>2, PushBack
  <2>5. \A i \in DOMAIN cs'[n] :
           \/ \E j \in DOMAIN cs[n] : cs'[n][i] = cs[n][j]
           \/ cs'[n][i].data.name = d.name
    BY <2>1, <2>2, <2>3, <2>4
  <2> QED BY <2>3, <2>5 DEF Fresh
<1> QED BY <1>2, <1>3, <1>4 DEF CsAdd

(* The check of the Content Store makes no name fresh.                        *)
LEMMA CsCheckNames ==
    ASSUME CsInv, NEW n \in Nodes, CsCheckStale(n)
    PROVE  /\ \A name : Fresh(n, name)' => Fresh(n, name)
           /\ \A m \in Nodes : m # n => cs'[m] = cs[m]
<1>1. cs[n] \in Seq(CsEntry) /\ \A i \in DOMAIN cs[n] : cs[n][i] \in CsEntry
  BY CsHost
<1>2. cs'[n] = CsAfterCheck(n) /\ \A m \in Nodes : m # n => cs'[m] = cs[m]
  BY DEF CsCheckStale, CsInv, CsTypeOK
<1>3. \A e \in CsEntry : LET u == [e EXCEPT !.fresh = FALSE] IN ~ u.fresh
  BY DEF CsEntry
<1>4. \A i \in DOMAIN cs'[n] :
         i \in DOMAIN cs[n] /\ (cs'[n][i] = cs[n][i] \/ ~ cs'[n][i].fresh)
  BY <1>1, <1>2, <1>3 DEF CsAfterCheck
<1> QED BY <1>2, <1>4 DEF Fresh
-----------------------------------------------------------------------------
(* The inductive invariant about names.  UniquePitNames is not inductive: a   *)
(* flooded Interest enters the PIT without a new lookup.  What makes up for   *)
(* it is that its name, not pending and not fresh when it was put aside,      *)
(* stays so while it waits.                                                   *)
HostNames(n) ==
    /\ PitUnique(pit[n])
    /\ \A name : Pending(n, name) => ~ Fresh(n, name)
    /\ delayed[n].type = "interest" =>
          /\ ~ Pending(n, delayed[n].packet.name)
          /\ ~ Fresh(n, delayed[n].packet.name)

FwdNames == \A n \in Nodes : HostNames(n)

OthersSame(n) ==
    \A m \in Nodes : m # n =>
        pit'[m] = pit[m] /\ cs'[m] = cs[m] /\ delayed'[m] = delayed[m]

LEMMA NamesHostStep ==
    ASSUME FwdNames, NEW n \in Nodes, OthersSame(n), HostNames(n)'
    PROVE  FwdNames'
<1>1. ASSUME NEW m \in Nodes, m # n PROVE HostNames(m)'
  BY <1>1 DEF FwdNames, HostNames, OthersSame, Pending, Fresh
<1> QED BY <1>1 DEF FwdNames

(* Steps after which no more names are pending or fresh, and no other         *)
(* Interest waits.                                                            *)
LEMMA NamesShrink ==
    ASSUME FwdNames, NEW n \in Nodes, OthersSame(n),
           PitUnique(pit'[n]),
           \A name : Pending(n, name)' => Pending(n, name),
           \A name : Fresh(n, name)' => Fresh(n, name),
           delayed'[n] = delayed[n] \/ delayed'[n].type # "interest"
    PROVE  FwdNames'
<1>1. HostNames(n)'
  BY DEF FwdNames, HostNames
<1> QED BY <1>1, NamesHostStep

(* An Interest enters the PIT under a name that was neither pending nor       *)
(* fresh.                                                                     *)
LEMMA NamesCreate ==
    ASSUME FwdOK, FwdNames, NEW n \in Nodes, NEW interest \in Interests,
           NEW from \in Faces, NEW src \in Macs,
           PitCreate(n, interest, from, src) \/ PitReject(n),
           ~ Pending(n, interest.name), ~ Fresh(n, interest.name),
           UNCHANGED csVars,
           delayed'[n].type # "interest",
           \A m \in Nodes : m # n => delayed'[m] = delayed[m]
    PROVE  FwdNames'
<1>1. PitInv /\ PitUnique(pit[n]) /\ HostNames(n) /\ cs' = cs
  BY DEF FwdOK, FwdNames, HostNames, csVars
<1>2. CASE PitCreate(n, interest, from, src)
  <2>1. /\ PitUnique(pit'[n])
        /\ \A name : Pending(n, name)' => Pending(n, name) \/ name = interest.name
        /\ \A m \in Nodes : m # n => pit'[m] = pit[m]
    BY <1>1, <1>2, PitCreateNames
  <2>2. \A name : Fresh(n, name)' => Fresh(n, name)
    BY <1>1 DEF Fresh
  <2>3. HostNames(n)'
    BY <1>1, <2>1, <2>2 DEF HostNames
  <2>4. OthersSame(n)
    BY <1>1, <2>1 DEF OthersSame
  <2> QED BY <2>3, <2>4, NamesHostStep
<1>3. CASE PitReject(n)
  <2>1. OthersSame(n) /\ pit' = pit
    BY <1>1, <1>3 DEF OthersSame, PitReject, pitVars
  <2> QED BY <1>1, <2>1, NamesShrink DEF Pending, Fresh
<1> QED BY <1>2, <1>3

(* Data of a name that, after the step, is not pending.                       *)
LEMMA NamesData ==
    ASSUME FwdOK, FwdNames, NEW n \in Nodes, NEW d \in DataPackets,
           PitUnique(pit'[n]),
           \A name : Pending(n, name)' => Pending(n, name) /\ name # d.name,
           \A m \in Nodes : m # n => pit'[m] = pit[m],
           CsAdd(n, d) \/ UNCHANGED csVars,
           delayed'[n].type # "interest",
           \A m \in Nodes : m # n => delayed'[m] = delayed[m]
    PROVE  FwdNames'
<1>1. /\ \A name : Fresh(n, name)' => Fresh(n, name) \/ name = d.name
      /\ \A m \in Nodes : m # n => cs'[m] = cs[m]
  <2>1. CASE CsAdd(n, d)
    BY <2>1, CsAddNames DEF FwdOK
  <2>2. CASE UNCHANGED csVars
    BY <2>2 DEF csVars, Fresh
  <2> QED BY <2>1, <2>2
<1>2. HostNames(n)'
  BY <1>1 DEF FwdNames, HostNames
<1>3. OthersSame(n)
  BY <1>1 DEF OthersSame
<1> QED BY <1>2, <1>3, NamesHostStep

(* A host that lets a packet in has nothing waiting.                          *)
LEMMA NotWaiting ==
    ASSUME NEW n \in Nodes, ~ Waiting(n)
    PROVE  delayed[n] = Nothing /\ delayed[n].type # "interest"
  BY DEF Waiting, Nothing

LEMMA NewNames ==
    ASSUME FwdOK, NEW n \in Nodes, NEW interest \in Interests, New(n, interest)
    PROVE  ~ Pending(n, interest.name) /\ ~ Fresh(n, interest.name)
<1>1. interest.mustBeFresh \in BOOLEAN /\ PitInv /\ CsInv
  BY PacketsAssumption DEF FwdOK
<1> QED BY <1>1, NotFoundIsNotPending, MissIsNotFresh DEF New
LEMMA ProcessLLInterestNames ==
    ASSUME FwdOK, FwdNames, NEW n \in Nodes, NEW interest \in Interests,
           NEW from \in LowerFaces, NEW src \in Macs,
           ProcessLLInterest(n, interest, from, src)
    PROVE  FwdNames'
<1>1. /\ UNCHANGED csVars /\ cs' = cs /\ from \in Faces
      /\ delayed[n].type # "interest" /\ PitUnique(pit[n])
      /\ \A name : Fresh(n, name)' => Fresh(n, name)
  BY NotWaiting DEF ProcessLLInterest, csVars, Faces, Fresh, FwdNames, HostNames
<1>2. CASE \/ LLAnswerFromCache(n, interest, from, src)
           \/ DropDuplicate(n, interest)
           \/ LLDropInterest(n, interest)
  <2>1. pit' = pit /\ delayed' = delayed
    BY <1>2 DEF LLAnswerFromCache, DropDuplicate, LLDropInterest, pitVars
  <2> QED BY <1>1, <2>1, NamesShrink DEF OthersSame, Pending
<1>3. CASE LLFollowRoute(n, interest, from, src)
  <2>1. PitCreate(n, interest, from, src) \/ PitReject(n)
    BY <1>3 DEF LLFollowRoute, ForwardInterestToRemote, ForwardInterestToLocal
  <2>2. ~ Pending(n, interest.name) /\ ~ Fresh(n, interest.name)
    BY <1>3, NewNames DEF LLFollowRoute
  <2>3. delayed' = delayed
    BY <1>3 DEF LLFollowRoute
  <2> QED BY <1>1, <2>1, <2>2, <2>3, NamesCreate
<1>4. CASE LLDelayFlooding(n, interest, from, src)
  <2>1. PICK delay \in InterestDelays :
           delayed' = [delayed EXCEPT ![n] =
                          [type |-> "interest", packet |-> interest,
                           face |-> from, src |-> src, at |-> now + delay]]
    BY <1>4 DEF LLDelayFlooding
  <2>2. pit' = pit /\ ~ Pending(n, interest.name) /\ ~ Fresh(n, interest.name)
    BY <1>4, NewNames DEF LLDelayFlooding, pitVars
  <2>3. /\ delayed'[n].packet = interest
        /\ \A m \in Nodes : m # n => delayed'[m] = delayed[m]
    BY <2>1 DEF FwdOK
  <2>4. /\ \A name : Pending(n, name)' <=> Pending(n, name)
        /\ \A name : Fresh(n, name)' <=> Fresh(n, name)
    BY <1>1, <2>2 DEF Pending, Fresh
  <2>5. PitUnique(pit[n])' /\ (\A name : Pending(n, name) => ~ Fresh(n, name))'
    BY <1>1, <2>2, <2>4 DEF FwdNames, HostNames
  <2>6. HostNames(n)'
    BY <2>2, <2>3, <2>4, <2>5 DEF HostNames
  <2> QED BY <1>1, <2>2, <2>3, <2>6, NamesHostStep DEF OthersSame
<1> QED BY <1>2, <1>3, <1>4 DEF ProcessLLInterest

LEMMA ProcessHLInterestNames ==
    ASSUME FwdOK, FwdNames, NEW n \in Nodes, NEW interest \in Interests,
           NEW from \in UpperFaces, ProcessHLInterest(n, interest, from)
    PROVE  FwdNames'
<1>1. /\ UNCHANGED csVars /\ cs' = cs /\ delayed' = delayed /\ from \in Faces
      /\ delayed[n].type # "interest" /\ PitUnique(pit[n]) /\ MacOf[n] \in Macs
      /\ \A name : Fresh(n, name)' => Fresh(n, name)
  BY NotWaiting, ForwardingAssumption
  DEF ProcessHLInterest, HLAnswerFromCache, DropDuplicate, HLSend, csVars, Faces,
      Fresh, FwdNames, HostNames
<1>2. CASE HLAnswerFromCache(n, interest, from) \/ DropDuplicate(n, interest)
  <2>1. pit' = pit
    BY <1>2 DEF HLAnswerFromCache, DropDuplicate, pitVars
  <2> QED BY <1>1, <2>1, NamesShrink DEF OthersSame, Pending
<1>3. CASE HLSend(n, interest, from)
  <2>1. PitCreate(n, interest, from, MacOf[n]) \/ PitReject(n)
    BY <1>3 DEF HLSend, ForwardInterestToRemote, ForwardInterestToLocal
  <2>2. ~ Pending(n, interest.name) /\ ~ Fresh(n, interest.name)
    BY <1>3, NewNames DEF HLSend
  <2> QED BY <1>1, <2>1, <2>2, NamesCreate
<1> QED BY <1>2, <1>3 DEF ProcessHLInterest

LEMMA UnsolicitedNames ==
    ASSUME FwdOK, FwdNames, NEW n \in Nodes, NEW d \in DataPackets,
           ~ Waiting(n), Unsolicited(n, d)
    PROVE  FwdNames'
<1>1. /\ pit' = pit /\ delayed' = delayed
      /\ delayed[n].type # "interest" /\ PitUnique(pit[n])
  BY NotWaiting DEF Unsolicited, pitVars, FwdNames, HostNames
<1>2. ~ Pending(n, d.name)
  BY NotFoundIsNotPending DEF Unsolicited, FwdOK
<1>3. \A name : Pending(n, name)' => Pending(n, name) /\ name # d.name
  BY <1>1, <1>2 DEF Pending
<1>4. CsAdd(n, d) \/ UNCHANGED csVars
  BY DEF Unsolicited
<1> QED BY <1>1, <1>3, <1>4, NamesData

LEMMA ProcessDataNames ==
    ASSUME FwdOK, FwdNames, NEW n \in Nodes, NEW d \in DataPackets,
           NEW face \in LowerFaces, NEW src \in Macs,
           ProcessLLData(n, d, face, src) \/ ProcessHLData(n, d)
    PROVE  FwdNames'
<1>1. ~ Waiting(n)
  BY DEF ProcessLLData, ProcessHLData
<1>2. CASE Unsolicited(n, d)
  BY <1>1, <1>2, UnsolicitedNames
<1>3. CASE SolicitedLL(n, d, face, src) \/ SolicitedHL(n, d)
  <2>1. PitRemove(n, d.name) /\ CsAdd(n, d)
    BY <1>3 DEF SolicitedLL, SolicitedHL
  <2>2. /\ PitUnique(pit'[n])
        /\ \A name : Pending(n, name)' => Pending(n, name) /\ name # d.name
        /\ \A m \in Nodes : m # n => pit'[m] = pit[m]
    BY <2>1, PitRemoveNames DEF FwdOK, FwdNames, HostNames
  <2>3. /\ delayed'[n].type # "interest"
        /\ \A m \in Nodes : m # n => delayed'[m] = delayed[m]
    <3>1. CASE delayed' = delayed
      BY <1>1, <3>1, NotWaiting
    <3>2. CASE LLDelayData(n, d)
      BY <3>2 DEF LLDelayData, FwdOK
    <3> QED BY <1>3, <3>1, <3>2 DEF SolicitedLL, SolicitedHL, LLDeliverData, LLKeepData
  <2> QED BY <2>1, <2>2, <2>3, NamesData
<1> QED BY <1>2, <1>3 DEF ProcessLLData, ProcessHLData

(* The delayed Interest enters the PIT under the name kept free for it.       *)
LEMMA SendDelayedNames ==
    ASSUME FwdOK, FwdNames, NEW n \in Nodes,
           SendDelayedInterest(n) \/ SendDelayedData(n)
    PROVE  FwdNames'
<1>1. /\ UNCHANGED csVars /\ cs' = cs
      /\ delayed'[n].type # "interest"
      /\ \A m \in Nodes : m # n => delayed'[m] = delayed[m]
  BY DEF SendDelayedInterest, SendDelayedData, csVars, Nothing, FwdOK
<1>2. CASE SendDelayedInterest(n)
  <2> DEFINE w == delayed[n]
  <2>1. w \in DelayedInterest /\ w.type = "interest"
    BY <1>2 DEF SendDelayedInterest, FwdOK, Nothing, DelayedInterest, DelayedData
  <2>2. w.packet \in Interests /\ w.face \in Faces /\ w.src \in Macs
    BY <2>1 DEF DelayedInterest, Faces
  <2>3. PitCreate(n, w.packet, w.face, w.src) \/ PitReject(n)
    BY <1>2 DEF SendDelayedInterest, ForwardInterestToRemote
  <2>4. ~ Pending(n, w.packet.name) /\ ~ Fresh(n, w.packet.name)
    BY <2>1 DEF FwdNames, HostNames
  <2> HIDE DEF w
  <2> QED BY <1>1, <2>2, <2>3, <2>4, NamesCreate
<1>3. CASE SendDelayedData(n)
  <2>1. pit' = pit
    BY <1>3 DEF SendDelayedData, pitVars
  <2> QED BY <1>1, <2>1, NamesShrink DEF OthersSame, Pending, Fresh, FwdNames, HostNames
<1> QED BY <1>2, <1>3

LEMMA OtherStepsNames ==
    ASSUME FwdNames, pit' = pit, cs' = cs, delayed' = delayed
    PROVE  FwdNames'
  BY DEF FwdNames, HostNames, Pending, Fresh

LEMMA DropWhileWaitingNames ==
    ASSUME FwdOK, FwdNames, NEW n \in Nodes, NEW name, DropWhileWaiting(n, name)
    PROVE  FwdNames'
<1>1. pit' = pit /\ cs' = cs
  BY DEF DropWhileWaiting, pitVars, csVars
<1>2. CASE delayed' = delayed
  BY <1>1, <1>2, OtherStepsNames
<1>3. CASE delayed' = [delayed EXCEPT ![n] = Nothing]
  <2>1. /\ delayed'[n].type # "interest"
        /\ \A m \in Nodes : m # n => delayed'[m] = delayed[m]
    BY <1>3 DEF FwdOK, Nothing
  <2> QED BY <1>1, <2>1, NamesShrink DEF OthersSame, Pending, Fresh, FwdNames, HostNames
<1> QED BY <1>2, <1>3 DEF DropWhileWaiting

LEMMA TimersNames ==
    ASSUME FwdOK, FwdNames, NEW n \in Nodes,
           PitTimerEvent(n) \/ CsTimerEvent(n)
    PROVE  FwdNames'
<1>1. PitUnique(pit[n]) /\ PitInv /\ CsInv /\ delayed' = delayed
  BY DEF FwdOK, FwdNames, HostNames, PitTimerEvent, CsTimerEvent
<1>2. CASE PitTimerEvent(n)
  <2>1. PitCheckTimeout(n) /\ cs' = cs
    BY <1>2 DEF PitTimerEvent, csVars
  <2>2. /\ PitUnique(pit'[n])
        /\ \A name : Pending(n, name)' => Pending(n, name)
        /\ \A m \in Nodes : m # n => pit'[m] = pit[m]
    BY <1>1, <2>1, PitCheckNames
  <2>3. \A name : Fresh(n, name)' => Fresh(n, name)
    BY <2>1 DEF Fresh
  <2> QED BY <1>1, <2>1, <2>2, <2>3, NamesShrink DEF OthersSame
<1>3. CASE CsTimerEvent(n)
  <2>1. CsCheckStale(n) /\ pit' = pit
    BY <1>3 DEF CsTimerEvent, pitVars
  <2>2. /\ \A name : Fresh(n, name)' => Fresh(n, name)
        /\ \A m \in Nodes : m # n => cs'[m] = cs[m]
    BY <1>1, <2>1, CsCheckNames
  <2>3. \A name : Pending(n, name)' => Pending(n, name)
    BY <2>1 DEF Pending
  <2> QED BY <1>1, <2>1, <2>2, <2>3, NamesShrink DEF OthersSame
<1> QED BY <1>2, <1>3

LEMMA FwdInitNames == FwdInit => FwdNames
<1> SUFFICES ASSUME FwdInit, NEW n \in Nodes PROVE HostNames(n)
  BY DEF FwdNames
<1>1. pit[n] = <<>> /\ cs[n] = <<>> /\ delayed[n].type = "nothing"
  BY DEF FwdInit, PitInit, CsInit, Nothing
<1>2. DOMAIN pit[n] = {} /\ DOMAIN cs[n] = {}
  BY <1>1
<1> QED BY <1>1, <1>2 DEF HostNames, PitUnique, Pending, Fresh

LEMMA FwdNextNames == FwdOK /\ FwdNames /\ [FwdNext]_fwdVars => FwdNames'
<1> SUFFICES ASSUME FwdOK, FwdNames, [FwdNext]_fwdVars PROVE FwdNames'
  OBVIOUS
<1>1. ASSUME NEW n \in Nodes, LinkInterest(n) PROVE FwdNames'
  BY <1>1, ProcessLLInterestNames DEF LinkInterest, Neighbours
<1>2. ASSUME NEW n \in Nodes, LinkData(n) PROVE FwdNames'
  BY <1>2, ProcessDataNames DEF LinkData, Neighbours
<1>3. ASSUME NEW n \in Nodes, AppInterest(n) PROVE FwdNames'
  BY <1>3, ProcessHLInterestNames DEF AppInterest
<1>4. ASSUME NEW n \in Nodes, AppData(n) PROVE FwdNames'
  BY <1>4, ProcessDataNames, ForwardingAssumption DEF AppData
<1>5. ASSUME NEW n \in Nodes, AppRegister(n) \/ FibTimerEvent(n) PROVE FwdNames'
  BY <1>5, OtherStepsNames
  DEF AppRegister, RegisterPrefix, FibTimerEvent, pitVars, csVars
<1>6. ASSUME NEW n \in Nodes, PacketWhileWaiting(n) PROVE FwdNames'
  BY <1>6, DropWhileWaitingNames DEF PacketWhileWaiting
<1>7. ASSUME NEW n \in Nodes, SendDelayedInterest(n) \/ SendDelayedData(n)
      PROVE  FwdNames'
  BY <1>7, SendDelayedNames
<1>8. ASSUME NEW n \in Nodes, PitTimerEvent(n) \/ CsTimerEvent(n) PROVE FwdNames'
  BY <1>8, TimersNames
<1>9. CASE FwdTick \/ FwdEnd \/ UNCHANGED fwdVars
  BY <1>9, OtherStepsNames DEF FwdTick, FwdEnd, fwdVars, pitVars, csVars
<1> QED BY <1>1, <1>2, <1>3, <1>4, <1>5, <1>6, <1>7, <1>8, <1>9 DEF FwdNext

(* No name is pending twice in a host, although create() does not look: the   *)
(* name of a flooded Interest stays free for it from lookup to create().      *)
THEOREM FwdPitNamesUnique == FwdSpec => []UniquePitNames
<1>1. FwdNames => UniquePitNames
  BY DEF FwdNames, HostNames, PitUnique, UniquePitNames
<1> QED BY FwdInitOK, FwdInitNames, FwdNextKeepsOK, FwdNextNames, <1>1, PTL DEF FwdSpec

(* No Interest is pending in a host whose Content Store holds fresh Data of   *)
(* its name, however checks, unsolicited Data and delayed sending interleave. *)
THEOREM FwdNothingFreshIsPending == FwdSpec => []NothingFreshIsPending
<1>1. FwdOK /\ FwdNames => NothingFreshIsPending
  <2> SUFFICES ASSUME FwdOK, FwdNames, NEW n \in Nodes, NEW i \in DOMAIN pit[n],
                      CsHit(n, pit[n][i].interest.name, TRUE)
               PROVE  FALSE
    BY DEF NothingFreshIsPending
  <2> DEFINE name == pit[n][i].interest.name
             p == CsPosition(n, name)
  <2>1. p \in DOMAIN cs[n] /\ cs[n][p].data.name = name /\ cs[n][p].fresh
    BY CsHost, CsPositionFindsFirst DEF CsHit, FwdOK
  <2>2. Pending(n, name) /\ Fresh(n, name)
    BY <2>1 DEF Pending, Fresh
  <2> QED BY <2>2 DEF FwdNames, HostNames
<1> QED BY FwdInitOK, FwdInitNames, FwdNextKeepsOK, FwdNextNames, <1>1, PTL DEF FwdSpec
-----------------------------------------------------------------------------
(* What becomes of a pending Interest.                                        *)

Traced == \A n \in Nodes : \A e \in UsedUp(n) : Settled(n, e)

(* A table that only grows loses no entry.                                    *)
LEMMA NoneUsedUp ==
    ASSUME FwdOK, NEW n \in Nodes,
           pit'[n] = pit[n] \/ \E e \in PitEntry : pit'[n] = Append(pit[n], e)
    PROVE  UsedUp(n) = {}
<1>1. pit[n] \in Seq(PitEntry)
  BY PitHost DEF FwdOK
<1>2. CASE pit'[n] = pit[n]
  BY <1>2 DEF UsedUp
<1>3. ASSUME NEW e \in PitEntry, pit'[n] = Append(pit[n], e) PROVE UsedUp(n) = {}
  <2>1. \A i \in DOMAIN pit[n] : i \in DOMAIN pit'[n] /\ pit'[n][i] = pit[n][i]
    BY <1>1, <1>3, PushBack
  <2> QED BY <2>1 DEF UsedUp, ToSet
<1> QED BY <1>2, <1>3

LEMMA CreateUsesNone ==
    ASSUME FwdOK, NEW n \in Nodes, NEW interest \in Interests, NEW from \in Faces,
           NEW src \in Macs, PitCreate(n, interest, from, src) \/ PitReject(n)
    PROVE  \A m \in Nodes : UsedUp(m) = {}
<1> DEFINE e == [interest |-> interest, face |-> from, mac |-> src,
                 expireAt |-> now + interest.lifetime]
<1>1. pit \in [Nodes -> Seq(PitEntry)] /\ now \in Nat
  BY DEF FwdOK, PitInv, PitTypeOK
<1>2. e \in PitEntry
  BY <1>1, PacketsAssumption DEF PitEntry
<1>3. CASE PitCreate(n, interest, from, src)
  <2>1. pit'[n] = Append(pit[n], e) /\ \A m \in Nodes : m # n => pit'[m] = pit[m]
    BY <1>1, <1>3 DEF PitCreate
  <2> HIDE DEF e
  <2> QED BY <1>2, <2>1, NoneUsedUp
<1>4. CASE PitReject(n)
  BY <1>4, NoneUsedUp DEF PitReject, pitVars
<1> QED BY <1>3, <1>4

(* remove() takes the one entry of a pending name and no other.               *)
LEMMA RemoveUsesUp ==
    ASSUME FwdOK, FwdNames, NEW n \in Nodes, NEW name, PitRemove(n, name),
           PitLookup(n, name) # 0
    PROVE  /\ UsedUp(n) = {pit[n][PitLookup(n, name)]}
           /\ \A m \in Nodes : m # n => UsedUp(m) = {}
<1> DEFINE p == PitLookup(n, name)
           keep == DOMAIN pit[n] \ {p}
<1>1. pit \in [Nodes -> Seq(PitEntry)] /\ pit[n] \in Seq(PitEntry) /\ PitInv
  BY DEF FwdOK, PitInv, PitTypeOK
<1>2. p \in DOMAIN pit[n] /\ pit[n][p].interest.name = name
  BY <1>1, PitLookupFindsFirst
<1>3. pit'[n] = Retain(pit[n], keep) /\ \A m \in Nodes : m # n => pit'[m] = pit[m]
  BY <1>1 DEF PitRemove, Erase
<1>4. keep \in SUBSET DOMAIN pit[n] /\ \A i \in DOMAIN pit[n] : i \in keep \/ i = p
  OBVIOUS
<1>5. ~ Pending(n, name)'
  BY <1>1, PitRemoveNames DEF FwdNames, HostNames
<1>6. pit[n][p] \notin ToSet(pit'[n])
  BY <1>2, <1>5 DEF Pending, ToSet
<1> HIDE DEF keep, p
<1>7. \A i \in keep : pit[n][i] \in ToSet(pit'[n])
  BY <1>1, <1>3, <1>4, RetainProperties DEF ToSet
<1>8. UsedUp(n) = {pit[n][p]}
  BY <1>2, <1>4, <1>6, <1>7 DEF UsedUp, ToSet
<1>9. \A m \in Nodes : m # n => UsedUp(m) = {}
  BY <1>3, NoneUsedUp
<1> QED BY <1>8, <1>9 DEF p

(* Steps that take nothing from a PIT.                                        *)
LEMMA NothingToTrace == ASSUME \A m \in Nodes : UsedUp(m) = {} PROVE Traced
  BY DEF Traced

LEMMA SamePit ==
    ASSUME FwdOK, UNCHANGED pitVars PROVE \A m \in Nodes : UsedUp(m) = {}
  BY NoneUsedUp DEF pitVars

LEMMA SilentSends == ASSUME Silent PROVE DOMAIN sent' = {}
  BY DEF Silent

LEMMA InterestIsSent ==
    ASSUME NEW n, NEW interest \in Interests, NEW from, NEW face, NEW src, NEW dest,
           \/ ForwardInterestToRemote(n, interest, from, face, src, dest)
           \/ ForwardInterestToLocal(n, interest, from, face, src)
    PROVE  /\ \A k \in DOMAIN sent' : sent'[k].packet.type # "data"
           /\ PitCreate(n, interest, from, src) \/ PitReject(n)
<1>1. interest.type = "interest"
  BY PacketsAssumption
<1>2. CASE Silent
  BY <1>2, SilentSends DEF ForwardInterestToRemote, ForwardInterestToLocal
<1>3. ASSUME NEW mac, sent' = <<ToLink(n, face, mac, interest)>>
      PROVE  \A k \in DOMAIN sent' : sent'[k].packet.type # "data"
  <2>1. DOMAIN sent' = {1} /\ sent'[1].packet = interest
    BY <1>3 DEF ToLink
  <2> QED BY <1>1, <2>1
<1> QED BY <1>2, <1>3 DEF ForwardInterestToRemote, ForwardInterestToLocal, ToApp

(* Interests take nothing from a PIT.                                         *)
LEMMA InterestsTraced ==
    ASSUME FwdOK, NEW n \in Nodes, NEW interest \in Interests, NEW from \in Faces,
           NEW src \in Macs,
           \/ ProcessLLInterest(n, interest, from, src)
           \/ src = MacOf[n] /\ ProcessHLInterest(n, interest, from)
    PROVE  Traced
<1>1. CASE UNCHANGED pitVars
  BY <1>1, SamePit, NothingToTrace
<1>2. CASE PitCreate(n, interest, from, src) \/ PitReject(n)
  BY <1>2, CreateUsesNone, NothingToTrace
<1> QED
  BY <1>1, <1>2
  DEF ProcessLLInterest, LLAnswerFromCache, DropDuplicate, LLFollowRoute,
      LLDelayFlooding, LLDropInterest, ProcessHLInterest, HLAnswerFromCache, HLSend,
      ForwardInterestToRemote, ForwardInterestToLocal

(* Data for a pending Interest: it goes to the face and the previous hop of   *)
(* the entry that is removed.                                                 *)
LEMMA SolicitedTraced ==
    ASSUME FwdOK, FwdNames, NEW n \in Nodes, NEW d \in DataPackets, ~ Waiting(n),
           PitLookup(n, d.name) # 0, PitRemove(n, d.name),
           \/ LLDelayData(n, d) \/ LLDeliverData(n, d) \/ LLKeepData(n, d)
           \/ /\ delayed' = delayed
              /\ LET pe == Breadcrumb(n, d) IN
                 IF pe.face \in LowerFaces
                 THEN ForwardDataToRemote(n, d, pe.face, pe.mac)
                 ELSE ForwardDataToLocal(n, d, pe.face)
    PROVE  Traced
<1> DEFINE e == Breadcrumb(n, d)
<1>1. UsedUp(n) = {e} /\ \A m \in Nodes : m # n => UsedUp(m) = {}
  BY RemoveUsesUp DEF Breadcrumb
<1>2. e.face \in Faces /\ e.interest.name = d.name /\ d.type = "data"
  BY FoundEntries, PacketsAssumption DEF Breadcrumb
<1>3. /\ e.face \in UpperFaces <=> e.face \notin LowerFaces
      /\ delayed[n] = Nothing /\ Nothing.type = "nothing"
  BY <1>2, FacesAssumption DEF Faces, Waiting, Nothing
<1>4. CASE LLDelayData(n, d)
  <2>1. PICK delay \in DataDelays :
           delayed' = [delayed EXCEPT ![n] =
                          [type |-> "data", packet |-> d, face |-> e.face,
                           dest |-> e.mac, at |-> now + delay]]
    BY <1>4 DEF LLDelayData
  <2>2. PutsAsideFor(n, e) /\ \A m \in Nodes : m # n => delayed'[m] = delayed[m]
    <3> HIDE DEF e
    <3> QED BY <1>2, <2>1 DEF PutsAsideFor, FwdOK
  <2> HIDE DEF e
  <2> QED BY <1>1, <2>2 DEF Traced, Settled
<1>5. CASE LLKeepData(n, d)
  <2>1. e.face \in LowerFaces /\ n \notin Forwarders
    BY <1>5 DEF LLKeepData
  <2> HIDE DEF e
  <2> QED BY <1>1, <2>1 DEF Traced, Settled
<1>6. ASSUME sent' = <<ToLink(n, e.face, IF e.face \in UpperFaces THEN MacOf[n]
                                         ELSE DataDest(e.mac), d)>>,
             delayed' = delayed
      PROVE  Traced
  <2> HIDE DEF e
  <2>1. DOMAIN sent' = {1} /\ sent'[1].node = n /\ SendsFor(n, e, sent'[1])
    BY <1>2, <1>6 DEF ToLink, SendsFor
  <2> QED BY <1>1, <1>6, <2>1 DEF Traced, Settled
<1>7. CASE LLDeliverData(n, d)
  BY <1>3, <1>6, <1>7 DEF LLDeliverData, ForwardDataToLocal, ToApp
<1>8. CASE /\ delayed' = delayed
           /\ IF e.face \in LowerFaces THEN ForwardDataToRemote(n, d, e.face, e.mac)
                                       ELSE ForwardDataToLocal(n, d, e.face)
  BY <1>3, <1>6, <1>8 DEF ForwardDataToRemote, ForwardDataToLocal, ToApp
<1> QED BY <1>4, <1>5, <1>7, <1>8

LEMMA ProcessDataTraced ==
    ASSUME FwdOK, FwdNames, NEW n \in Nodes, NEW d \in DataPackets,
           NEW face, NEW src,
           ProcessLLData(n, d, face, src) \/ ProcessHLData(n, d)
    PROVE  Traced
<1>1. CASE Unsolicited(n, d)
  BY <1>1, SamePit, NothingToTrace DEF Unsolicited
<1>2. CASE SolicitedLL(n, d, face, src) \/ SolicitedHL(n, d)
  <2>1. ~ Waiting(n)
    BY DEF ProcessLLData, ProcessHLData
  <2> QED BY <1>2, <2>1, SolicitedTraced DEF SolicitedLL, SolicitedHL
<1> QED BY <1>1, <1>2 DEF ProcessLLData, ProcessHLData

LEMMA SendDelayedTraced ==
    ASSUME FwdOK, NEW n \in Nodes, SendDelayedInterest(n) \/ SendDelayedData(n)
    PROVE  Traced
<1>1. CASE SendDelayedInterest(n)
  <2> DEFINE w == delayed[n]
  <2>1. w \in DelayedInterest
    BY <1>1 DEF FwdOK, SendDelayedInterest, Nothing, DelayedData
  <2>2. w.packet \in Interests /\ w.face \in Faces /\ w.src \in Macs
    BY <2>1 DEF DelayedInterest, Faces
  <2>3. PitCreate(n, w.packet, w.face, w.src) \/ PitReject(n)
    BY <1>1 DEF SendDelayedInterest, ForwardInterestToRemote
  <2> HIDE DEF w
  <2> QED BY <2>2, <2>3, CreateUsesNone, NothingToTrace
<1>2. CASE SendDelayedData(n)
  BY <1>2, SamePit, NothingToTrace DEF SendDelayedData
<1> QED BY <1>1, <1>2

(* An entry that times out and came from an application is among those that  *)
(* receiveSignal() returns.                                                  *)
LEMMA PitTimerTraced ==
    ASSUME FwdOK, NEW n \in Nodes, PitTimerEvent(n)
    PROVE  Traced
<1> DEFINE told == TimedOutForApps(n)
           keep == PitUnexpired(n)
           gone == {i \in DOMAIN pit[n] \ PitUnexpired(n) :
                       pit[n][i].face \in UpperFaces}
<1>1. /\ pit \in [Nodes -> Seq(PitEntry)] /\ pit[n] \in Seq(PitEntry)
      /\ now \in Nat /\ \A i \in DOMAIN pit[n] : pit[n][i] \in PitEntry
  BY PitHost DEF FwdOK, PitInv, PitTypeOK
<1>2. /\ keep \in SUBSET DOMAIN pit[n] /\ gone \in SUBSET DOMAIN pit[n]
      /\ \A i \in DOMAIN pit[n] \ keep :
            pit[n][i].expireAt <= now /\ (pit[n][i].face \in UpperFaces => i \in gone)
  BY <1>1 DEF PitUnexpired, PitEntry
<1>3. /\ pit'[n] = Retain(pit[n], keep)
      /\ \A m \in Nodes : m # n => pit'[m] = pit[m]
  BY <1>1 DEF PitTimerEvent, PitCheckTimeout
<1>4. /\ told = Retain(pit[n], gone)
      /\ sent' = [k \in DOMAIN told |->
                     ToApp(n, told[k].face, Timeout(told[k].interest))]
  BY DEF TimedOutForApps, PitTimerEvent
<1> HIDE DEF told, keep, gone
<1>5. \A i \in keep : pit[n][i] \in ToSet(pit'[n])
  BY <1>1, <1>2, <1>3, RetainProperties DEF ToSet
<1>6. \A e \in UsedUp(n) : \E i \in DOMAIN pit[n] \ keep : e = pit[n][i]
  BY <1>5 DEF UsedUp, ToSet
<1>7. \A i \in gone : \E k \in DOMAIN told : told[k] = pit[n][i]
  BY <1>1, <1>2, <1>4, RetainProperties
<1>8. ASSUME NEW e \in UsedUp(n) PROVE Settled(n, e)
  <2>1. PICK i \in DOMAIN pit[n] \ keep : e = pit[n][i]
    BY <1>6
  <2>2. e.face \in UpperFaces =>
           \E k \in DOMAIN sent' : sent'[k] = ToApp(n, e.face, Timeout(e.interest))
    BY <1>2, <1>4, <1>7, <2>1
  <2> QED BY <1>2, <2>1, <2>2 DEF Settled
<1>9. \A m \in Nodes : m # n => UsedUp(m) = {}
  BY <1>3, NoneUsedUp
<1> QED BY <1>8, <1>9 DEF Traced
LEMMA FwdNextTraced ==
    ASSUME FwdOK, FwdNames, [FwdNext]_fwdVars PROVE Traced \/ UNCHANGED fwdVars
<1>1. ASSUME NEW n \in Nodes, LinkInterest(n) \/ AppInterest(n) PROVE Traced
  BY <1>1, InterestsTraced, ForwardingAssumption
  DEF LinkInterest, AppInterest, Neighbours, Faces
<1>2. ASSUME NEW n \in Nodes, LinkData(n) \/ AppData(n) PROVE Traced
  BY <1>2, ProcessDataTraced DEF LinkData, AppData
<1>3. ASSUME NEW n \in Nodes,
             \/ AppRegister(n) \/ PacketWhileWaiting(n)
             \/ FibTimerEvent(n) \/ CsTimerEvent(n)
      PROVE  Traced
  BY <1>3, SamePit, NothingToTrace
  DEF AppRegister, RegisterPrefix, PacketWhileWaiting, DropWhileWaiting,
      FibTimerEvent, CsTimerEvent
<1>4. ASSUME NEW n \in Nodes, SendDelayedInterest(n) \/ SendDelayedData(n)
      PROVE  Traced
  BY <1>4, SendDelayedTraced
<1>5. ASSUME NEW n \in Nodes, PitTimerEvent(n) PROVE Traced
  BY <1>5, PitTimerTraced
<1>6. CASE FwdTick
  BY <1>6, SamePit, NothingToTrace DEF FwdTick
<1> QED BY <1>1, <1>2, <1>3, <1>4, <1>5, <1>6 DEF FwdNext, FwdEnd

(* No pending Interest disappears without Data for it, its time-out told to   *)
(* its application, or a host that may not pass the answer on.                *)
THEOREM FwdPendingIsAccountedFor == FwdSpec => PendingIsAccountedFor
<1>1. FwdOK /\ FwdNames /\ [FwdNext]_fwdVars =>
         [\A n \in Nodes : \A e \in UsedUp(n) : Settled(n, e)]_fwdVars
  BY FwdNextTraced DEF Traced
<1> QED
  BY FwdInitOK, FwdInitNames, FwdNextKeepsOK, FwdNextNames, <1>1, PTL
  DEF FwdSpec, PendingIsAccountedFor
-----------------------------------------------------------------------------
(* Debts: Data is sent to those who asked, and once.                          *)

(* Data that is put aside is for an entry that is gone, and no other entry of *)
(* its name comes while it waits.                                             *)
DelayedIsAlone ==
    \A n \in Nodes :
        delayed[n].type = "data" => ~ Pending(n, delayed[n].packet.name)

(* A step of host n, seen from outside.                                       *)
StepOf(n) ==
    /\ \A m \in Nodes : m # n => pit'[m] = pit[m] /\ delayed'[m] = delayed[m]
    /\ \A k \in DOMAIN sent' : sent'[k].node = n

(* All Data of the step answers that request, which may be owed it later.     *)
Answers(n, debt) ==
    /\ Owed(n)' \subseteq Owed(n) \cup {debt}
    /\ \A k \in SentData(n) : Pays(n, debt, sent'[k])
    /\ AtMostOneIsSent(n)

(* All Data of the step pays a debt, which is gone, and there are no new ones. *)
Settling(n) ==
    /\ Owed(n)' \subseteq Owed(n)
    /\ \A k \in SentData(n) :
          \E debt \in Owed(n) \ Owed(n)' : Pays(n, debt, sent'[k])
    /\ AtMostOneIsSent(n)

HostFollowsInterest(n) == DebtsAreRequested(n) /\ DataPaysDebts(n) /\ AtMostOneIsSent(n)

LEMMA NoDataIsSent ==
    ASSUME NEW n, \A k \in DOMAIN sent' : sent'[k].packet.type # "data"
    PROVE  SentData(n) = {} /\ AtMostOneIsSent(n)
  BY DEF SentData, AtMostOneIsSent

LEMMA OneDataIsSent ==
    ASSUME NEW n, NEW face, NEW mac, NEW d, sent' = <<ToLink(n, face, mac, d)>>
    PROVE  /\ \A k \in DOMAIN sent' :
                 /\ sent'[k].node = n /\ sent'[k].face = face
                 /\ sent'[k].dest = mac /\ sent'[k].packet = d
           /\ AtMostOneIsSent(n)
<1>1. DOMAIN sent' = {1} /\ sent'[1] = ToLink(n, face, mac, d)
  OBVIOUS
<1>2. AtMostOneIsSent(n)
  BY <1>1 DEF SentData, AtMostOneIsSent
<1> QED BY <1>1, <1>2 DEF ToLink

LEMMA SameDebts ==
    ASSUME NEW n, pit'[n] = pit[n], delayed'[n] = delayed[n]
    PROVE  Owed(n)' = Owed(n)
  BY DEF Owed, PitDebts, DelayedDebts

LEMMA NothingIsOwed ==
    ASSUME NEW n PROVE delayed[n] = Nothing => DelayedDebts(n) = {}
  BY DEF DelayedDebts, Nothing

LEMMA NothingIsOwedNext ==
    ASSUME NEW n PROVE delayed'[n] = Nothing => DelayedDebts(n)' = {}
  BY DEF DelayedDebts, Nothing

(* A debt in the PIT is of a pending name.                                    *)
LEMMA PitDebtsArePending ==
    ASSUME NEW n, NEW name, ~ Pending(n, name)
    PROVE  \A face, mac : Debt(name, face, mac) \notin PitDebts(n)
  BY DEF Pending, PitDebts, Debt, ToSet

LEMMA PitDebtsArePendingNext ==
    ASSUME NEW n, NEW name, ~ Pending(n, name)'
    PROVE  \A face, mac : Debt(name, face, mac) \notin PitDebts(n)'
  BY DEF Pending, PitDebts, Debt, ToSet

(* create() adds the debt to whoever sent the Interest.                       *)
LEMMA CreateAddsDebt ==
    ASSUME FwdOK, NEW n \in Nodes, NEW interest \in Interests, NEW from \in Faces,
           NEW src \in Macs, PitCreate(n, interest, from, src) \/ PitReject(n)
    PROVE  /\ PitDebts(n)' \subseteq PitDebts(n) \cup {Debt(interest.name, from, src)}
           /\ \A m \in Nodes : m # n => pit'[m] = pit[m]
<1> DEFINE e == [interest |-> interest, face |-> from, mac |-> src,
                 expireAt |-> now + interest.lifetime]
<1>1. pit \in [Nodes -> Seq(PitEntry)] /\ pit[n] \in Seq(PitEntry) /\ now \in Nat
  BY DEF FwdOK, PitInv, PitTypeOK
<1>2. /\ e \in PitEntry /\ e.interest = interest /\ e.face = from /\ e.mac = src
  BY <1>1, PacketsAssumption DEF PitEntry
<1>3. CASE PitCreate(n, interest, from, src)
  <2>1. pit'[n] = Append(pit[n], e) /\ \A m \in Nodes : m # n => pit'[m] = pit[m]
    BY <1>1, <1>3 DEF PitCreate
  <2> HIDE DEF e
  <2>2. \A i \in DOMAIN pit'[n] :
           (i \in DOMAIN pit[n] /\ pit'[n][i] = pit[n][i]) \/ pit'[n][i] = e
    BY <1>1, <1>2, <2>1, PushBack
  <2>3. ToSet(pit'[n]) \subseteq ToSet(pit[n]) \cup {e}
    BY <2>2 DEF ToSet
  <2> QED BY <1>2, <2>1, <2>3 DEF PitDebts
<1>4. CASE PitReject(n)
  BY <1>4 DEF PitReject, pitVars, PitDebts
<1> QED BY <1>3, <1>4

(* Erasing entries adds no debt.                                              *)
LEMMA RetainAddsNoDebt ==
    ASSUME FwdOK, NEW n \in Nodes, NEW keep \in SUBSET DOMAIN pit[n],
           pit'[n] = Retain(pit[n], keep)
    PROVE  PitDebts(n)' \subseteq PitDebts(n)
<1>1. pit[n] \in Seq(PitEntry)
  BY PitHost DEF FwdOK
<1>2. \A k \in DOMAIN pit'[n] : \E i \in keep : pit'[n][k] = pit[n][i]
  BY <1>1, RetainProperties
<1>3. ToSet(pit'[n]) \subseteq ToSet(pit[n])
  BY <1>2 DEF ToSet
<1> QED BY <1>3 DEF PitDebts

LEMMA RemoveAddsNoDebt ==
    ASSUME FwdOK, NEW n \in Nodes, NEW name, PitRemove(n, name)
    PROVE  PitDebts(n)' \subseteq PitDebts(n)
<1>1. CASE pit' = pit
  BY <1>1 DEF PitDebts
<1>2. CASE pit' # pit
  <2> DEFINE keep == DOMAIN pit[n] \ {PitLookup(n, name)}
  <2>1. pit'[n] = Retain(pit[n], keep)
    BY <1>2 DEF PitRemove, Erase, FwdOK, PitInv, PitTypeOK
  <2>2. keep \in SUBSET DOMAIN pit[n]
    OBVIOUS
  <2> HIDE DEF keep
  <2> QED BY <2>1, <2>2, RetainAddsNoDebt
<1> QED BY <1>1, <1>2
-----------------------------------------------------------------------------
(* Handling an Interest.                                                      *)

(* The answer of the Content Store.                                           *)
LEMMA CacheAnswers ==
    ASSUME FwdOK, NEW n \in Nodes, NEW interest \in Interests, NEW face \in Faces,
           NEW src, CsHit(n, interest.name, interest.mustBeFresh),
           sent' = <<ToLink(n, face, IF face \in UpperFaces THEN MacOf[n]
                                     ELSE DataDest(src), CsData(n, interest.name))>>,
           UNCHANGED <<pitVars, delayed>>
    PROVE  Answers(n, Debt(interest.name, face, src)) /\ StepOf(n)
<1> DEFINE d == CsData(n, interest.name)
           mac == IF face \in UpperFaces THEN MacOf[n] ELSE DataDest(src)
           p == CsPosition(n, interest.name)
<1>1. p \in DOMAIN cs[n] /\ cs[n][p].data.name = interest.name /\ d = cs[n][p].data
  BY CsHost, CsPositionFindsFirst DEF CsHit, CsData, FwdOK
<1>2. sent' = <<ToLink(n, face, mac, d)>>
  OBVIOUS
<1> HIDE DEF d, p, mac
<1>3. AtMostOneIsSent(n) /\ \A k \in DOMAIN sent' :
         /\ sent'[k].node = n /\ sent'[k].face = face
         /\ sent'[k].dest = mac /\ sent'[k].packet = d
  BY <1>2, OneDataIsSent
<1>4. \A k \in SentData(n) : Pays(n, Debt(interest.name, face, src), sent'[k])
  BY <1>1, <1>3 DEF SentData, Pays, Debt, mac
<1>5. pit' = pit /\ delayed' = delayed
  BY DEF pitVars
<1>6. Owed(n)' = Owed(n)
  BY <1>5, SameDebts
<1> QED BY <1>3, <1>4, <1>5, <1>6 DEF Answers, StepOf

(* An Interest that is passed on, or lost for want of room in the PIT.        *)
LEMMA InterestPassedOn ==
    ASSUME FwdOK, NEW n \in Nodes, NEW interest \in Interests, NEW from \in Faces,
           NEW src \in Macs, NEW face, NEW dest,
           \/ ForwardInterestToRemote(n, interest, from, face, src, dest)
           \/ ForwardInterestToLocal(n, interest, from, face, src)
    PROVE  /\ PitDebts(n)' \subseteq PitDebts(n) \cup {Debt(interest.name, from, src)}
           /\ SentData(n) = {} /\ AtMostOneIsSent(n)
           /\ \A m \in Nodes : m # n => pit'[m] = pit[m]
           /\ \A k \in DOMAIN sent' : sent'[k].node = n
<1>1. /\ \A k \in DOMAIN sent' : sent'[k].packet.type # "data"
      /\ PitCreate(n, interest, from, src) \/ PitReject(n)
  BY InterestIsSent
<1>2. CASE Silent
  BY <1>1, <1>2, SilentSends, CreateAddsDebt, NoDataIsSent
<1>3. ASSUME NEW mac, sent' = <<ToLink(n, face, mac, interest)>>
      PROVE  \A k \in DOMAIN sent' : sent'[k].node = n
  BY <1>3, OneDataIsSent
<1>4. \A k \in DOMAIN sent' : sent'[k].node = n
  BY <1>2, <1>3, SilentSends DEF ForwardInterestToRemote, ForwardInterestToLocal, ToApp
<1> QED BY <1>1, <1>4, CreateAddsDebt, NoDataIsSent

LEMMA SilentAnswers ==
    ASSUME NEW n \in Nodes, NEW debt, Silent, UNCHANGED <<pitVars, delayed>>
    PROVE  Answers(n, debt) /\ StepOf(n)
<1>1. SentData(n) = {} /\ AtMostOneIsSent(n) /\ DOMAIN sent' = {}
  BY SilentSends, NoDataIsSent
<1>2. pit' = pit /\ delayed' = delayed
  BY DEF pitVars
<1> QED BY <1>1, <1>2, SameDebts DEF Answers, StepOf

LEMMA LLInterestAnswers ==
    ASSUME FwdOK, NEW n \in Nodes, NEW interest \in Interests,
           NEW from \in LowerFaces, NEW src \in Macs,
           ProcessLLInterest(n, interest, from, src)
    PROVE  Answers(n, Debt(interest.name, from, src)) /\ StepOf(n)
<1> DEFINE debt == Debt(interest.name, from, src)
<1>1. from \in Faces /\ from \notin UpperFaces /\ delayed[n] = Nothing
  BY FacesAssumption, NotWaiting DEF Faces, ProcessLLInterest
<1>2. CASE LLAnswerFromCache(n, interest, from, src)
  BY <1>1, <1>2, CacheAnswers DEF LLAnswerFromCache, ForwardDataToRemote
<1>3. CASE DropDuplicate(n, interest) \/ LLDropInterest(n, interest)
  BY <1>3, SilentAnswers DEF DropDuplicate, LLDropInterest
<1>4. CASE LLFollowRoute(n, interest, from, src)
  <2> DEFINE fe == FibLookup(n, interest.name)
  <2>1. \/ ForwardInterestToRemote(n, interest, from, fe.face, src, fe.mac)
        \/ ForwardInterestToLocal(n, interest, from, fe.face, src)
    BY <1>4 DEF LLFollowRoute
  <2>2. delayed' = delayed
    BY <1>4 DEF LLFollowRoute
  <2>3. DelayedDebts(n)' = DelayedDebts(n)
    BY <2>2 DEF DelayedDebts
  <2> HIDE DEF fe
  <2>4. /\ PitDebts(n)' \subseteq PitDebts(n) \cup {debt}
        /\ SentData(n) = {} /\ AtMostOneIsSent(n)
        /\ \A m \in Nodes : m # n => pit'[m] = pit[m]
        /\ \A k \in DOMAIN sent' : sent'[k].node = n
    BY <1>1, <2>1, InterestPassedOn
  <2> QED BY <2>2, <2>3, <2>4 DEF Answers, StepOf, Owed
<1>5. CASE LLDelayFlooding(n, interest, from, src)
  <2>1. PICK delay \in InterestDelays :
           delayed' = [delayed EXCEPT ![n] =
                          [type |-> "interest", packet |-> interest,
                           face |-> from, src |-> src, at |-> now + delay]]
    BY <1>5 DEF LLDelayFlooding
  <2>2. /\ delayed'[n].type = "interest" /\ delayed'[n].packet = interest
        /\ delayed'[n].face = from /\ delayed'[n].src = src
        /\ \A m \in Nodes : m # n => delayed'[m] = delayed[m]
    BY <2>1 DEF FwdOK
  <2>3. DelayedDebts(n)' = {debt}
    BY <2>2 DEF DelayedDebts
  <2>4. pit' = pit /\ DOMAIN sent' = {}
    BY <1>5, SilentSends DEF LLDelayFlooding, pitVars
  <2>5. PitDebts(n)' = PitDebts(n)
    BY <2>4 DEF PitDebts
  <2>6. SentData(n) = {} /\ AtMostOneIsSent(n)
    BY <2>4, NoDataIsSent
  <2> QED BY <2>2, <2>3, <2>4, <2>5, <2>6 DEF Answers, StepOf, Owed
<1> QED BY <1>2, <1>3, <1>4, <1>5 DEF ProcessLLInterest

LEMMA HLInterestAnswers ==
    ASSUME FwdOK, NEW n \in Nodes, NEW interest \in Interests,
           NEW from \in UpperFaces, ProcessHLInterest(n, interest, from)
    PROVE  Answers(n, Debt(interest.name, from, MacOf[n])) /\ StepOf(n)
<1>1. from \in Faces /\ MacOf[n] \in Macs
  BY ForwardingAssumption DEF Faces
<1>2. CASE HLAnswerFromCache(n, interest, from)
  BY <1>1, <1>2, CacheAnswers DEF HLAnswerFromCache, ForwardDataToLocal, ToApp
<1>3. CASE DropDuplicate(n, interest)
  BY <1>3, SilentAnswers DEF DropDuplicate
<1>4. CASE HLSend(n, interest, from)
  <2> DEFINE debt == Debt(interest.name, from, MacOf[n])
  <2>1. PICK face, dest :
           \/ ForwardInterestToRemote(n, interest, from, face, MacOf[n], dest)
           \/ ForwardInterestToLocal(n, interest, from, face, MacOf[n])
    BY <1>4 DEF HLSend
  <2>2. delayed' = delayed
    BY <1>4 DEF HLSend
  <2>3. DelayedDebts(n)' = DelayedDebts(n)
    BY <2>2 DEF DelayedDebts
  <2>4. /\ PitDebts(n)' \subseteq PitDebts(n) \cup {debt}
        /\ SentData(n) = {} /\ AtMostOneIsSent(n)
        /\ \A m \in Nodes : m # n => pit'[m] = pit[m]
        /\ \A k \in DOMAIN sent' : sent'[k].node = n
    BY <1>1, <2>1, InterestPassedOn
  <2> QED BY <2>2, <2>3, <2>4 DEF Answers, StepOf, Owed
<1> QED BY <1>2, <1>3, <1>4 DEF ProcessHLInterest

LEMMA HandledAnswers ==
    ASSUME FwdOK, NEW n \in Nodes, NEW interest \in Interests, NEW from, NEW src \in Macs,
           Handles(n, interest, from, src)
    PROVE  Answers(n, Debt(interest.name, from, src)) /\ StepOf(n)
  BY LLInterestAnswers, HLInterestAnswers DEF Handles
-----------------------------------------------------------------------------
(* Every other step.                                                          *)

LEMMA SilentSettles ==
    ASSUME NEW n \in Nodes, Silent, UNCHANGED <<pitVars, delayed>>
    PROVE  Settling(n) /\ StepOf(n)
<1>1. SentData(n) = {} /\ AtMostOneIsSent(n) /\ DOMAIN sent' = {}
  BY SilentSends, NoDataIsSent
<1>2. pit' = pit /\ delayed' = delayed
  BY DEF pitVars
<1> QED BY <1>1, <1>2, SameDebts DEF Settling, StepOf

(* Data for a pending Interest: the debt goes from the PIT, to be paid now,   *)
(* or to be put aside.                                                        *)
LEMMA SolicitedSettles ==
    ASSUME FwdOK, FwdNames, NEW n \in Nodes, NEW d \in DataPackets, ~ Waiting(n),
           PitLookup(n, d.name) # 0, PitRemove(n, d.name),
           \/ LLDelayData(n, d) \/ LLDeliverData(n, d) \/ LLKeepData(n, d)
           \/ /\ delayed' = delayed
              /\ LET pe == Breadcrumb(n, d) IN
                 IF pe.face \in LowerFaces
                 THEN ForwardDataToRemote(n, d, pe.face, pe.mac)
                 ELSE ForwardDataToLocal(n, d, pe.face)
    PROVE  Settling(n) /\ StepOf(n)
<1> DEFINE e == Breadcrumb(n, d)
           debt == Debt(d.name, e.face, e.mac)
<1>1. e.face \in Faces /\ e.interest.name = d.name /\ d.type = "data"
  BY FoundEntries, PacketsAssumption DEF Breadcrumb
<1>2. e.face \in UpperFaces <=> e.face \notin LowerFaces
  BY <1>1, FacesAssumption DEF Faces
<1>3. e \in ToSet(pit[n])
  BY PitHost, PitLookupFindsFirst DEF Breadcrumb, ToSet, FwdOK
<1>4. debt \in PitDebts(n)
  BY <1>1, <1>3 DEF PitDebts
<1>5. ~ Pending(n, d.name)' /\ \A m \in Nodes : m # n => pit'[m] = pit[m]
  BY PitRemoveNames DEF FwdOK, FwdNames, HostNames
<1>6. PitDebts(n)' \subseteq PitDebts(n) /\ debt \notin PitDebts(n)'
  BY <1>5, RemoveAddsNoDebt, PitDebtsArePendingNext
<1>7. CASE LLDelayData(n, d)
  <2>1. PICK delay \in DataDelays :
           delayed' = [delayed EXCEPT ![n] =
                          [type |-> "data", packet |-> d, face |-> e.face,
                           dest |-> e.mac, at |-> now + delay]]
    BY <1>7 DEF LLDelayData
  <2> HIDE DEF e
  <2>2. /\ delayed'[n].type = "data" /\ delayed'[n].packet = d
        /\ delayed'[n].face = e.face /\ delayed'[n].dest = e.mac
        /\ \A m \in Nodes : m # n => delayed'[m] = delayed[m]
    BY <2>1 DEF FwdOK
  <2>3. DelayedDebts(n)' = {debt}
    BY <2>2 DEF DelayedDebts
  <2>4. DOMAIN sent' = {} /\ SentData(n) = {} /\ AtMostOneIsSent(n)
    BY <1>7, SilentSends, NoDataIsSent DEF LLDelayData
  <2> QED BY <1>4, <1>5, <1>6, <2>2, <2>3, <2>4 DEF Settling, StepOf, Owed
<1>8. CASE delayed' = delayed
  <2>1. DelayedDebts(n)' = {}
    BY <1>8, NotWaiting, NothingIsOwedNext
  <2>2. Owed(n)' \subseteq Owed(n) /\ debt \in Owed(n) \ Owed(n)'
    BY <1>4, <1>6, <2>1 DEF Owed
  <2>3. CASE LLKeepData(n, d)
    <3>1. DOMAIN sent' = {} /\ SentData(n) = {} /\ AtMostOneIsSent(n)
      BY <2>3, SilentSends, NoDataIsSent DEF LLKeepData
    <3> QED BY <1>5, <1>8, <2>2, <3>1 DEF Settling, StepOf
  <2>4. ASSUME sent' = <<ToLink(n, e.face, IF e.face \in UpperFaces THEN MacOf[n]
                                           ELSE DataDest(e.mac), d)>>
        PROVE  Settling(n) /\ StepOf(n)
    <3> DEFINE mac == IF e.face \in UpperFaces THEN MacOf[n] ELSE DataDest(e.mac)
    <3>1. AtMostOneIsSent(n) /\ \A k \in DOMAIN sent' :
             /\ sent'[k].node = n /\ sent'[k].face = e.face
             /\ sent'[k].dest = mac /\ sent'[k].packet = d
      <4> HIDE DEF e, mac
      <4> QED BY <2>4, OneDataIsSent DEF mac
    <3>2. \A k \in SentData(n) : Pays(n, debt, sent'[k])
      <4> HIDE DEF e
      <4> QED BY <3>1 DEF SentData, Pays, Debt
    <3> QED BY <1>5, <1>8, <2>2, <3>1, <3>2 DEF Settling, StepOf
  <2>5. CASE LLDeliverData(n, d)
    BY <1>2, <2>4, <2>5 DEF LLDeliverData, ForwardDataToLocal, ToApp
  <2>6. CASE IF e.face \in LowerFaces THEN ForwardDataToRemote(n, d, e.face, e.mac)
                                      ELSE ForwardDataToLocal(n, d, e.face)
    BY <1>2, <2>4, <2>6 DEF ForwardDataToRemote, ForwardDataToLocal, ToApp
  <2> QED BY <1>7, <2>3, <2>5, <2>6
<1> QED BY <1>7, <1>8 DEF LLDeliverData, LLKeepData

LEMMA ProcessDataSettles ==
    ASSUME FwdOK, FwdNames, NEW n \in Nodes, NEW d \in DataPackets,
           NEW face, NEW src,
           ProcessLLData(n, d, face, src) \/ ProcessHLData(n, d)
    PROVE  Settling(n) /\ StepOf(n)
<1>1. CASE Unsolicited(n, d)
  BY <1>1, SilentSettles DEF Unsolicited
<1>2. CASE SolicitedLL(n, d, face, src) \/ SolicitedHL(n, d)
  <2>1. ~ Waiting(n)
    BY DEF ProcessLLData, ProcessHLData
  <2> QED BY <1>2, <2>1, SolicitedSettles DEF SolicitedLL, SolicitedHL
<1> QED BY <1>1, <1>2 DEF ProcessLLData, ProcessHLData

(* What was put aside leaves: an Interest's debt goes to the PIT, Data pays.  *)
LEMMA SendDelayedSettles ==
    ASSUME FwdOK, DelayedIsAlone, NEW n \in Nodes,
           SendDelayedInterest(n) \/ SendDelayedData(n)
    PROVE  Settling(n) /\ StepOf(n)
<1> DEFINE w == delayed[n]
<1>1. /\ w \in {Nothing} \cup DelayedInterest \cup DelayedData
      /\ delayed'[n] = Nothing /\ \A m \in Nodes : m # n => delayed'[m] = delayed[m]
  BY DEF FwdOK, SendDelayedInterest, SendDelayedData
<1>2. DelayedDebts(n)' = {}
  BY <1>1, NothingIsOwedNext
<1>3. CASE SendDelayedInterest(n)
  <2>1. w \in DelayedInterest /\ w.type = "interest"
    BY <1>1, <1>3 DEF SendDelayedInterest, Nothing, DelayedData
  <2>2. w.packet \in Interests /\ w.face \in Faces /\ w.src \in Macs
    BY <2>1 DEF DelayedInterest, Faces
  <2>3. DelayedDebts(n) = {Debt(w.packet.name, w.face, w.src)}
    BY <2>1 DEF DelayedDebts
  <2>4. ForwardInterestToRemote(n, w.packet, w.face, DefaultFace, w.src, Broadcast)
    BY <1>3 DEF SendDelayedInterest
  <2> HIDE DEF w
  <2>5. /\ PitDebts(n)' \subseteq PitDebts(n) \cup {Debt(w.packet.name, w.face, w.src)}
        /\ SentData(n) = {} /\ AtMostOneIsSent(n)
        /\ \A m \in Nodes : m # n => pit'[m] = pit[m]
        /\ \A k \in DOMAIN sent' : sent'[k].node = n
    BY <2>2, <2>4, InterestPassedOn
  <2> QED BY <1>1, <1>2, <2>3, <2>5 DEF Settling, StepOf, Owed
<1>4. CASE SendDelayedData(n)
  <2> DEFINE debt == Debt(w.packet.name, w.face, w.dest)
  <2>1. w \in DelayedData /\ w.type = "data"
    BY <1>1, <1>4 DEF SendDelayedData, Nothing, DelayedInterest
  <2>2. w.face \in LowerFaces /\ w.face \notin UpperFaces
    BY <2>1, FacesAssumption DEF DelayedData
  <2>3. DelayedDebts(n) = {debt}
    BY <2>1 DEF DelayedDebts
  <2>4. pit' = pit
    BY <1>4 DEF SendDelayedData, pitVars
  <2>5. PitDebts(n)' = PitDebts(n)
    BY <2>4 DEF PitDebts
  <2>6. debt \notin PitDebts(n)
    BY <2>1, PitDebtsArePending DEF DelayedIsAlone
  <2>7. Owed(n)' \subseteq Owed(n) /\ debt \in Owed(n) \ Owed(n)'
    BY <1>2, <2>3, <2>5, <2>6 DEF Owed
  <2>8. sent' = <<ToLink(n, w.face, DataDest(w.dest), w.packet)>>
    BY <1>4 DEF SendDelayedData, ForwardDataToRemote
  <2> HIDE DEF w
  <2>9. AtMostOneIsSent(n) /\ \A k \in DOMAIN sent' :
           /\ sent'[k].node = n /\ sent'[k].face = w.face
           /\ sent'[k].dest = DataDest(w.dest) /\ sent'[k].packet = w.packet
    BY <2>8, OneDataIsSent
  <2>10. \A k \in SentData(n) : Pays(n, debt, sent'[k])
    BY <2>2, <2>9 DEF SentData, Pays, Debt
  <2> QED BY <1>1, <2>4, <2>7, <2>9, <2>10 DEF Settling, StepOf
<1> QED BY <1>3, <1>4

LEMMA DropWhileWaitingSettles ==
    ASSUME FwdOK, NEW n \in Nodes, NEW name, DropWhileWaiting(n, name)
    PROVE  Settling(n) /\ StepOf(n)
<1>1. CASE delayed' = delayed
  BY <1>1, SilentSettles DEF DropWhileWaiting
<1>2. CASE delayed' = [delayed EXCEPT ![n] = Nothing]
  <2>1. delayed'[n] = Nothing /\ \A m \in Nodes : m # n => delayed'[m] = delayed[m]
    BY <1>2 DEF FwdOK
  <2>2. pit' = pit /\ DOMAIN sent' = {}
    BY SilentSends DEF DropWhileWaiting, pitVars
  <2>3. DelayedDebts(n)' = {} /\ PitDebts(n)' = PitDebts(n)
    BY <2>1, <2>2, NothingIsOwedNext DEF PitDebts
  <2>4. SentData(n) = {} /\ AtMostOneIsSent(n)
    BY <2>2, NoDataIsSent
  <2> QED BY <2>1, <2>2, <2>3, <2>4 DEF Settling, StepOf, Owed
<1> QED BY <1>1, <1>2 DEF DropWhileWaiting

(* Time-outs send no Data.                                                    *)
LEMMA PitTimerSettles ==
    ASSUME FwdOK, NEW n \in Nodes, PitTimerEvent(n)
    PROVE  Settling(n) /\ StepOf(n)
<1> DEFINE told == TimedOutForApps(n)
           keep == PitUnexpired(n)
           gone == {i \in DOMAIN pit[n] \ PitUnexpired(n) :
                       pit[n][i].face \in UpperFaces}
<1>1. /\ pit \in [Nodes -> Seq(PitEntry)] /\ pit[n] \in Seq(PitEntry)
      /\ keep \in SUBSET DOMAIN pit[n] /\ gone \in SUBSET DOMAIN pit[n]
  BY PitHost DEF FwdOK, PitInv, PitTypeOK, PitUnexpired
<1>2. /\ pit'[n] = Retain(pit[n], keep)
      /\ \A m \in Nodes : m # n => pit'[m] = pit[m]
  BY <1>1 DEF PitTimerEvent, PitCheckTimeout
<1>3. /\ told = Retain(pit[n], gone)
      /\ sent' = [k \in DOMAIN told |->
                     ToApp(n, told[k].face, Timeout(told[k].interest))]
      /\ delayed' = delayed
  BY DEF TimedOutForApps, PitTimerEvent
<1> HIDE DEF told, keep, gone
<1>4. PitDebts(n)' \subseteq PitDebts(n)
  BY <1>1, <1>2, RetainAddsNoDebt
<1>5. DelayedDebts(n)' = DelayedDebts(n)
  BY <1>3 DEF DelayedDebts
<1>6. \A k \in DOMAIN sent' : sent'[k].node = n /\ sent'[k].packet.type # "data"
  <2> SUFFICES ASSUME NEW k \in DOMAIN told
               PROVE  sent'[k].node = n /\ sent'[k].packet.type # "data"
    BY <1>3
  <2>1. told \in Seq(PitEntry)
    BY <1>1, <1>3, RetainProperties
  <2>2. told[k] \in PitEntry
    BY <2>1, ElementOfSeq, LenProperties
  <2>3. told[k].interest \in Interests
    BY <2>2 DEF PitEntry
  <2>4. Timeout(told[k].interest).type = "timeout"
    BY <2>3, PacketsAssumption DEF Timeout
  <2> QED BY <1>3, <2>4 DEF ToApp, ToLink
<1>7. SentData(n) = {} /\ AtMostOneIsSent(n)
  BY <1>6, NoDataIsSent
<1> QED BY <1>2, <1>3, <1>4, <1>5, <1>6, <1>7 DEF Settling, StepOf, Owed
-----------------------------------------------------------------------------
(* The property of every host, from what its own step does.                   *)

LEMMA OtherHostsFollow ==
    ASSUME NEW n \in Nodes, NEW m \in Nodes, m # n, StepOf(n)
    PROVE  HostFollowsInterest(m)
<1>1. Owed(m)' = Owed(m)
  BY SameDebts DEF StepOf
<1>2. SentData(m) = {}
  BY DEF SentData, StepOf
<1> QED
  BY <1>1, <1>2
  DEF HostFollowsInterest, DebtsAreRequested, DataPaysDebts, AtMostOneIsSent

(* A step that handles an Interest can be read in no other way: whatever      *)
(* request is handled, the step answers it.                                 *)
LEMMA HandlingFollows ==
    ASSUME FwdOK, NEW n \in Nodes, NEW one \in HandledNow(n)
    PROVE  HostFollowsInterest(n) /\ StepOf(n)
<1>1. ASSUME NEW debt \in HandledNow(n) PROVE Answers(n, debt) /\ StepOf(n)
  <2>1. PICK interest \in Interests :
           /\ interest.name = debt.name
           /\ Handles(n, interest, debt.face, debt.mac)
    BY DEF HandledNow
  <2>2. debt.mac \in Macs /\ debt = Debt(interest.name, debt.face, debt.mac)
    BY <2>1 DEF HandledNow, Debt
  <2> QED BY <2>1, <2>2, HandledAnswers
<1>2. ASSUME NEW debt \in Owed(n)' \ Owed(n) PROVE HandledNow(n) = {debt}
  BY <1>1, <1>2 DEF Answers
<1>3. DataPaysDebts(n) /\ AtMostOneIsSent(n)
  BY <1>1 DEF Answers, DataPaysDebts
<1> QED BY <1>1, <1>2, <1>3 DEF HostFollowsInterest, DebtsAreRequested

LEMMA SettlingFollows ==
    ASSUME FwdOK, NEW n \in Nodes, Settling(n) PROVE HostFollowsInterest(n)
<1>1. CASE HandledNow(n) = {}
  BY <1>1 DEF Settling, HostFollowsInterest, DebtsAreRequested, DataPaysDebts
<1>2. CASE HandledNow(n) # {}
  BY <1>2, HandlingFollows
<1> QED BY <1>1, <1>2

LEMMA InterestsFollow ==
    ASSUME FwdOK, NEW n \in Nodes, LinkInterest(n) \/ AppInterest(n)
    PROVE  HostFollowsInterest(n) /\ StepOf(n)
<1>1. PICK interest \in Interests : \E from \in Faces : \E src \in Macs :
         Handles(n, interest, from, src)
  BY ForwardingAssumption DEF LinkInterest, AppInterest, Neighbours, Handles, Faces
<1>2. PICK from \in Faces : \E src \in Macs : Handles(n, interest, from, src)
  BY <1>1
<1>3. PICK src \in Macs : Handles(n, interest, from, src)
  BY <1>2
<1>4. interest.name \in Names
  BY PacketsAssumption
<1>5. Debt(interest.name, from, src) \in HandledNow(n)
  BY <1>3, <1>4 DEF HandledNow, Debt
<1> QED BY <1>5, HandlingFollows

LEMMA FwdNextFollows ==
    ASSUME FwdOK, FwdNames, DelayedIsAlone, [FwdNext]_fwdVars, ~ UNCHANGED fwdVars
    PROVE  \A m \in Nodes : HostFollowsInterest(m)
<1>1. ASSUME NEW n \in Nodes, LinkInterest(n) \/ AppInterest(n)
      PROVE  HostFollowsInterest(n) /\ StepOf(n)
  BY <1>1, InterestsFollow
<1>2. ASSUME NEW n \in Nodes, LinkData(n) \/ AppData(n)
      PROVE  HostFollowsInterest(n) /\ StepOf(n)
  BY <1>2, ProcessDataSettles, SettlingFollows DEF LinkData, AppData
<1>3. ASSUME NEW n \in Nodes, AppRegister(n) \/ FibTimerEvent(n) \/ CsTimerEvent(n)
      PROVE  HostFollowsInterest(n) /\ StepOf(n)
  BY <1>3, SilentSettles, SettlingFollows
  DEF AppRegister, RegisterPrefix, FibTimerEvent, CsTimerEvent
<1>4. ASSUME NEW n \in Nodes, PacketWhileWaiting(n)
      PROVE  HostFollowsInterest(n) /\ StepOf(n)
  BY <1>4, DropWhileWaitingSettles, SettlingFollows DEF PacketWhileWaiting
<1>5. ASSUME NEW n \in Nodes, SendDelayedInterest(n) \/ SendDelayedData(n)
      PROVE  HostFollowsInterest(n) /\ StepOf(n)
  BY <1>5, SendDelayedSettles, SettlingFollows
<1>6. ASSUME NEW n \in Nodes, PitTimerEvent(n)
      PROVE  HostFollowsInterest(n) /\ StepOf(n)
  BY <1>6, PitTimerSettles, SettlingFollows
<1>7. CASE FwdTick
  BY <1>7, SilentSettles, SettlingFollows DEF FwdTick
<1>8. ASSUME NEW n \in Nodes, HostFollowsInterest(n), StepOf(n)
      PROVE  \A m \in Nodes : HostFollowsInterest(m)
  BY <1>8, OtherHostsFollow
<1>9. CASE FwdEnd
  BY <1>9 DEF FwdEnd
<1> QED
  BY <1>1, <1>2, <1>3, <1>4, <1>5, <1>6, <1>7, <1>8, <1>9 DEF FwdNext
-----------------------------------------------------------------------------
(* Data that waits is for a name that is not pending: remove() took the only  *)
(* entry of the name, and while it waits no Interest reaches the PIT.         *)

LEMMA AloneShrinks ==
    ASSUME DelayedIsAlone, NEW n \in Nodes,
           \A name : Pending(n, name)' => Pending(n, name),
           \A m \in Nodes : m # n => pit'[m] = pit[m] /\ delayed'[m] = delayed[m],
           delayed'[n] = delayed[n] \/ delayed'[n].type # "data"
    PROVE  DelayedIsAlone'
  BY DEF DelayedIsAlone, Pending

LEMMA AloneAfterInterest ==
    ASSUME FwdOK, DelayedIsAlone, NEW n \in Nodes, NEW interest \in Interests,
           NEW from, NEW src \in Macs, Handles(n, interest, from, src)
    PROVE  DelayedIsAlone'
<1>1. StepOf(n) /\ delayed[n] = Nothing
  BY HandledAnswers, NotWaiting DEF Handles, ProcessLLInterest, ProcessHLInterest
<1>2. delayed'[n].type # "data"
  BY <1>1
  DEF Handles, ProcessLLInterest, LLAnswerFromCache, DropDuplicate, LLFollowRoute,
      LLDelayFlooding, LLDropInterest, ProcessHLInterest, HLAnswerFromCache, HLSend,
      FwdOK, Nothing
<1> QED BY <1>1, <1>2 DEF DelayedIsAlone, StepOf, Pending

LEMMA AloneAfterData ==
    ASSUME FwdOK, FwdNames, DelayedIsAlone, NEW n \in Nodes, NEW d \in DataPackets,
           NEW face, NEW src,
           ProcessLLData(n, d, face, src) \/ ProcessHLData(n, d)
    PROVE  DelayedIsAlone'
<1>1. StepOf(n) /\ delayed[n] = Nothing
  BY ProcessDataSettles, NotWaiting DEF ProcessLLData, ProcessHLData
<1>2. CASE delayed' = delayed
  BY <1>1, <1>2 DEF DelayedIsAlone, StepOf, Pending, Nothing
<1>3. CASE LLDelayData(n, d) /\ PitRemove(n, d.name)
  <2>1. delayed'[n].packet = d
    BY <1>3 DEF LLDelayData, FwdOK
  <2>2. ~ Pending(n, d.name)'
    BY <1>3, PitRemoveNames DEF FwdOK, FwdNames, HostNames
  <2> QED BY <1>1, <2>1, <2>2 DEF DelayedIsAlone, StepOf, Pending
<1> QED
  BY <1>2, <1>3
  DEF ProcessLLData, ProcessHLData, SolicitedLL, SolicitedHL, Unsolicited,
      LLDeliverData, LLKeepData

LEMMA AloneAfterSending ==
    ASSUME FwdOK, DelayedIsAlone, NEW n \in Nodes,
           SendDelayedInterest(n) \/ SendDelayedData(n)
    PROVE  DelayedIsAlone'
<1>1. StepOf(n) /\ delayed'[n].type # "data"
  BY SendDelayedSettles DEF SendDelayedInterest, SendDelayedData, Nothing, FwdOK
<1> QED BY <1>1 DEF DelayedIsAlone, StepOf, Pending

LEMMA AloneAfterPitTimer ==
    ASSUME FwdOK, FwdNames, DelayedIsAlone, NEW n \in Nodes, PitTimerEvent(n)
    PROVE  DelayedIsAlone'
<1>1. /\ \A name : Pending(n, name)' => Pending(n, name)
      /\ \A m \in Nodes : m # n => pit'[m] = pit[m]
  BY PitCheckNames DEF PitTimerEvent, FwdOK, FwdNames, HostNames
<1>2. delayed' = delayed
  BY DEF PitTimerEvent
<1> QED BY <1>1, <1>2, AloneShrinks

LEMMA FwdInitAlone == FwdInit => DelayedIsAlone
  BY DEF FwdInit, DelayedIsAlone, Nothing

LEMMA FwdNextAlone ==
    FwdOK /\ FwdNames /\ DelayedIsAlone /\ [FwdNext]_fwdVars => DelayedIsAlone'
<1> SUFFICES ASSUME FwdOK, FwdNames, DelayedIsAlone, [FwdNext]_fwdVars
             PROVE  DelayedIsAlone'
  OBVIOUS
<1>1. ASSUME NEW n \in Nodes, LinkInterest(n) \/ AppInterest(n) PROVE DelayedIsAlone'
  BY <1>1, AloneAfterInterest, ForwardingAssumption
  DEF LinkInterest, AppInterest, Neighbours, Handles
<1>2. ASSUME NEW n \in Nodes, LinkData(n) \/ AppData(n) PROVE DelayedIsAlone'
  BY <1>2, AloneAfterData DEF LinkData, AppData
<1>3. CASE UNCHANGED <<pitVars, delayed>>
  BY <1>3 DEF pitVars, DelayedIsAlone, Pending
<1>4. ASSUME NEW n \in Nodes, PacketWhileWaiting(n) PROVE DelayedIsAlone'
  <2>1. PICK name : DropWhileWaiting(n, name)
    BY <1>4 DEF PacketWhileWaiting
  <2>2. pit' = pit /\ (delayed' = delayed \/ delayed' = [delayed EXCEPT ![n] = Nothing])
    BY <2>1 DEF DropWhileWaiting, pitVars
  <2> QED BY <2>2 DEF DelayedIsAlone, Pending, FwdOK, Nothing
<1>5. ASSUME NEW n \in Nodes, SendDelayedInterest(n) \/ SendDelayedData(n)
      PROVE  DelayedIsAlone'
  BY <1>5, AloneAfterSending
<1>6. ASSUME NEW n \in Nodes, PitTimerEvent(n) PROVE DelayedIsAlone'
  BY <1>6, AloneAfterPitTimer
<1> QED
  BY <1>1, <1>2, <1>3, <1>4, <1>5, <1>6
  DEF FwdNext, AppRegister, RegisterPrefix, FibTimerEvent, CsTimerEvent, FwdTick,
      FwdEnd, fwdVars

(* Data goes only to the face and MAC address an Interest for it came from,   *)
(* and once for each: it answers the Interest being handled, or pays a debt   *)
(* of the PIT or of what was put aside, which no later Data finds again.      *)
THEOREM FwdDataFollowsInterest == FwdSpec => DataFollowsInterest
<1>1. FwdOK /\ FwdNames /\ DelayedIsAlone /\ [FwdNext]_fwdVars =>
         [\A n \in Nodes : /\ DebtsAreRequested(n)
                            /\ DataPaysDebts(n)
                            /\ AtMostOneIsSent(n)]_fwdVars
  BY FwdNextFollows DEF HostFollowsInterest
<1> QED
  BY FwdInitOK, FwdInitNames, FwdInitAlone, FwdNextKeepsOK, FwdNextNames, FwdNextAlone,
     <1>1, PTL
  DEF FwdSpec, DataFollowsInterest
=============================================================================
