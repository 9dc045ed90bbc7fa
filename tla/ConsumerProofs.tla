--------------------------- MODULE ConsumerProofs ---------------------------
(***************************************************************************)
(* Proofs about the consumer application: a history of HISTORY_SIZE slots  *)
(* is as good as an unlimited one where HistorySuffices.                   *)
(***************************************************************************)
EXTENDS Consumer, SequenceTheorems, TLAPS

(* Arithmetic.                                                             *)

(* Every sequence number has a slot.                                       *)
LEMMA SlotInRange ==
    ASSUME NEW s \in Nat
    PROVE  Slot(s) \in Slots
BY ConsumerAssumption DEF Slot, Slots

(* Interests less than HISTORY_SIZE apart do not share a slot.             *)
LEMMA SlotsDistinct ==
    ASSUME NEW s \in Nat, NEW t \in Nat, s < t, t - s < HistorySize
    PROVE  Slot(s) # Slot(t)
<1> DEFINE H == HistorySize
<1>1. H \in Nat /\ H > 0
  BY ConsumerAssumption
<1>2. /\ s = H * (s \div H) + (s % H)
      /\ t = H * (t \div H) + (t % H)
      /\ s \div H \in Int
      /\ t \div H \in Int
  BY <1>1
<1>3. SUFFICES ASSUME s % H = t % H PROVE FALSE
  BY DEF Slot
<1> DEFINE d == (t \div H) - (s \div H)
<1>4. d \in Int /\ t - s = H * d
  <2> HIDE DEF H
  <2> QED BY <1>1, <1>2, <1>3
<1> HIDE DEF d
<1>5. 0 < H * d /\ H * d < H
  BY <1>4
<1>6. CASE d <= 0
  <2>1. H * d <= 0
    BY <1>1, <1>4, <1>6
  <2> QED BY <1>1, <1>4, <1>5, <2>1
<1>7. CASE d >= 1
  <2>1. H * d >= H
    BY <1>1, <1>4, <1>7
  <2> QED BY <1>1, <1>4, <1>5, <2>1
<1> QED BY <1>4, <1>6, <1>7

(* More rounds take longer.                                                *)
LEMMA TimesMonotone ==
    ASSUME NEW a \in Nat, NEW b \in Nat, NEW k \in Nat, a <= b
    PROVE  a * k <= b * k
OBVIOUS

(* The durations are natural numbers.                                      *)
LEMMA DurationsAreNat == Round \in Nat /\ Patience \in Nat
<1>1. Round \in Nat
  BY ConsumerAssumption, SimTimeAssumption DEF Round
<1>2. InterestReTx * Round \in Nat
  BY <1>1, ConsumerAssumption
<1> QED BY <1>1, <1>2, ConsumerAssumption, SimTimeAssumption DEF Patience
-----------------------------------------------------------------------------
(* Type correctness, with the range of the sequence numbers under way.      *)

(* The timer runs only if there is an Interest left to express.             *)
GoalAhead ==
    \A n \in Nodes : expressTimer[n] # NotScheduled => intSeqNo[n] < Goal

(* Only Interests that were expressed are under way.                        *)
OnlyExpressed ==
    \A n \in Nodes :
        /\ Len(unlimited[n]) = intSeqNo[n]
        /\ \A h \in held[n] : h.seqNo < intSeqNo[n]
        /\ \A r \in resending[n] : r.seqNo < intSeqNo[n]

CTypeInv == ConsumerTypeOK /\ GoalAhead /\ OnlyExpressed

LEMMA GoalIsNat == Goal \in Nat
BY ConsumerAssumption DEF Goal

LEMMA CTypeInit == ConsumerInit => CTypeInv
<1> SUFFICES ASSUME ConsumerInit PROVE CTypeInv
  OBVIOUS
<1> USE DEF ConsumerInit
<1>1. /\ Scheduled(StartTime) \in Timer
      /\ NotScheduled \in Timer
  BY ConsumerAssumption DEF Scheduled, Timer, NotScheduled
<1>2. history \in [Nodes -> [Slots -> Entry]]
  <2>1. [first : {0}, last : {0}, retx : Uninitialized] \subseteq Entry
    <3>1. SUFFICES ASSUME NEW e \in [first : {0}, last : {0}, retx : Uninitialized]
                   PROVE  e \in Entry
      OBVIOUS
    <3>2. /\ e = [first |-> e.first, last |-> e.last, retx |-> e.retx]
          /\ e.first \in {0} /\ e.last \in {0} /\ e.retx \in Uninitialized
      OBVIOUS
    <3>3. Uninitialized \subseteq Int
      BY ConsumerAssumption
    <3>4. e.retx \in Int
      BY <3>2, <3>3, Zenon
    <3>5. e.first \in Nat /\ e.last \in Nat
      BY <3>2
    <3> QED BY <3>2, <3>4, <3>5 DEF Entry
  <2>2. [Slots -> [first : {0}, last : {0}, retx : Uninitialized]]
           \subseteq [Slots -> Entry]
    BY <2>1
  <2> QED BY <2>2
<1>3. NoSample \in Sample
  BY DEF NoSample, Sample
<1>4. \A n \in Nodes : unlimited[n] = <<>> /\ <<>> \in Seq(Entry) /\ Len(<<>>) = 0
  BY EmptySeq
<1>5. ConsumerTypeOK
  <2>1. /\ expressTimer \in [Nodes -> Timer]
        /\ unlimited \in [Nodes -> Seq(Entry)]
        /\ collected \in [Nodes -> Sample]
    BY <1>1, <1>3, <1>4
  <2> QED BY <1>2, <2>1, GoalIsNat DEF ConsumerTypeOK
<1>6. GoalAhead
  BY ConsumerAssumption DEF GoalAhead, Goal, NotScheduled
<1>7. OnlyExpressed
  BY <1>4 DEF OnlyExpressed
<1> QED BY <1>5, <1>6, <1>7 DEF CTypeInv

(* What handing an Interest over does to the PIT of the forwarder.          *)
LEMMA HandOverEffect ==
    ASSUME ConsumerTypeOK, NEW n \in Nodes, NEW s \in Nat,
           HandOver(n, s)
    PROVE  /\ held' \in [Nodes -> SUBSET [seqNo : Nat, expireAt : Nat]]
           /\ \A m \in Nodes : m # n => held'[m] = held[m]
           /\ \A h \in held'[n] :
                 h \in held[n] \/ h = [seqNo |-> s, expireAt |-> now + InterestLifetime]
<1>1. /\ held \in [Nodes -> SUBSET [seqNo : Nat, expireAt : Nat]]
      /\ [seqNo |-> s, expireAt |-> now + InterestLifetime]
            \in [seqNo : Nat, expireAt : Nat]
  BY ConsumerAssumption DEF ConsumerTypeOK
<1>2. CASE UNCHANGED held
  BY <1>1, <1>2
<1>3. CASE held' = [held EXCEPT ![n] =
                held[n] \cup {[seqNo |-> s, expireAt |-> now + InterestLifetime]}]
  BY <1>1, <1>3
<1> QED BY <1>2, <1>3 DEF HandOver

(* What expressing an Interest does to the two histories.                   *)
LEMMA ExpressEffect ==
    ASSUME CTypeInv, NEW n \in Nodes, Express(n)
    PROVE  LET new == [first |-> now, last |-> now, retx |-> 0] IN
           /\ new \in Entry
           /\ history' \in [Nodes -> [Slots -> Entry]]
           /\ history'[n] = [history[n] EXCEPT ![Slot(intSeqNo[n])] = new]
           /\ unlimited' \in [Nodes -> Seq(Entry)]
           /\ unlimited'[n] = Append(unlimited[n], new)
           /\ Len(unlimited'[n]) = intSeqNo[n] + 1
           /\ \A i \in 1..intSeqNo[n] : unlimited'[n][i] = unlimited[n][i]
           /\ unlimited'[n][intSeqNo[n] + 1] = new
           /\ \A m \in Nodes : m # n => /\ history'[m] = history[m]
                                        /\ unlimited'[m] = unlimited[m]
<1> DEFINE new == [first |-> now, last |-> now, retx |-> 0]
<1>1. /\ history \in [Nodes -> [Slots -> Entry]]
      /\ unlimited \in [Nodes -> Seq(Entry)]
      /\ unlimited[n] \in Seq(Entry)
      /\ intSeqNo[n] \in Nat
      /\ Slot(intSeqNo[n]) \in Slots
      /\ Len(unlimited[n]) = intSeqNo[n]
  BY SlotInRange DEF CTypeInv, ConsumerTypeOK, OnlyExpressed
<1>2. new \in Entry
  BY DEF CTypeInv, ConsumerTypeOK, Entry
<1>3. /\ Append(unlimited[n], new) \in Seq(Entry)
      /\ Len(Append(unlimited[n], new)) = intSeqNo[n] + 1
      /\ \A i \in 1..intSeqNo[n] : Append(unlimited[n], new)[i] = unlimited[n][i]
      /\ Append(unlimited[n], new)[intSeqNo[n] + 1] = new
  BY <1>1, <1>2, AppendProperties
<1>4. /\ history' = [history EXCEPT ![n] =
                        [history[n] EXCEPT ![Slot(intSeqNo[n])] = new]]
      /\ unlimited' = [unlimited EXCEPT ![n] = Append(unlimited[n], new)]
  BY DEF Express, FirstSent
<1> HIDE DEF new
<1>5. [history[n] EXCEPT ![Slot(intSeqNo[n])] = new] \in [Slots -> Entry]
  BY <1>1, <1>2
<1>6. /\ history' \in [Nodes -> [Slots -> Entry]]
      /\ history'[n] = [history[n] EXCEPT ![Slot(intSeqNo[n])] = new]
      /\ \A m \in Nodes : m # n => history'[m] = history[m]
  BY <1>1, <1>4, <1>5
<1>7. /\ unlimited' \in [Nodes -> Seq(Entry)]
      /\ unlimited'[n] = Append(unlimited[n], new)
      /\ \A m \in Nodes : m # n => unlimited'[m] = unlimited[m]
  BY <1>1, <1>3, <1>4
<1> QED BY <1>2, <1>3, <1>6, <1>7 DEF new

(* What is recorded of a retransmission.                                    *)
LEMMA RetransmittedEntry ==
    ASSUME NEW e \in Entry, now \in Nat
    PROVE  /\ Retransmitted(e) \in Entry
           /\ Retransmitted(e).first = e.first
           /\ Retransmitted(e).last = now
           /\ Retransmitted(e).retx = e.retx + 1
<1>1. /\ e = [first |-> e.first, last |-> e.last, retx |-> e.retx]
      /\ e.first \in Nat /\ e.last \in Nat /\ e.retx \in Int
  BY DEF Entry
<1>2. e.retx + 1 \in Int
  BY <1>1
<1>3. Retransmitted(e) = [first |-> e.first, last |-> now, retx |-> e.retx + 1]
  BY <1>1 DEF Retransmitted
<1> QED BY <1>1, <1>2, <1>3 DEF Entry

(* What a retransmission does to them.                                      *)
LEMMA RetransmitEffect ==
    ASSUME CTypeInv, NEW n \in Nodes, NEW h \in held[n], Retransmit(n, h)
    PROVE  LET s == h.seqNo IN
           /\ s \in 0 .. intSeqNo[n] - 1
           /\ Retransmitted(history[n][Slot(s)]) \in Entry
           /\ Retransmitted(unlimited[n][s + 1]) \in Entry
           /\ history' \in [Nodes -> [Slots -> Entry]]
           /\ history'[n] = [history[n] EXCEPT
                                ![Slot(s)] = Retransmitted(history[n][Slot(s)])]
           /\ unlimited' \in [Nodes -> Seq(Entry)]
           /\ Len(unlimited'[n]) = intSeqNo[n]
           /\ \A i \in 1..intSeqNo[n] : unlimited'[n][i] =
                 IF i = s + 1 THEN Retransmitted(unlimited[n][i]) ELSE unlimited[n][i]
           /\ \A m \in Nodes : m # n => /\ history'[m] = history[m]
                                        /\ unlimited'[m] = unlimited[m]
<1> DEFINE s == h.seqNo
           old == history[n][Slot(s)]
           own == unlimited[n][s + 1]
<1>1. /\ history \in [Nodes -> [Slots -> Entry]]
      /\ unlimited \in [Nodes -> Seq(Entry)]
      /\ unlimited[n] \in Seq(Entry)
      /\ intSeqNo[n] \in Nat
      /\ s \in Nat
      /\ s < intSeqNo[n]
      /\ Slot(s) \in Slots
      /\ Len(unlimited[n]) = intSeqNo[n]
  BY SlotInRange DEF CTypeInv, ConsumerTypeOK, OnlyExpressed
<1>2. s + 1 \in 1..Len(unlimited[n])
  BY <1>1
<1>3. old \in Entry /\ own \in Entry
  BY <1>1, <1>2, ElementOfSeq
<1>4. Retransmitted(old) \in Entry /\ Retransmitted(own) \in Entry
  BY <1>3, RetransmittedEntry DEF CTypeInv, ConsumerTypeOK
<1>5. /\ history' = [history EXCEPT ![n] =
                        [history[n] EXCEPT ![Slot(s)] = Retransmitted(old)]]
      /\ unlimited' = [unlimited EXCEPT ![n] =
                        [unlimited[n] EXCEPT ![s + 1] = Retransmitted(own)]]
  BY DEF Retransmit
<1> HIDE DEF old, own
<1>6. /\ [unlimited[n] EXCEPT ![s + 1] = Retransmitted(own)] \in Seq(Entry)
      /\ Len([unlimited[n] EXCEPT ![s + 1] = Retransmitted(own)]) = intSeqNo[n]
      /\ \A i \in 1..intSeqNo[n] :
            [unlimited[n] EXCEPT ![s + 1] = Retransmitted(own)][i] =
               IF i = s + 1 THEN Retransmitted(own) ELSE unlimited[n][i]
  BY <1>1, <1>2, <1>4, ExceptSeq
<1>7. [history[n] EXCEPT ![Slot(s)] = Retransmitted(old)] \in [Slots -> Entry]
  BY <1>1, <1>4
<1>8. /\ history' \in [Nodes -> [Slots -> Entry]]
      /\ history'[n] = [history[n] EXCEPT ![Slot(s)] = Retransmitted(old)]
      /\ \A m \in Nodes : m # n => history'[m] = history[m]
  BY <1>1, <1>5, <1>7
<1>9. /\ unlimited' \in [Nodes -> Seq(Entry)]
      /\ unlimited'[n] = [unlimited[n] EXCEPT ![s + 1] = Retransmitted(own)]
      /\ \A m \in Nodes : m # n => unlimited'[m] = unlimited[m]
  BY <1>1, <1>5, <1>6
<1>10. /\ Len(unlimited'[n]) = intSeqNo[n]
       /\ \A i \in 1..intSeqNo[n] : unlimited'[n][i] =
             IF i = s + 1 THEN Retransmitted(own) ELSE unlimited[n][i]
  BY <1>6, <1>9
<1>11. \A i \in 1..intSeqNo[n] : unlimited'[n][i] =
          IF i = s + 1 THEN Retransmitted(unlimited[n][i]) ELSE unlimited[n][i]
  BY <1>10 DEF own
<1> QED BY <1>1, <1>4, <1>8, <1>9, <1>10, <1>11 DEF old, own
LEMMA ScheduledIsTimer ==
    ASSUME NEW t \in Nat
    PROVE  /\ Scheduled(t) \in Timer
           /\ Scheduled(t) # NotScheduled => Scheduled(t) = t
BY DEF Scheduled, Timer, NotScheduled

LEMMA CTypeExpress ==
    ASSUME CTypeInv, NEW n \in Nodes, Express(n)
    PROVE  CTypeInv'
<1>1. /\ now \in Nat /\ now' = now
      /\ intSeqNo \in [Nodes -> Nat]
      /\ expressTimer \in [Nodes -> Timer]
      /\ UNCHANGED <<collected, numDataReceived, numUnsatisfied, resending>>
  BY DEF CTypeInv, ConsumerTypeOK, Express
<1>2. intSeqNo[n] < Goal
  BY <1>1 DEF CTypeInv, GoalAhead, Express, Due, NotScheduled
<1>3. /\ intSeqNo' \in [Nodes -> Nat]
      /\ intSeqNo'[n] = intSeqNo[n] + 1
      /\ \A m \in Nodes : m # n => intSeqNo'[m] = intSeqNo[m]
  BY <1>1 DEF Express
<1>4. /\ expressTimer' \in [Nodes -> Timer]
      /\ expressTimer'[n] # NotScheduled => intSeqNo[n] + 1 < NumInterests
      /\ \A m \in Nodes : m # n => expressTimer'[m] = expressTimer[m]
  <2>1. /\ Scheduled(now + SendInterval) \in Timer
        /\ NotScheduled \in Timer
    BY <1>1, ConsumerAssumption, ScheduledIsTimer DEF Timer
  <2> QED BY <1>1, <2>1 DEF Express, MoreToExpress
<1>5. /\ held' \in [Nodes -> SUBSET [seqNo : Nat, expireAt : Nat]]
      /\ \A m \in Nodes : m # n => held'[m] = held[m]
      /\ \A h \in held'[n] :
            h \in held[n]
              \/ h = [seqNo |-> intSeqNo[n], expireAt |-> now + InterestLifetime]
  BY <1>1, HandOverEffect DEF CTypeInv, Express
<1>6. ConsumerTypeOK'
  <2>1. ASSUME NEW m \in Nodes PROVE intSeqNo'[m] <= Goal
    <3>1. intSeqNo[m] <= Goal
      BY DEF CTypeInv, ConsumerTypeOK
    <3>2. CASE m = n
      BY <1>1, <1>2, <1>3, <3>2, GoalIsNat
    <3> QED BY <1>3, <3>1, <3>2
  <2> QED BY <1>1, <1>3, <1>4, <1>5, <2>1, ExpressEffect
          DEF CTypeInv, ConsumerTypeOK
<1>7. GoalAhead'
  <2>1. intSeqNo[n] + 1 < NumInterests => intSeqNo'[n] < Goal
    BY <1>1, <1>3, ConsumerAssumption DEF Goal
  <2> QED BY <1>3, <1>4, <2>1 DEF CTypeInv, GoalAhead
<1>8. OnlyExpressed'
  <2>1. SUFFICES ASSUME NEW m \in Nodes
                 PROVE  /\ Len(unlimited'[m]) = intSeqNo'[m]
                        /\ \A h \in held'[m] : h.seqNo < intSeqNo'[m]
                        /\ \A r \in resending'[m] : r.seqNo < intSeqNo'[m]
    BY DEF OnlyExpressed
  <2>2. CASE m # n
    BY <1>1, <1>3, <1>5, <2>2, ExpressEffect DEF CTypeInv, OnlyExpressed
  <2>3. CASE m = n
    <3>1. ASSUME NEW h \in held'[n] PROVE h.seqNo < intSeqNo[n] + 1
      <4>1. intSeqNo[n] \in Nat
        BY <1>1
      <4>2. CASE h \in held[n]
        <5>1. h.seqNo \in Nat /\ h.seqNo < intSeqNo[n]
          BY <4>2 DEF CTypeInv, OnlyExpressed, ConsumerTypeOK
        <5> QED BY <4>1, <5>1
      <4>3. CASE h = [seqNo |-> intSeqNo[n], expireAt |-> now + InterestLifetime]
        <5>1. h.seqNo = intSeqNo[n]
          BY <4>3
        <5> QED BY <4>1, <5>1
      <4> QED BY <1>5, <4>2, <4>3
    <3>2. ASSUME NEW r \in resending'[n] PROVE r.seqNo < intSeqNo[n] + 1
      <4>1. r.seqNo \in Nat /\ r.seqNo < intSeqNo[n] /\ intSeqNo[n] \in Nat
        BY <1>1 DEF CTypeInv, OnlyExpressed, ConsumerTypeOK
      <4> QED BY <4>1
    <3>3. Len(unlimited'[n]) = intSeqNo[n] + 1
      BY ExpressEffect
    <3> QED BY <1>3, <2>3, <3>1, <3>2, <3>3
  <2> QED BY <2>2, <2>3
<1> QED BY <1>6, <1>7, <1>8 DEF CTypeInv

LEMMA CTypeRetransmit ==
    ASSUME CTypeInv, NEW n \in Nodes, NEW h \in held[n], Retransmit(n, h)
    PROVE  CTypeInv'
<1>1. /\ now \in Nat
      /\ held \in [Nodes -> SUBSET [seqNo : Nat, expireAt : Nat]]
      /\ resending \in [Nodes -> SUBSET [seqNo : Nat, at : Nat]]
      /\ h.seqNo \in Nat
      /\ UNCHANGED <<now, intSeqNo, expressTimer, collected, numDataReceived,
                     numUnsatisfied>>
  BY DEF CTypeInv, ConsumerTypeOK, Retransmit
<1>2. /\ held' \in [Nodes -> SUBSET [seqNo : Nat, expireAt : Nat]]
      /\ \A m \in Nodes : held'[m] \subseteq held[m]
  BY <1>1 DEF Retransmit
<1>3. PICK delay \in RetxDelays :
         resending' = [resending EXCEPT ![n] =
            resending[n] \cup {[seqNo |-> h.seqNo, at |-> now + delay]}]
  BY DEF Retransmit
<1>4. /\ delay \in Nat
      /\ [seqNo |-> h.seqNo, at |-> now + delay] \in [seqNo : Nat, at : Nat]
  BY <1>1, ConsumerAssumption
<1>5. /\ resending' \in [Nodes -> SUBSET [seqNo : Nat, at : Nat]]
      /\ \A m \in Nodes : \A r \in resending'[m] :
            r \in resending[m] \/ (m = n /\ r.seqNo = h.seqNo)
  BY <1>1, <1>3, <1>4
<1>6. ConsumerTypeOK'
  BY <1>1, <1>2, <1>5, RetransmitEffect DEF CTypeInv, ConsumerTypeOK
<1>7. GoalAhead'
  BY <1>1 DEF CTypeInv, GoalAhead
<1>8. OnlyExpressed'
  <2>1. \A m \in Nodes : Len(unlimited'[m]) = intSeqNo[m]
    BY RetransmitEffect DEF CTypeInv, OnlyExpressed
  <2> QED BY <1>1, <1>2, <1>5, <2>1 DEF CTypeInv, OnlyExpressed
<1> QED BY <1>6, <1>7, <1>8 DEF CTypeInv

LEMMA CTypeGiveUp ==
    ASSUME CTypeInv, NEW n \in Nodes, NEW h \in held[n], GiveUp(n, h)
    PROVE  CTypeInv'
<1>1. /\ held' \in [Nodes -> SUBSET [seqNo : Nat, expireAt : Nat]]
      /\ \A m \in Nodes : held'[m] \subseteq held[m]
      /\ numUnsatisfied' \in [Nodes -> Nat]
  BY DEF CTypeInv, ConsumerTypeOK, GiveUp
<1> QED BY <1>1 DEF CTypeInv, ConsumerTypeOK, GoalAhead, OnlyExpressed, GiveUp

LEMMA CTypeResend ==
    ASSUME CTypeInv, NEW n \in Nodes, NEW r \in resending[n], Resend(n, r)
    PROVE  CTypeInv'
<1>1. /\ r.seqNo \in Nat
      /\ r.seqNo < intSeqNo[n]
      /\ resending' \in [Nodes -> SUBSET [seqNo : Nat, at : Nat]]
      /\ \A m \in Nodes : resending'[m] \subseteq resending[m]
      /\ UNCHANGED <<now, intSeqNo, expressTimer, history, collected,
                     numDataReceived, numUnsatisfied, unlimited>>
  BY DEF CTypeInv, ConsumerTypeOK, OnlyExpressed, Resend
<1>2. /\ held' \in [Nodes -> SUBSET [seqNo : Nat, expireAt : Nat]]
      /\ \A m \in Nodes : m # n => held'[m] = held[m]
      /\ \A h \in held'[n] : h \in held[n] \/ h.seqNo = r.seqNo
  BY <1>1, HandOverEffect DEF CTypeInv, Resend
<1>3. ConsumerTypeOK' /\ GoalAhead'
  BY <1>1, <1>2 DEF CTypeInv, ConsumerTypeOK, GoalAhead
<1>4. OnlyExpressed'
  BY <1>1, <1>2 DEF CTypeInv, OnlyExpressed
<1> QED BY <1>3, <1>4 DEF CTypeInv

(* What is collected is a sample, for any sequence number.                  *)
LEMMA CollectIsSample ==
    ASSUME ConsumerTypeOK, NEW n \in Nodes, NEW s \in Nat
    PROVE  Collect(n, s) \in Sample
<1> DEFINE entry == history[n][Slot(s)]
<1>1. entry \in Entry /\ now \in Nat
  BY SlotInRange DEF ConsumerTypeOK
<1>2. /\ entry.first \in Nat /\ entry.last \in Nat /\ entry.retx \in Int
  BY <1>1 DEF Entry
<1> HIDE DEF entry
<1>3. [NoSample EXCEPT !.seqNo = s] \in Sample
  BY DEF NoSample, Sample
<1>4. [seqNo |-> s, allRtt |-> now - entry.first, lastRtt |-> now - entry.last,
       retx |-> entry.retx] \in Sample
  BY <1>1, <1>2 DEF Sample
<1> QED BY <1>3, <1>4 DEF Collect, entry

LEMMA CTypeOnData ==
    ASSUME CTypeInv, NEW n \in Nodes, NEW h \in held[n], NEW s \in Nat, OnData(n, h, s)
    PROVE  CTypeInv'
<1>1. /\ held' \in [Nodes -> SUBSET [seqNo : Nat, expireAt : Nat]]
      /\ \A m \in Nodes : held'[m] \subseteq held[m]
      /\ numDataReceived' \in [Nodes -> Nat]
      /\ UNCHANGED <<now, intSeqNo, expressTimer, history, numUnsatisfied,
                     resending, unlimited>>
  BY DEF CTypeInv, ConsumerTypeOK, OnData
<1>2. collected' \in [Nodes -> Sample]
  BY CollectIsSample DEF CTypeInv, ConsumerTypeOK, OnData
<1>3. ConsumerTypeOK'
  BY <1>1, <1>2 DEF CTypeInv, ConsumerTypeOK
<1> QED BY <1>1, <1>3 DEF CTypeInv, GoalAhead, OnlyExpressed

LEMMA CTypeTick == CTypeInv /\ ConsumerTick => CTypeInv'
<1> SUFFICES ASSUME CTypeInv, ConsumerTick PROVE CTypeInv'
  OBVIOUS
<1>1. now' \in Nat /\ UNCHANGED consumerVars
  BY DEF CTypeInv, ConsumerTypeOK, ConsumerTick, Tick
<1> QED BY <1>1 DEF CTypeInv, ConsumerTypeOK, GoalAhead, OnlyExpressed, consumerVars

LEMMA CTypeStutter == CTypeInv /\ UNCHANGED <<now, consumerVars>> => CTypeInv'
BY DEF CTypeInv, ConsumerTypeOK, GoalAhead, OnlyExpressed, consumerVars

(* Data carries a natural number.                                           *)
LEMMA AnsweredIsNat ==
    ASSUME CTypeInv, NEW n \in Nodes, NEW h \in held[n],
           NEW s \in SeqNos \cup {h.seqNo}
    PROVE  s \in Nat
BY ConsumerAssumption DEF CTypeInv, ConsumerTypeOK

LEMMA CTypeNext == CTypeInv /\ [ConsumerNext]_<<now, consumerVars>> => CTypeInv'
<1> SUFFICES ASSUME CTypeInv, [ConsumerNext]_<<now, consumerVars>>
             PROVE  CTypeInv'
  OBVIOUS
<1>1. ASSUME NEW n \in Nodes, Express(n) PROVE CTypeInv'
  BY <1>1, CTypeExpress
<1>2. ASSUME NEW n \in Nodes, Expires(n) PROVE CTypeInv'
  BY <1>2, CTypeRetransmit, CTypeGiveUp DEF Expires
<1>3. ASSUME NEW n \in Nodes, Resends(n) PROVE CTypeInv'
  BY <1>3, CTypeResend DEF Resends
<1>4. ASSUME NEW n \in Nodes, Answered(n) PROVE CTypeInv'
  BY <1>4, CTypeOnData, AnsweredIsNat DEF Answered
<1>5. CASE ConsumerTick
  BY <1>5, CTypeTick
<1>6. CASE ConsumerEnd
  BY <1>6, CTypeStutter DEF ConsumerEnd
<1>7. CASE UNCHANGED <<now, consumerVars>>
  BY <1>7, CTypeStutter
<1> QED BY <1>1, <1>2, <1>3, <1>4, <1>5, <1>6, <1>7 DEF ConsumerNext

(* Type correctness; in particular the consumer never expresses more        *)
(* Interests than it was asked to.                                          *)
THEOREM ConsumerTypeCorrect == ConsumerSpec => []ConsumerTypeOK
<1>1. CTypeInv => ConsumerTypeOK
  BY DEF CTypeInv
<1> QED BY <1>1, CTypeInit, CTypeNext, PTL DEF ConsumerSpec
-----------------------------------------------------------------------------
(* The inductive invariant behind the limited history.  Interests are       *)
(* expressed at a steady pace, every one under way is within the rounds it  *)
(* has been given so far, and so it comes to an end before its slot is due  *)
(* for another.                                                             *)

\* The Interest of number s, as recorded without limit.
Own(n, s) == unlimited[n][s + 1]

SteadyPace(n) ==
    /\ \A s \in 0 .. intSeqNo[n] - 1 :
          Own(n, s).first = Own(n, 0).first + s * SendInterval
    /\ (expressTimer[n] # NotScheduled /\ intSeqNo[n] > 0) =>
          expressTimer[n] = Own(n, 0).first + intSeqNo[n] * SendInterval

Counted(n) ==
    \A s \in 0 .. intSeqNo[n] - 1 : Own(n, s).retx \in 0..InterestReTx

HeldInTime(n, h) ==
    /\ now <= h.expireAt + CheckPeriod
    /\ h.expireAt <= Own(n, h.seqNo).first + Own(n, h.seqNo).retx * Round
                        + InterestLifetime

ResendingInTime(n, r) ==
    /\ now <= r.at
    /\ r.at <= Own(n, r.seqNo).first + Own(n, r.seqNo).retx * Round

InTime(n) ==
    /\ \A h \in held[n] : HeldInTime(n, h)
    /\ \A r \in resending[n] : ResendingInTime(n, r)

\* The last HistorySize Interests are still recorded.
StillRecorded(n) ==
    \A s \in 0 .. intSeqNo[n] - 1 :
        intSeqNo[n] - s <= HistorySize => history[n][Slot(s)] = Own(n, s)

\* An Interest under way is one of them.
Recent(n) == \A s \in UnderWay(n) : intSeqNo[n] - s <= HistorySize

HistoryInv(n) ==
    SteadyPace(n) /\ Counted(n) /\ InTime(n) /\ StillRecorded(n) /\ Recent(n)

ConsumerInv == CTypeInv /\ \A n \in Nodes : HistoryInv(n)

(* What the types say of one host.                                          *)
LEMMA NodeTypes ==
    ASSUME CTypeInv, NEW n \in Nodes
    PROVE  /\ now \in Nat
           /\ intSeqNo[n] \in Nat
           /\ \A s \in 0 .. intSeqNo[n] - 1 :
                 /\ s \in Nat
                 /\ Own(n, s) \in Entry
                 /\ Own(n, s).first \in Nat
                 /\ Own(n, s).retx \in Int
           /\ \A h \in held[n] : /\ h.seqNo \in 0 .. intSeqNo[n] - 1
                                 /\ h.expireAt \in Nat
           /\ \A r \in resending[n] : /\ r.seqNo \in 0 .. intSeqNo[n] - 1
                                      /\ r.at \in Nat
           /\ UnderWay(n) \subseteq 0 .. intSeqNo[n] - 1
<1>1. now \in Nat /\ intSeqNo[n] \in Nat
  BY DEF CTypeInv, ConsumerTypeOK
<1>2. ASSUME NEW s \in 0 .. intSeqNo[n] - 1
      PROVE  /\ s \in Nat
             /\ Own(n, s) \in Entry
             /\ Own(n, s).first \in Nat
             /\ Own(n, s).retx \in Int
  <2>1. unlimited[n] \in Seq(Entry) /\ s + 1 \in 1..Len(unlimited[n])
    BY <1>1 DEF CTypeInv, ConsumerTypeOK, OnlyExpressed
  <2>2. unlimited[n][s + 1] \in Entry
    BY <2>1, ElementOfSeq
  <2> QED BY <1>1, <2>2 DEF Own, Entry
<1>3. \A h \in held[n] : /\ h.seqNo \in 0 .. intSeqNo[n] - 1
                         /\ h.expireAt \in Nat
  BY <1>1 DEF CTypeInv, ConsumerTypeOK, OnlyExpressed
<1>4. \A r \in resending[n] : /\ r.seqNo \in 0 .. intSeqNo[n] - 1
                              /\ r.at \in Nat
  BY <1>1 DEF CTypeInv, ConsumerTypeOK, OnlyExpressed
<1> QED BY <1>1, <1>2, <1>3, <1>4 DEF UnderWay

(* Patience is long enough for all the rounds of an Interest under way.     *)
LEMMA PatienceCovers ==
    ASSUME CTypeInv, NEW n \in Nodes, HistoryInv(n), NEW s \in UnderWay(n)
    PROVE  now <= Own(n, s).first + Patience
<1>1. /\ now \in Nat
      /\ s \in 0 .. intSeqNo[n] - 1
      /\ Own(n, s).first \in Nat
      /\ Own(n, s).retx \in 0..InterestReTx
  BY NodeTypes DEF HistoryInv, Counted
<1>2. /\ InterestReTx \in Nat /\ InterestLifetime \in Nat /\ CheckPeriod \in Nat
      /\ Round \in Nat
  BY ConsumerAssumption, SimTimeAssumption, DurationsAreNat
<1>3. Own(n, s).retx * Round <= InterestReTx * Round
  BY <1>1, <1>2, TimesMonotone
<1>4. /\ Own(n, s).retx * Round \in Nat
      /\ InterestReTx * Round \in Nat
  BY <1>1, <1>2
<1>5. now <= Own(n, s).first + Own(n, s).retx * Round + InterestLifetime + CheckPeriod
  <2>1. CASE \E h \in held[n] : s = h.seqNo
    <3>1. PICK h \in held[n] : s = h.seqNo
      BY <2>1
    <3>2. HeldInTime(n, h) /\ h.expireAt \in Nat
      BY NodeTypes DEF HistoryInv, InTime
    <3> QED BY <1>1, <1>2, <1>4, <3>1, <3>2 DEF HeldInTime
  <2>2. CASE \E r \in resending[n] : s = r.seqNo
    <3>1. PICK r \in resending[n] : s = r.seqNo
      BY <2>2
    <3>2. ResendingInTime(n, r) /\ r.at \in Nat
      BY NodeTypes DEF HistoryInv, InTime
    <3> QED BY <1>1, <1>2, <1>4, <3>1, <3>2 DEF ResendingInTime
  <2> QED BY <2>1, <2>2 DEF UnderWay
<1> QED BY <1>1, <1>2, <1>3, <1>4, <1>5 DEF Patience

(* When an Interest is expressed, the one whose slot it takes has come to   *)
(* an end.                                                                  *)
LEMMA SlotIsFree ==
    ASSUME CTypeInv, HistorySuffices, NEW n \in Nodes, HistoryInv(n), Express(n),
           NEW s \in UnderWay(n)
    PROVE  intSeqNo[n] - s < HistorySize
<1>1. /\ now \in Nat
      /\ intSeqNo[n] \in Nat
      /\ s \in 0 .. intSeqNo[n] - 1
      /\ HistorySize \in Nat \ {0}
      /\ SendInterval \in Nat
  BY NodeTypes, ConsumerAssumption
<1>2. expressTimer[n] = now /\ now # NotScheduled
  BY <1>1 DEF Express, Due, NotScheduled
<1>3. CASE NumInterests <= HistorySize
  <2>1. intSeqNo[n] < Goal
    BY <1>2 DEF CTypeInv, GoalAhead
  <2>2. Goal <= HistorySize
    BY <1>1, <1>3 DEF Goal
  <2> QED BY <1>1, <2>1, <2>2, GoalIsNat
<1>4. CASE HistorySize * SendInterval > Patience
  <2>1. SUFFICES ASSUME intSeqNo[n] - s >= HistorySize PROVE FALSE
    BY <1>1
  <2> DEFINE base == Own(n, 0).first
  <2>2. base \in Nat
    BY <1>1, NodeTypes
  <2>3. now = base + intSeqNo[n] * SendInterval
    BY <1>1, <1>2 DEF HistoryInv, SteadyPace
  <2>4. Own(n, s).first = base + s * SendInterval
    BY <1>1 DEF HistoryInv, SteadyPace
  <2>5. now <= Own(n, s).first + Patience
    BY PatienceCovers
  <2> HIDE DEF base
  <2> DEFINE d == intSeqNo[n] - s
  <2>6. d \in Nat /\ HistorySize <= d
    BY <1>1, <2>1
  <2>7. HistorySize * SendInterval <= d * SendInterval
    BY <1>1, <2>6, TimesMonotone
  <2>8. intSeqNo[n] * SendInterval = s * SendInterval + d * SendInterval
    BY <1>1
  <2>9. /\ d * SendInterval \in Nat
        /\ s * SendInterval \in Nat
        /\ HistorySize * SendInterval \in Nat
    BY <1>1, <2>6
  <2> HIDE DEF d
  <2> QED BY <1>4, <2>2, <2>3, <2>4, <2>5, <2>7, <2>8, <2>9, DurationsAreNat
<1> QED BY <1>3, <1>4 DEF HistorySuffices
LEMMA HistoryInit == ConsumerInit => \A n \in Nodes : HistoryInv(n)
<1> SUFFICES ASSUME ConsumerInit, NEW n \in Nodes PROVE HistoryInv(n)
  OBVIOUS
<1>1. intSeqNo[n] = 0 /\ held[n] = {} /\ resending[n] = {}
  BY DEF ConsumerInit
<1>2. UnderWay(n) = {} /\ 0 .. intSeqNo[n] - 1 = {}
  BY <1>1 DEF UnderWay
<1> QED BY <1>1, <1>2
        DEF HistoryInv, SteadyPace, Counted, InTime, StillRecorded, Recent

(* A host is not disturbed by what happens at another.                      *)
LEMMA HistoryElsewhere ==
    ASSUME NEW m \in Nodes, HistoryInv(m),
           now' = now, intSeqNo'[m] = intSeqNo[m],
           expressTimer'[m] = expressTimer[m], history'[m] = history[m],
           resending'[m] = resending[m], held'[m] = held[m],
           unlimited'[m] = unlimited[m]
    PROVE  HistoryInv(m)'
BY DEF HistoryInv, SteadyPace, Counted, InTime, HeldInTime, ResendingInTime,
       StillRecorded, Recent, UnderWay, Own

(* Nor by the loss of an Interest that was under way.                       *)
LEMMA HistoryFewer ==
    ASSUME NEW m \in Nodes, HistoryInv(m),
           now' = now, intSeqNo'[m] = intSeqNo[m],
           expressTimer'[m] = expressTimer[m], history'[m] = history[m],
           resending'[m] \subseteq resending[m], held'[m] \subseteq held[m],
           unlimited'[m] = unlimited[m]
    PROVE  HistoryInv(m)'
<1>1. UnderWay(m)' \subseteq UnderWay(m)
  BY DEF UnderWay
<1> QED BY <1>1
        DEF HistoryInv, SteadyPace, Counted, InTime, HeldInTime, ResendingInTime,
            StillRecorded, Recent, Own

LEMMA HistoryExpress ==
    ASSUME CTypeInv, HistorySuffices, NEW n \in Nodes, HistoryInv(n), Express(n)
    PROVE  HistoryInv(n)'
<1> DEFINE new == [first |-> now, last |-> now, retx |-> 0]
<1>0. PICK last \in Nat : last = intSeqNo[n]
  BY NodeTypes
<1>1. /\ now \in Nat /\ now' = now
      /\ last = intSeqNo[n]
      /\ intSeqNo'[n] = last + 1
      /\ resending'[n] = resending[n]
      /\ SendInterval \in Nat /\ InterestLifetime \in Nat /\ InterestReTx \in Nat
      /\ HistorySize \in Nat \ {0} /\ CheckPeriod \in Nat /\ Round \in Nat
  BY <1>0, NodeTypes, ConsumerAssumption, SimTimeAssumption, DurationsAreNat
     DEF Express, CTypeInv, ConsumerTypeOK
<1>2. /\ Own(n, last)' = new
      /\ \A s \in 0 .. last - 1 : Own(n, s)' = Own(n, s)
  <2>1. \A s \in 0 .. last - 1 : s + 1 \in 1 .. intSeqNo[n]
    BY <1>1
  <2>2. \A s \in 0 .. last - 1 : unlimited'[n][s + 1] = unlimited[n][s + 1]
    BY <2>1, ExpressEffect
  <2>3. unlimited'[n][last + 1] = new
    BY <1>0, ExpressEffect
  <2> QED BY <1>1, <2>2, <2>3 DEF Own
<1>3. new.first = now /\ new.retx = 0
  OBVIOUS
<1>4. /\ \A h \in held'[n] :
            h \in held[n] \/ h = [seqNo |-> last, expireAt |-> now + InterestLifetime]
  BY <1>0, HandOverEffect DEF CTypeInv, Express
<1>5. now = expressTimer[n] /\ now # NotScheduled
  BY <1>1 DEF Express, Due, NotScheduled
<1>6. 0 .. intSeqNo'[n] - 1 = (0 .. last - 1) \cup {last}
  BY <1>1
<1> HIDE DEF new
<1>7. SteadyPace(n)'
  <2>1. last > 0 => now = Own(n, 0).first + last * SendInterval
    BY <1>1, <1>5 DEF HistoryInv, SteadyPace
  <2>2. last > 0 => Own(n, 0)' = Own(n, 0) /\ Own(n, 0).first \in Nat
    BY <1>1, <1>2, NodeTypes
  <2>3. \A s \in 0 .. last - 1 :
           Own(n, s)'.first = Own(n, 0)'.first + s * SendInterval
    BY <1>1, <1>2, <2>2 DEF HistoryInv, SteadyPace
  <2>4. now = Own(n, 0)'.first + last * SendInterval
    <3>1. CASE last = 0
      <4>1. Own(n, 0)'.first = now
        BY <1>2, <1>3, <3>1
      <4> QED BY <1>1, <3>1, <4>1
    <3> QED BY <1>1, <2>1, <2>2, <3>1
  <2>5. expressTimer'[n] # NotScheduled => expressTimer'[n] = now + SendInterval
    BY <1>1, ScheduledIsTimer DEF Express, CTypeInv, ConsumerTypeOK
  <2>6. Own(n, 0)'.first \in Nat
    <3>1. CASE last = 0
      BY <1>1, <1>2, <1>3, <3>1
    <3> QED BY <1>1, <2>2, <3>1
  <2>7. now + SendInterval = Own(n, 0)'.first + (last + 1) * SendInterval
    <3>1. /\ (last + 1) * SendInterval = last * SendInterval + SendInterval
          /\ last * SendInterval \in Nat
      BY <1>1
    <3> QED BY <1>1, <2>4, <2>6, <3>1
  <2>8. \A s \in 0 .. intSeqNo'[n] - 1 :
           Own(n, s)'.first = Own(n, 0)'.first + s * SendInterval
    BY <1>2, <1>3, <1>6, <2>3, <2>4
  <2> QED BY <1>1, <2>5, <2>7, <2>8 DEF SteadyPace
<1>8. Counted(n)'
  <2>1. \A s \in 0 .. intSeqNo'[n] - 1 : Own(n, s)'.retx \in 0..InterestReTx
    BY <1>1, <1>2, <1>3, <1>6 DEF HistoryInv, Counted
  <2> QED BY <2>1 DEF Counted
<1>9. InTime(n)'
  <2>1. ASSUME NEW h \in held'[n] PROVE HeldInTime(n, h)'
    <3>1. CASE h \in held[n]
      <4>1. Own(n, h.seqNo)' = Own(n, h.seqNo)
        BY <1>1, <1>2, <3>1, NodeTypes
      <4> QED BY <1>1, <3>1, <4>1 DEF HistoryInv, InTime, HeldInTime
    <3>2. CASE h = [seqNo |-> last, expireAt |-> now + InterestLifetime]
      <4>1. h.seqNo = last /\ h.expireAt = now + InterestLifetime
        BY <3>2
      <4>2. Own(n, h.seqNo)'.first = now /\ Own(n, h.seqNo)'.retx = 0
        BY <1>2, <1>3, <4>1
      <4> QED BY <1>1, <4>1, <4>2 DEF HeldInTime
    <3> QED BY <1>4, <3>1, <3>2
  <2>2. ASSUME NEW r \in resending'[n] PROVE ResendingInTime(n, r)'
    <3>1. r \in resending[n] /\ Own(n, r.seqNo)' = Own(n, r.seqNo)
      BY <1>1, <1>2, NodeTypes
    <3> QED BY <1>1, <3>1 DEF HistoryInv, InTime, ResendingInTime
  <2> QED BY <2>1, <2>2 DEF InTime
<1>10. StillRecorded(n)'
  <2>1. SUFFICES ASSUME NEW s \in 0 .. intSeqNo'[n] - 1, last + 1 - s <= HistorySize
                 PROVE  history'[n][Slot(s)] = Own(n, s)'
    BY <1>1 DEF StillRecorded
  <2>2. /\ history'[n] = [history[n] EXCEPT ![Slot(last)] = new]
        /\ history[n] \in [Slots -> Entry]
    BY <1>1, ExpressEffect DEF new, CTypeInv, ConsumerTypeOK
  <2>3. CASE s = last
    BY <1>1, <1>2, <2>2, <2>3, SlotInRange
  <2>4. CASE s # last
    <3>1. s \in 0 .. last - 1 /\ s \in Nat
      BY <1>6, <2>4, NodeTypes
    <3>2. s < last /\ last - s < HistorySize /\ last - s <= HistorySize
      BY <1>1, <2>1, <3>1
    <3>3. Slot(s) # Slot(last)
      BY <1>1, <3>1, <3>2, SlotsDistinct
    <3>4. history'[n][Slot(s)] = history[n][Slot(s)]
      BY <2>2, <3>1, <3>3, SlotInRange
    <3> QED BY <1>1, <1>2, <3>1, <3>2, <3>4 DEF HistoryInv, StillRecorded
  <2> QED BY <2>3, <2>4
<1>11. Recent(n)'
  <2>1. SUFFICES ASSUME NEW s \in UnderWay(n)'
                 PROVE  intSeqNo'[n] - s <= HistorySize
    BY DEF Recent
  <2>2. s = last \/ s \in UnderWay(n)
    BY <1>1, <1>4 DEF UnderWay
  <2>3. CASE s = last
    BY <1>1, <2>3
  <2>4. CASE s \in UnderWay(n)
    <3>1. last - s < HistorySize /\ s \in Nat
      BY <1>1, <2>4, SlotIsFree, NodeTypes
    <3> QED BY <1>1, <3>1
  <2> QED BY <2>2, <2>3, <2>4
<1> QED BY <1>7, <1>8, <1>9, <1>10, <1>11 DEF HistoryInv
LEMMA HistoryRetransmit ==
    ASSUME CTypeInv, NEW n \in Nodes, HistoryInv(n), NEW h \in held[n],
           Retransmit(n, h)
    PROVE  HistoryInv(n)'
<1>0. PICK last \in Nat : last = intSeqNo[n]
  BY NodeTypes
<1>1. PICK q \in 0 .. last - 1 : q = h.seqNo
  BY <1>0, NodeTypes
<1>2. /\ now \in Nat /\ now' = now
      /\ intSeqNo'[n] = last
      /\ expressTimer'[n] = expressTimer[n]
      /\ held'[n] \subseteq held[n]
      /\ q \in Nat
      /\ InterestReTx \in Nat /\ InterestLifetime \in Nat /\ HistorySize \in Nat
      /\ CheckPeriod \in Nat /\ Round \in Nat /\ MaxRetxDelay \in Nat
  BY <1>0, <1>1, NodeTypes, ConsumerAssumption, SimTimeAssumption, DurationsAreNat
     DEF Retransmit, CTypeInv, ConsumerTypeOK
<1>3. /\ Own(n, q)' = Retransmitted(Own(n, q))
      /\ \A s \in 0 .. last - 1 : s # q => Own(n, s)' = Own(n, s)
      /\ history'[n] = [history[n] EXCEPT
                           ![Slot(q)] = Retransmitted(history[n][Slot(q)])]
  <2>1. /\ \A i \in 1..last : unlimited'[n][i] =
              IF i = q + 1 THEN Retransmitted(unlimited[n][i]) ELSE unlimited[n][i]
        /\ history'[n] = [history[n] EXCEPT
                             ![Slot(q)] = Retransmitted(history[n][Slot(q)])]
    BY <1>0, <1>1, RetransmitEffect
  <2>2. \A s \in 0 .. last - 1 : s + 1 \in 1..last /\ (s + 1 = q + 1 => s = q)
    BY <1>0, <1>1
  <2> QED BY <1>1, <2>1, <2>2 DEF Own
<1>4. /\ Own(n, q) \in Entry
      /\ Own(n, q).first \in Nat
      /\ Own(n, q).retx \in Int
      /\ Own(n, q)'.first = Own(n, q).first
      /\ Own(n, q)'.retx = Own(n, q).retx + 1
  BY <1>0, <1>2, <1>3, NodeTypes, RetransmittedEntry
<1>5. history[n][Slot(q)] = Own(n, q)
  BY <1>0, <1>1 DEF HistoryInv, Recent, StillRecorded, UnderWay
<1>6. Own(n, q).retx \in 0 .. InterestReTx - 1
  BY <1>0, <1>1, <1>2, <1>4, <1>5
     DEF Retransmit, MayRetransmit, HistoryInv, Counted
<1>7. PICK delay \in RetxDelays :
         resending'[n] = resending[n] \cup {[seqNo |-> q, at |-> now + delay]}
  BY <1>1 DEF Retransmit, CTypeInv, ConsumerTypeOK
<1>8. \A s \in 0 .. last - 1 : Own(n, s)'.first = Own(n, s).first
  BY <1>3, <1>4
<1>9. SteadyPace(n)'
  <2>1. last > 0 => 0 \in 0 .. last - 1
    BY <1>0
  <2>2. \A s \in 0 .. last - 1 : 0 \in 0 .. last - 1
    BY <1>0
  <2>3. \A s \in 0 .. last - 1 :
           Own(n, s)'.first = Own(n, 0)'.first + s * SendInterval
    BY <1>0, <1>8, <2>2 DEF HistoryInv, SteadyPace
  <2>4. (expressTimer[n] # NotScheduled /\ last > 0) =>
           expressTimer[n] = Own(n, 0)'.first + last * SendInterval
    BY <1>0, <1>8, <2>1 DEF HistoryInv, SteadyPace
  <2> QED BY <1>2, <2>3, <2>4 DEF SteadyPace
<1>10. Counted(n)'
  <2>1. \A s \in 0 .. last - 1 : Own(n, s)'.retx \in 0..InterestReTx
    BY <1>0, <1>2, <1>3, <1>4, <1>6 DEF HistoryInv, Counted
  <2> QED BY <1>2, <2>1 DEF Counted
<1>11. \A s \in 0 .. last - 1 :
          Own(n, s).retx * Round <= Own(n, s)'.retx * Round
  <2>1. SUFFICES ASSUME NEW s \in 0 .. last - 1
                 PROVE  Own(n, s).retx * Round <= Own(n, s)'.retx * Round
    OBVIOUS
  <2>2. Own(n, s).retx \in Nat /\ Own(n, s)'.retx \in Nat
    BY <1>0, <1>2, <1>10 DEF HistoryInv, Counted
  <2>3. Own(n, s).retx <= Own(n, s)'.retx
    BY <1>3, <1>4, <2>2
  <2> QED BY <1>2, <2>2, <2>3, TimesMonotone
<1>12. InTime(n)'
  <2>1. ASSUME NEW s \in 0 .. last - 1
        PROVE  /\ Own(n, s).first \in Nat
               /\ Own(n, s).retx * Round \in Nat
               /\ Own(n, s)'.retx * Round \in Nat
    <3>1. Own(n, s).retx \in Nat /\ Own(n, s)'.retx \in Nat
      BY <1>0, <1>2, <1>10 DEF HistoryInv, Counted
    <3> QED BY <1>0, <1>2, <3>1, NodeTypes
  <2>2. ASSUME NEW g \in held'[n] PROVE HeldInTime(n, g)'
    <3>1. g \in held[n] /\ g.seqNo \in 0 .. last - 1 /\ g.expireAt \in Nat
      BY <1>0, <1>2, NodeTypes
    <3>2. HeldInTime(n, g)
      BY <3>1 DEF HistoryInv, InTime
    <3> QED BY <1>2, <1>8, <1>11, <2>1, <3>1, <3>2 DEF HeldInTime
  <2>3. ASSUME NEW r \in resending[n] PROVE ResendingInTime(n, r)'
    <3>1. r.seqNo \in 0 .. last - 1 /\ r.at \in Nat
      BY <1>0, NodeTypes
    <3>2. ResendingInTime(n, r)
      BY DEF HistoryInv, InTime
    <3> QED BY <1>2, <1>8, <1>11, <2>1, <3>1, <3>2 DEF ResendingInTime
  <2>4. ASSUME NEW r, r = [seqNo |-> q, at |-> now + delay]
        PROVE  ResendingInTime(n, r)'
    <3>1. /\ r.seqNo = q /\ r.at = now + delay
          /\ delay \in Nat /\ delay <= MaxRetxDelay
      BY <1>2, <2>4, ConsumerAssumption
    <3>2. /\ now <= h.expireAt + CheckPeriod
          /\ h.expireAt <= Own(n, q).first + Own(n, q).retx * Round + InterestLifetime
          /\ h.expireAt \in Nat
      BY <1>1, NodeTypes DEF HistoryInv, InTime, HeldInTime
    <3>3. Own(n, q)'.retx * Round = Own(n, q).retx * Round + Round
      BY <1>2, <1>4
    <3>4. Round = InterestLifetime + CheckPeriod + MaxRetxDelay
      BY DEF Round
    <3>5. r.at <= Own(n, q)'.first + Own(n, q)'.retx * Round
      BY <1>2, <1>4, <2>1, <3>1, <3>2, <3>3, <3>4
    <3> QED BY <1>2, <3>1, <3>5 DEF ResendingInTime
  <2> QED BY <1>7, <2>2, <2>3, <2>4 DEF InTime
<1>13. StillRecorded(n)'
  <2>1. SUFFICES ASSUME NEW s \in 0 .. last - 1, last - s <= HistorySize
                 PROVE  history'[n][Slot(s)] = Own(n, s)'
    BY <1>2 DEF StillRecorded
  <2>2. history[n] \in [Slots -> Entry] /\ s \in Nat
    BY <1>0 DEF CTypeInv, ConsumerTypeOK
  <2>3. CASE s = q
    BY <1>2, <1>3, <1>5, <2>2, <2>3, SlotInRange
  <2>4. CASE s # q
    <3>1. last - q <= HistorySize
      BY <1>0, <1>1 DEF HistoryInv, Recent, UnderWay
    <3>2. \/ s < q /\ q - s < HistorySize
          \/ q < s /\ s - q < HistorySize
      BY <1>0, <1>2, <2>1, <2>2, <2>4, <3>1
    <3>3. Slot(s) # Slot(q)
      BY <1>2, <2>2, <3>2, SlotsDistinct
    <3>4. history'[n][Slot(s)] = history[n][Slot(s)]
      BY <1>3, <2>2, <3>3, SlotInRange
    <3> QED BY <1>0, <1>3, <2>1, <2>4, <3>4 DEF HistoryInv, StillRecorded
  <2> QED BY <2>3, <2>4
<1>14. Recent(n)'
  <2>1. SUFFICES ASSUME NEW s \in UnderWay(n)'
                 PROVE  intSeqNo'[n] - s <= HistorySize
    BY DEF Recent
  <2>2. s \in UnderWay(n)
    BY <1>1, <1>2, <1>7 DEF UnderWay
  <2> QED BY <1>0, <1>2, <2>2 DEF HistoryInv, Recent
<1> QED BY <1>9, <1>10, <1>12, <1>13, <1>14 DEF HistoryInv

LEMMA HistoryResend ==
    ASSUME CTypeInv, NEW n \in Nodes, HistoryInv(n), NEW r \in resending[n],
           Resend(n, r)
    PROVE  HistoryInv(n)'
<1>1. /\ now \in Nat
      /\ r.seqNo \in 0 .. intSeqNo[n] - 1
      /\ r.seqNo \in Nat
      /\ r.at = now
      /\ resending'[n] \subseteq resending[n]
      /\ UNCHANGED <<now, intSeqNo, expressTimer, history, unlimited>>
      /\ InterestLifetime \in Nat /\ CheckPeriod \in Nat /\ Round \in Nat
  BY NodeTypes, ConsumerAssumption, SimTimeAssumption, DurationsAreNat
     DEF Resend, Due, CTypeInv, ConsumerTypeOK
<1>2. \A h \in held'[n] : \/ h \in held[n]
                          \/ h = [seqNo |-> r.seqNo, expireAt |-> now + InterestLifetime]
  BY <1>1, HandOverEffect DEF CTypeInv, Resend
<1>3. \A s : Own(n, s)' = Own(n, s)
  BY <1>1 DEF Own
<1>4. InTime(n)'
  <2>1. ASSUME NEW h \in held'[n] PROVE HeldInTime(n, h)'
    <3>1. CASE h \in held[n]
      BY <1>1, <3>1 DEF HistoryInv, InTime, HeldInTime, Own
    <3>2. CASE h = [seqNo |-> r.seqNo, expireAt |-> now + InterestLifetime]
      <4>1. h.seqNo = r.seqNo /\ h.expireAt = now + InterestLifetime
        BY <3>2
      <4>2. now <= Own(n, r.seqNo).first + Own(n, r.seqNo).retx * Round
        BY <1>1 DEF HistoryInv, InTime, ResendingInTime
      <4>3. Own(n, r.seqNo).first \in Nat /\ Own(n, r.seqNo).retx * Round \in Int
        BY <1>1, NodeTypes
      <4>4. /\ now <= h.expireAt + CheckPeriod
            /\ h.expireAt <= Own(n, r.seqNo).first + Own(n, r.seqNo).retx * Round
                                + InterestLifetime
        BY <1>1, <4>1, <4>2, <4>3
      <4> QED BY <1>1, <4>1, <4>4 DEF HeldInTime, Own
    <3> QED BY <1>2, <3>1, <3>2
  <2>2. ASSUME NEW g \in resending'[n] PROVE ResendingInTime(n, g)'
    BY <1>1 DEF HistoryInv, InTime, ResendingInTime, Own
  <2> QED BY <2>1, <2>2 DEF InTime
<1>5. Recent(n)'
  <2>1. UnderWay(n)' \subseteq UnderWay(n)
    BY <1>1, <1>2 DEF UnderWay
  <2> QED BY <1>1, <2>1 DEF HistoryInv, Recent
<1> QED BY <1>1, <1>4, <1>5
        DEF HistoryInv, SteadyPace, Counted, StillRecorded, Own

LEMMA HistoryTick ==
    ASSUME CTypeInv, NEW n \in Nodes, HistoryInv(n), ConsumerTick
    PROVE  HistoryInv(n)'
<1>1. now \in Nat /\ now' = now + 1 /\ CheckPeriod \in Nat /\ UNCHANGED consumerVars
  BY NodeTypes, SimTimeAssumption DEF ConsumerTick, Tick
<1>2. InTime(n)'
  <2>1. ASSUME NEW h \in held[n] PROVE HeldInTime(n, h)'
    <3>1. h.expireAt \in Nat /\ now < h.expireAt + CheckPeriod
      BY NodeTypes DEF ConsumerTick
    <3>2. now + 1 <= h.expireAt + CheckPeriod
      BY <1>1, <3>1
    <3> QED BY <1>1, <3>2
            DEF consumerVars, HistoryInv, InTime, HeldInTime, Own
  <2>2. ASSUME NEW r \in resending[n] PROVE ResendingInTime(n, r)'
    <3>1. r.at \in Nat /\ r.at # NotScheduled
      BY NodeTypes DEF NotScheduled
    <3>2. r.at \in UNION {{g.at : g \in resending[m]} : m \in Nodes}
      OBVIOUS
    <3>3. r.at > now
      BY <3>1, <3>2 DEF ConsumerTick, Tick
    <3>4. now + 1 <= r.at
      BY <1>1, <3>1, <3>3
    <3> QED BY <1>1, <3>4
            DEF consumerVars, HistoryInv, InTime, ResendingInTime, Own
  <2> QED BY <1>1, <2>1, <2>2 DEF InTime, consumerVars
<1> QED BY <1>1, <1>2
        DEF consumerVars, HistoryInv, SteadyPace, Counted, StillRecorded, Recent,
            UnderWay, Own
LEMMA ConsumerInvInit == ConsumerInit => ConsumerInv
BY CTypeInit, HistoryInit DEF ConsumerInv

LEMMA ConsumerInvNext ==
    ASSUME HistorySuffices, ConsumerInv, [ConsumerNext]_<<now, consumerVars>>
    PROVE  ConsumerInv'
<1>1. CTypeInv /\ CTypeInv'
  BY CTypeNext DEF ConsumerInv
<1>2. SUFFICES ASSUME NEW m \in Nodes PROVE HistoryInv(m)'
  BY <1>1 DEF ConsumerInv
<1>3. HistoryInv(m)
  BY DEF ConsumerInv
<1>4. ASSUME NEW n \in Nodes, Express(n) PROVE HistoryInv(m)'
  <2>1. CASE n = m
    BY <1>1, <1>3, <1>4, <2>1, HistoryExpress
  <2>2. CASE n # m
    <3>1. held'[m] = held[m]
      BY <1>1, <1>4, <2>2, HandOverEffect
         DEF Express, CTypeInv, ConsumerTypeOK
    <3>2. history'[m] = history[m] /\ unlimited'[m] = unlimited[m]
      BY <1>1, <1>4, <2>2, ExpressEffect
    <3>3. /\ now' = now /\ intSeqNo'[m] = intSeqNo[m]
          /\ expressTimer'[m] = expressTimer[m] /\ resending'[m] = resending[m]
      BY <1>1, <1>4, <2>2 DEF Express, CTypeInv, ConsumerTypeOK
    <3> QED BY <1>3, <3>1, <3>2, <3>3, HistoryElsewhere
  <2> QED BY <2>1, <2>2
<1>5. ASSUME NEW n \in Nodes, NEW h \in held[n], Retransmit(n, h)
      PROVE  HistoryInv(m)'
  <2>1. CASE n = m
    BY <1>1, <1>3, <1>5, <2>1, HistoryRetransmit
  <2>2. CASE n # m
    <3>1. history'[m] = history[m] /\ unlimited'[m] = unlimited[m]
      BY <1>1, <1>5, <2>2, RetransmitEffect
    <3>2. /\ now' = now /\ intSeqNo'[m] = intSeqNo[m]
          /\ expressTimer'[m] = expressTimer[m] /\ held'[m] = held[m]
      BY <1>1, <1>5, <2>2 DEF Retransmit, CTypeInv, ConsumerTypeOK
    <3>3. resending'[m] = resending[m]
      BY <1>1, <1>5, <2>2 DEF Retransmit, CTypeInv, ConsumerTypeOK
    <3> QED BY <1>3, <3>1, <3>2, <3>3, HistoryElsewhere
  <2> QED BY <2>1, <2>2
<1>6. ASSUME NEW n \in Nodes, NEW h \in held[n], GiveUp(n, h)
      PROVE  HistoryInv(m)'
  <2>1. /\ held'[m] \subseteq held[m]
        /\ UNCHANGED <<now, intSeqNo, expressTimer, history, resending, unlimited>>
    BY <1>1, <1>6 DEF GiveUp, CTypeInv, ConsumerTypeOK
  <2> QED BY <1>3, <2>1, HistoryFewer
<1>7. ASSUME NEW n \in Nodes, NEW r \in resending[n], Resend(n, r)
      PROVE  HistoryInv(m)'
  <2>1. CASE n = m
    BY <1>1, <1>3, <1>7, <2>1, HistoryResend
  <2>2. CASE n # m
    <3>1. held'[m] = held[m]
      BY <1>1, <1>7, <2>2, HandOverEffect
         DEF Resend, CTypeInv, ConsumerTypeOK
    <3>2. /\ resending'[m] = resending[m]
          /\ UNCHANGED <<now, intSeqNo, expressTimer, history, unlimited>>
      BY <1>1, <1>7, <2>2 DEF Resend, CTypeInv, ConsumerTypeOK
    <3> QED BY <1>3, <3>1, <3>2, HistoryElsewhere
  <2> QED BY <2>1, <2>2
<1>8. ASSUME NEW n \in Nodes, NEW h \in held[n], NEW s \in Nat, OnData(n, h, s)
      PROVE  HistoryInv(m)'
  <2>1. /\ held'[m] \subseteq held[m]
        /\ UNCHANGED <<now, intSeqNo, expressTimer, history, resending, unlimited>>
    BY <1>1, <1>8 DEF OnData, CTypeInv, ConsumerTypeOK
  <2> QED BY <1>3, <2>1, HistoryFewer
<1>9. CASE ConsumerTick
  BY <1>1, <1>3, <1>9, HistoryTick
<1>10. CASE UNCHANGED <<now, consumerVars>>
  BY <1>3, <1>10, HistoryElsewhere DEF consumerVars
<1>11. ASSUME NEW n \in Nodes, Expires(n) PROVE HistoryInv(m)'
  BY <1>5, <1>6, <1>11 DEF Expires
<1>12. ASSUME NEW n \in Nodes, Resends(n) PROVE HistoryInv(m)'
  BY <1>7, <1>12 DEF Resends
<1>13. ASSUME NEW n \in Nodes, Answered(n) PROVE HistoryInv(m)'
  BY <1>1, <1>8, <1>13, AnsweredIsNat DEF Answered
<1> QED BY <1>4, <1>9, <1>10, <1>11, <1>12, <1>13 DEF ConsumerNext, ConsumerEnd

LEMMA ConsumerInvariance ==
    ASSUME HistorySuffices PROVE ConsumerSpec => []ConsumerInv
<1>1. ConsumerInv /\ [ConsumerNext]_<<now, consumerVars>> => ConsumerInv'
  BY ConsumerInvNext
<1> QED BY <1>1, ConsumerInvInit, PTL DEF ConsumerSpec
-----------------------------------------------------------------------------
(* What the invariant gives.                                                *)

LEMMA InvGivesOwnSlots == ConsumerInv => SlotsAreTheirOwn
<1> SUFFICES ASSUME ConsumerInv, NEW n \in Nodes, NEW s \in UnderWay(n)
             PROVE  history[n][Slot(s)] = unlimited[n][s + 1]
  BY DEF SlotsAreTheirOwn
<1>1. s \in 0 .. intSeqNo[n] - 1
  BY NodeTypes DEF ConsumerInv
<1> QED BY <1>1 DEF ConsumerInv, HistoryInv, Recent, StillRecorded, Own

LEMMA InvGivesPatience == ConsumerInv => NoneOutlivesPatience
BY PatienceCovers DEF ConsumerInv, NoneOutlivesPatience, Own

LEMMA StepGivesUpByOwnCount ==
    ASSUME ConsumerInv, NEW n \in Nodes, NEW h \in held[n], GiveUp(n, h)
    PROVE  unlimited[n][h.seqNo + 1].retx = InterestReTx
<1>1. /\ h.seqNo \in 0 .. intSeqNo[n] - 1
      /\ intSeqNo[n] - h.seqNo <= HistorySize
      /\ InterestReTx \in Nat
  BY NodeTypes, ConsumerAssumption DEF ConsumerInv, HistoryInv, Recent, UnderWay
<1>2. history[n][Slot(h.seqNo)] = Own(n, h.seqNo)
  BY <1>1 DEF ConsumerInv, HistoryInv, StillRecorded
<1>3. /\ ~ (Own(n, h.seqNo).retx < InterestReTx)
      /\ Own(n, h.seqNo).retx \in 0..InterestReTx
  BY <1>1, <1>2 DEF GiveUp, MayRetransmit, ConsumerInv, HistoryInv, Counted
<1> QED BY <1>1, <1>3 DEF Own

LEMMA StepStatisticsAreReal ==
    ASSUME ConsumerInv, NEW n \in Nodes, NEW h \in held[n], NEW s \in Nat,
           OnData(n, h, s), s < intSeqNo[n]
    PROVE  LET entry == Own(n, s) IN
           \/ collected'[n] = [seqNo |-> s, allRtt |-> now - entry.first,
                               lastRtt |-> now - entry.last, retx |-> entry.retx]
           \/ /\ collected'[n] = [NoSample EXCEPT !.seqNo = s]
              /\ s + HistorySize < intSeqNo[n]
<1>1. collected'[n] = Collect(n, s)
  BY DEF OnData, ConsumerInv, CTypeInv, ConsumerTypeOK
<1>2. intSeqNo[n] \in Nat /\ HistorySize \in Nat
  BY NodeTypes, ConsumerAssumption DEF ConsumerInv
<1>3. CASE Forgotten(n, s)
  <2>1. s + HistorySize < intSeqNo[n]
    BY <1>2, <1>3 DEF Forgotten
  <2> QED BY <1>1, <1>3, <2>1 DEF Collect
<1>4. CASE ~ Forgotten(n, s)
  <2>1. s \in 0 .. intSeqNo[n] - 1 /\ intSeqNo[n] - s <= HistorySize
    BY <1>2, <1>4 DEF Forgotten
  <2>2. history[n][Slot(s)] = Own(n, s)
    BY <2>1 DEF ConsumerInv, HistoryInv, StillRecorded
  <2> QED BY <1>1, <1>4, <2>2 DEF Collect
<1> QED BY <1>3, <1>4

(* Only onData() counts Data.                                               *)
LEMMA OnlyOnDataCounts ==
    ASSUME CTypeInv, [ConsumerNext]_<<now, consumerVars>>, NEW n \in Nodes,
           numDataReceived'[n] # numDataReceived[n]
    PROVE  \E h \in held[n] : \E s \in SeqNos \cup {h.seqNo} : OnData(n, h, s)
<1>1. ASSUME NEW m \in Nodes, Express(m) PROVE FALSE
  BY <1>1 DEF Express
<1>2. ASSUME NEW m \in Nodes, Expires(m) PROVE FALSE
  BY <1>2 DEF Expires, Retransmit, GiveUp
<1>3. ASSUME NEW m \in Nodes, Resends(m) PROVE FALSE
  BY <1>3 DEF Resends, Resend
<1>4. CASE ConsumerTick \/ ConsumerEnd \/ UNCHANGED <<now, consumerVars>>
  BY <1>4 DEF ConsumerTick, ConsumerEnd, consumerVars
<1>5. ASSUME NEW m \in Nodes, Answered(m)
      PROVE  \E h \in held[n] : \E s \in SeqNos \cup {h.seqNo} : OnData(n, h, s)
  <2>1. PICK h \in held[m] : \E s \in SeqNos \cup {h.seqNo} : OnData(m, h, s)
    BY <1>5 DEF Answered
  <2>2. m = n
    BY <2>1 DEF OnData, CTypeInv, ConsumerTypeOK
  <2> QED BY <2>1, <2>2
<1> QED BY <1>1, <1>2, <1>3, <1>4, <1>5 DEF ConsumerNext
-----------------------------------------------------------------------------
(* For every consumer whose history suffices, the slot of an Interest under *)
(* way is its own.                                                          *)
THEOREM ConsumerSlotsAreTheirOwn ==
    ASSUME HistorySuffices PROVE ConsumerSpec => []SlotsAreTheirOwn
BY ConsumerInvariance, InvGivesOwnSlots, PTL

(* And no Interest is under way for longer than its consumer's patience,    *)
(* however the retransmissions fall.                                        *)
THEOREM ConsumerPatience ==
    ASSUME HistorySuffices PROVE ConsumerSpec => []NoneOutlivesPatience
BY ConsumerInvariance, InvGivesPatience, PTL

(* And an Interest is given up after as many retransmissions of its own as  *)
(* the parameter says, never for those of another.                          *)
THEOREM ConsumerGivesUpByOwnCount ==
    ASSUME HistorySuffices PROVE ConsumerSpec => GivesUpByOwnCount
<1>1. ConsumerInv /\ [ConsumerNext]_<<now, consumerVars>> =>
         [\A n \in Nodes : \A h \in held[n] :
             GiveUp(n, h) => unlimited[n][h.seqNo + 1].retx = InterestReTx
         ]_<<now, consumerVars>>
  BY StepGivesUpByOwnCount
<1> QED BY <1>1, ConsumerInvariance, PTL DEF ConsumerSpec, GivesUpByOwnCount

(* And the statistics never show what was recorded for another Interest.    *)
THEOREM ConsumerStatisticsAreReal ==
    ASSUME HistorySuffices PROVE ConsumerSpec => StatisticsAreReal
<1> DEFINE Real ==
       \A n \in Nodes :
          numDataReceived'[n] # numDataReceived[n] =>
             LET c == collected'[n]
                 entry == unlimited[n][c.seqNo + 1]
             IN  c.seqNo < intSeqNo[n] =>
                    \/ c = [seqNo |-> c.seqNo, allRtt |-> now - entry.first,
                            lastRtt |-> now - entry.last, retx |-> entry.retx]
                    \/ /\ c = [NoSample EXCEPT !.seqNo = c.seqNo]
                       /\ c.seqNo + HistorySize < intSeqNo[n]
<1>1. ASSUME ConsumerInv, [ConsumerNext]_<<now, consumerVars>> PROVE Real
  <2>1. SUFFICES ASSUME NEW n \in Nodes,
                        numDataReceived'[n] # numDataReceived[n],
                        collected'[n].seqNo < intSeqNo[n]
                 PROVE  LET c == collected'[n]
                            entry == unlimited[n][c.seqNo + 1]
                        IN  \/ c = [seqNo |-> c.seqNo, allRtt |-> now - entry.first,
                                    lastRtt |-> now - entry.last, retx |-> entry.retx]
                            \/ /\ c = [NoSample EXCEPT !.seqNo = c.seqNo]
                               /\ c.seqNo + HistorySize < intSeqNo[n]
    OBVIOUS
  <2>2. CTypeInv
    BY <1>1 DEF ConsumerInv
  <2>3. PICK h \in held[n] : \E s \in SeqNos \cup {h.seqNo} : OnData(n, h, s)
    BY <1>1, <2>1, <2>2, OnlyOnDataCounts
  <2> PICK s \in SeqNos \cup {h.seqNo} : OnData(n, h, s)
    BY <2>3
  <2>4. s \in Nat
    BY <2>2, AnsweredIsNat
  <2>5. collected'[n] = Collect(n, s)
    BY <2>2, <2>3 DEF OnData, CTypeInv, ConsumerTypeOK
  <2>6. collected'[n].seqNo = s
    BY <2>5 DEF Collect, NoSample
  <2> QED BY <1>1, <2>1, <2>3, <2>4, <2>6, StepStatisticsAreReal DEF Own
<1>2. ConsumerInv /\ [ConsumerNext]_<<now, consumerVars>> => [Real]_<<now, consumerVars>>
  BY <1>1
<1>3. StatisticsAreReal <=> [][Real]_<<now, consumerVars>>
  BY PTL DEF StatisticsAreReal
<1> HIDE DEF Real
<1> QED BY <1>2, <1>3, ConsumerInvariance, PTL DEF ConsumerSpec
=============================================================================
