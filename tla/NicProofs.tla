------------------------------ MODULE NicProofs ------------------------------
(***************************************************************************)
(* Proofs about any number of MACs and radios on any medium: the state     *)
(* machine of the MAC, its timers and its counters agree with each other   *)
(* and with the radio, whatever signals meet and whatever is queued.       *)
(***************************************************************************)
EXTENDS WirelessNic, VectorLemmas, TLAPS

(* The MAC by itself.                                                       *)
TimersOK(m) ==
    /\ m.endDifs # NotScheduled <=> m.fsm = "WAITDIFS"
    /\ m.endBackoff # NotScheduled <=> m.fsm = "BACKOFF"
    /\ m.endAckTimeout # NotScheduled <=> m.fsm = "WAITACK"
    /\ m.endSifs # NotScheduled <=> m.fsm = "WAITSIFS"
    /\ m.frameToAck # NoFrame <=> m.fsm = "WAITSIFS"

CountersOK(m) ==
    /\ m.retryCounter <= RetryLimit
    /\ m.fsm = "BACKOFF" =>
           m.backoffPeriod >= 0 /\ m.endBackoff <= m.backoffPeriod * SlotTime
    /\ m.fsm \in {"TRANSMIT", "WAITACK"} => m.backoffPeriod = Invalid

MacOK(m) ==
    /\ m \in MacState
    /\ TimersOK(m)
    /\ CountersOK(m)
    /\ m.fsm \in Contending \cup {"TRANSMIT", "WAITACK"} => m.queue # <<>>

RxStates == {"UNDEFINED", "IDLE", "BUSY", "RECEIVING"}

(* The MAC and what it knows of its radio; a frame may be on its way up.    *)
Fits(m, rx, up) ==
    /\ m.fsm \in {"WAITDIFS", "BACKOFF"} => rx = "IDLE"
    /\ m.fsm = "DEFER" => rx \in {"BUSY", "UNDEFINED"}
    /\ m.fsm = "IDLE" => rx # "RECEIVING"
    /\ m.fsm = "RECEIVE" => rx = "RECEIVING" \/ up

(* No timer runs: the states between which the MAC chooses anew.            *)
Rested(m) ==
    /\ m \in MacState
    /\ m.endDifs = NotScheduled /\ m.endBackoff = NotScheduled
    /\ m.endAckTimeout = NotScheduled /\ m.endSifs = NotScheduled
    /\ m.frameToAck = NoFrame
    /\ m.retryCounter <= RetryLimit

LEMMA DrawsAreSlots == \A m : Draws(m) \subseteq Nat
<1>1. 0..CwMulticast \subseteq Nat /\ 0..CwMax \subseteq Nat
  BY MacAssumption
<1> QED BY <1>1 DEF Draws

LEMMA NoFrameIsNoFrame ==
    /\ \A f \in Frames : f # NoFrame /\ f.kind = "data"
    /\ \A n : Ack(n) # NoFrame
<1>1. \A f \in Frames : f.kind = "data"
  BY MacAssumption
<1> QED BY <1>1 DEF NoFrame, Ack

LEMMA EnterOK ==
    ASSUME NEW m, Rested(m), NEW s \in {"IDLE", "DEFER", "RECEIVE"},
           s = "DEFER" => m.queue # <<>>
    PROVE  MacOK(Enter(m, s)) /\ Enter(m, s).fsm = s
  BY DEF Rested, MacState, States, Enter, MacOK, TimersOK, CountersOK, Contending

LEMMA EnterWaitDifsOK ==
    ASSUME NEW m, Rested(m), m.queue # <<>>
    PROVE  MacOK(EnterWaitDifs(m)) /\ EnterWaitDifs(m).fsm = "WAITDIFS"
<1> DEFINE w == EnterWaitDifs(m)
<1>1. w \in MacState
  BY MacAssumption DEF Rested, MacState, States, EnterWaitDifs, Timer
<1>2. /\ w.fsm = "WAITDIFS" /\ w.endDifs = DifsTime /\ w.queue = m.queue
      /\ w.endBackoff = NotScheduled /\ w.endAckTimeout = NotScheduled
      /\ w.endSifs = NotScheduled /\ w.frameToAck = NoFrame
      /\ w.retryCounter = m.retryCounter
  BY DEF Rested, MacState, EnterWaitDifs
<1>3. DifsTime # NotScheduled
  BY MacAssumption DEF NotScheduled
<1> HIDE DEF w
<1>4. MacOK(w) /\ w.fsm = "WAITDIFS"
  BY <1>1, <1>2, <1>3 DEF Rested, MacOK, TimersOK, CountersOK
<1> QED BY <1>4 DEF w

LEMMA EnterBackoffOK ==
    ASSUME NEW m, Rested(m), m.queue # <<>>, NEW m2 \in EnterBackoff(m)
    PROVE  MacOK(m2) /\ m2.fsm = "BACKOFF"
<1>1. PICK b : /\ b = m \/ \E s \in Nat : b = [m EXCEPT !.backoffPeriod = s]
               /\ b.backoffPeriod # Invalid
               /\ m2 = [b EXCEPT !.fsm = "BACKOFF",
                                 !.endBackoff = b.backoffPeriod * SlotTime]
  <2>1. CASE m.backoffPeriod = Invalid
    <3>1. PICK b \in GenerateBackoff(m) :
             m2 = [b EXCEPT !.fsm = "BACKOFF",
                            !.endBackoff = b.backoffPeriod * SlotTime]
      BY <2>1 DEF EnterBackoff
    <3>2. PICK s \in Draws(m) : b = [m EXCEPT !.backoffPeriod = s]
      BY <3>1 DEF GenerateBackoff
    <3>3. s \in Nat /\ b.backoffPeriod = s
      BY <3>2, DrawsAreSlots DEF Rested, MacState
    <3>4. \E t \in Nat : b = [m EXCEPT !.backoffPeriod = t]
      BY <3>2, <3>3
    <3>5. b.backoffPeriod # Invalid
      BY <3>3 DEF Invalid
    <3> QED BY <3>1, <3>4, <3>5
  <2>2. CASE m.backoffPeriod # Invalid
    <3>1. m2 = [m EXCEPT !.fsm = "BACKOFF", !.endBackoff = m.backoffPeriod * SlotTime]
      BY <2>2 DEF EnterBackoff
    <3> QED BY <2>2, <3>1
  <2> QED BY <2>1, <2>2
<1>2. Rested(b) /\ b.queue = m.queue /\ b.backoffPeriod \in Nat
  BY <1>1 DEF Rested, MacState, Invalid
<1>3. b.backoffPeriod * SlotTime \in Nat
  BY <1>2, MacAssumption
<1>4. m2 \in MacState
  BY <1>1, <1>2, <1>3 DEF Rested, MacState, States, Timer
<1>5. /\ m2.fsm = "BACKOFF" /\ m2.endBackoff = b.backoffPeriod * SlotTime
      /\ m2.endDifs = NotScheduled /\ m2.endAckTimeout = NotScheduled
      /\ m2.endSifs = NotScheduled /\ m2.frameToAck = NoFrame
      /\ m2.retryCounter = b.retryCounter /\ m2.queue = b.queue
      /\ m2.backoffPeriod = b.backoffPeriod
  BY <1>1, <1>2 DEF Rested, MacState
<1>6. b.backoffPeriod * SlotTime # NotScheduled /\ b.backoffPeriod >= 0
      /\ b.backoffPeriod * SlotTime <= b.backoffPeriod * SlotTime
  BY <1>2, <1>3 DEF NotScheduled
<1> QED BY <1>2, <1>4, <1>5, <1>6 DEF Rested, MacOK, TimersOK, CountersOK
LEMMA ContendOK ==
    ASSUME NEW m, Rested(m), m.queue # <<>>, NEW rx \in RxStates, rx # "RECEIVING",
           NEW m2 \in Contend(m, rx)
    PROVE  /\ MacOK(m2) /\ m2.fsm \in Contending /\ \A up : Fits(m2, rx, up)
           /\ rx = "UNDEFINED" => m2.fsm = "DEFER"
<1>1. CASE rx # "IDLE"
  <2>1. m2 = Enter(m, "DEFER") /\ rx \in {"BUSY", "UNDEFINED"}
    BY <1>1 DEF Contend, RxStates
  <2> QED BY <2>1, EnterOK DEF Fits, Contending
<1>2. CASE rx = "IDLE" /\ UseAck
  <2>1. m2 = EnterWaitDifs(m)
    BY <1>2 DEF Contend
  <2> QED BY <1>2, <2>1, EnterWaitDifsOK DEF Fits, Contending
<1>3. CASE rx = "IDLE" /\ ~UseAck
  <2>1. m2 \in EnterBackoff(m)
    BY <1>3 DEF Contend
  <2> QED BY <1>3, <2>1, EnterBackoffOK DEF Fits, Contending
<1> QED BY <1>1, <1>2, <1>3

(* A MAC that has nothing running looks at the medium and at its queue.      *)
Settles(m2, rx) ==
    /\ MacOK(m2)
    /\ \A up : Fits(m2, rx, up)
    /\ m2.fsm \in Contending \cup {"IDLE", "RECEIVE"}
    /\ rx = "UNDEFINED" => m2.fsm \in {"IDLE", "DEFER"}

LEMMA AfterEventOK ==
    ASSUME NEW m, Rested(m), m.fsm = "IDLE", NEW rx \in RxStates,
           NEW m2 \in AfterEvent(m, rx)
    PROVE  Settles(m2, rx)
<1>1. CASE rx = "RECEIVING"
  <2>1. m2 = Enter(m, "RECEIVE")
    BY <1>1 DEF AfterEvent
  <2> QED BY <1>1, <2>1, EnterOK DEF Fits, Settles
<1>2. CASE rx # "RECEIVING" /\ m.queue # <<>>
  <2>1. m2 \in Contend(m, rx)
    BY <1>2 DEF AfterEvent
  <2> QED BY <1>2, <2>1, ContendOK DEF Settles
<1>3. CASE rx # "RECEIVING" /\ m.queue = <<>>
  <2>1. m2 = m
    BY <1>3 DEF AfterEvent
  <2>2. MacOK(m)
    BY DEF Rested, MacOK, TimersOK, CountersOK, Contending
  <2> QED BY <1>3, <2>1, <2>2 DEF Settles, Fits
<1> QED BY <1>1, <1>2, <1>3

LEMMA ToIdleOK ==
    ASSUME NEW m, Rested(m), NEW rx \in RxStates, NEW m2 \in ToIdle(m, rx)
    PROVE  Settles(m2, rx)
<1>1. Rested(Enter(m, "IDLE")) /\ Enter(m, "IDLE").fsm = "IDLE"
  BY DEF Rested, MacState, States, Enter
<1> QED BY <1>1, AfterEventOK DEF ToIdle

LEMMA OKIsRested ==
    ASSUME NEW m, MacOK(m), m.fsm \in {"IDLE", "DEFER", "RECEIVE", "TRANSMIT"}
    PROVE  Rested(m)
  BY DEF MacOK, TimersOK, CountersOK, Rested

(* decreaseBackoffPeriod() leaves a number of slots.                         *)
LEMMA SlotsRemain ==
    ASSUME NEW b \in Nat, NEW e \in Nat, e <= b * SlotTime
    PROVE  b - (b * SlotTime - e) \div SlotTime \in Nat
<1>1. SlotTime \in Nat /\ SlotTime > 0
  BY MacAssumption
<1>2. PICK x \in Nat : x = b * SlotTime
  BY <1>1
<1>3. x - e \in Nat /\ x - e <= x
  BY <1>2
<1>4. PICK q \in Int : q = (x - e) \div SlotTime
  BY <1>1, <1>3
<1>5. q * SlotTime <= x - e /\ x - e < (q + 1) * SlotTime
  BY <1>1, <1>3, <1>4
<1>6. q <= b
  <2>1. q * SlotTime <= b * SlotTime
    BY <1>1, <1>2, <1>3, <1>5
  <2> QED BY <1>1, <2>1
<1> QED BY <1>2, <1>4, <1>6

LEMMA PausedOK ==
    ASSUME NEW m, MacOK(m), m.fsm \in {"IDLE", "DEFER", "WAITDIFS", "BACKOFF"}
    PROVE  Rested(Paused(m)) /\ Paused(m).queue = m.queue
<1>1. m \in MacState
  BY DEF MacOK
<1>2. PICK p \in Nat \cup {Invalid} :
         p = IF m.fsm = "BACKOFF" THEN RemainingBackoff(m) ELSE m.backoffPeriod
  <2>1. CASE m.fsm = "BACKOFF"
    <3>1. m.backoffPeriod \in Nat /\ m.endBackoff \in Nat
          /\ m.endBackoff <= m.backoffPeriod * SlotTime
      BY <1>1, <2>1 DEF MacOK, TimersOK, CountersOK, MacState, Invalid, Timer, NotScheduled
    <3> QED BY <2>1, <3>1, SlotsRemain DEF RemainingBackoff
  <2>2. CASE m.fsm # "BACKOFF"
    BY <1>1, <2>2 DEF MacState
  <2> QED BY <2>1, <2>2
<1>3. Paused(m) = [m EXCEPT !.backoffPeriod = p, !.endDifs = NotScheduled,
                            !.endBackoff = NotScheduled]
  BY <1>2 DEF Paused
<1>4. Paused(m) \in MacState
  BY <1>1, <1>3 DEF MacState, Timer
<1>5. /\ m.endAckTimeout = NotScheduled /\ m.endSifs = NotScheduled
      /\ m.frameToAck = NoFrame /\ m.retryCounter <= RetryLimit
  BY DEF MacOK, TimersOK, CountersOK
<1>6. /\ Paused(m).endDifs = NotScheduled /\ Paused(m).endBackoff = NotScheduled
      /\ Paused(m).endAckTimeout = m.endAckTimeout /\ Paused(m).endSifs = m.endSifs
      /\ Paused(m).frameToAck = m.frameToAck /\ Paused(m).queue = m.queue
      /\ Paused(m).retryCounter = m.retryCounter
  BY <1>1, <1>3 DEF MacState
<1> QED BY <1>4, <1>5, <1>6 DEF Rested

(* mediumStateChange brings the MAC back in step with the radio.             *)
LEMMA MediumChangeOK ==
    ASSUME NEW m, MacOK(m), NEW rx \in RxStates, NEW up,
           m.fsm = "RECEIVE" => rx = "RECEIVING" \/ up,
           NEW m2 \in MediumChange(m, rx)
    PROVE  /\ MacOK(m2) /\ Fits(m2, rx, up)
           /\ m2.fsm = "TRANSMIT" => m.fsm = "TRANSMIT"
<1>1. CASE rx = "RECEIVING" /\ m.fsm \in {"IDLE", "DEFER", "WAITDIFS", "BACKOFF"}
  <2>1. m2 = Enter(Paused(m), "RECEIVE")
    BY <1>1 DEF MediumChange
  <2>2. MacOK(m2) /\ m2.fsm = "RECEIVE"
    BY <1>1, <2>1, PausedOK, EnterOK
  <2> QED BY <1>1, <2>2 DEF Fits
<1>2. CASE rx = "IDLE" /\ m.fsm = "DEFER"
  <2>1. m2 \in Contend(m, rx) /\ m.queue # <<>>
    BY <1>2 DEF MediumChange, MacOK, Contending
  <2>2. MacOK(m2) /\ m2.fsm \in Contending /\ Fits(m2, rx, up)
    BY <1>2, <2>1, OKIsRested, ContendOK
  <2> QED BY <2>2 DEF Contending
<1>3. CASE rx \notin {"RECEIVING", "IDLE"} /\ m.fsm \in {"WAITDIFS", "BACKOFF"}
  <2>1. m2 = Enter(Paused(m), "DEFER") /\ m.queue # <<>>
    BY <1>3 DEF MediumChange, MacOK, Contending
  <2>2. MacOK(m2) /\ m2.fsm = "DEFER"
    BY <1>3, <2>1, PausedOK, EnterOK
  <2> QED BY <1>3, <2>2 DEF Fits, RxStates
<1>4. CASE /\ ~ (rx = "RECEIVING" /\ m.fsm \in {"IDLE", "DEFER", "WAITDIFS", "BACKOFF"})
           /\ ~ (rx = "IDLE" /\ m.fsm = "DEFER")
           /\ ~ (rx \notin {"RECEIVING", "IDLE"} /\ m.fsm \in {"WAITDIFS", "BACKOFF"})
  <2>1. m2 \in AfterEvent(m, rx)
    BY <1>4 DEF MediumChange
  <2>2. CASE m.fsm = "IDLE"
    BY <2>1, <2>2, OKIsRested, AfterEventOK DEF Settles, Contending
  <2>3. CASE m.fsm # "IDLE"
    <3>1. m2 = m
      BY <2>1, <2>3 DEF AfterEvent
    <3> QED BY <1>4, <2>3, <3>1 DEF Fits, RxStates
  <2> QED BY <2>2, <2>3
<1> QED BY <1>1, <1>2, <1>3, <1>4
-----------------------------------------------------------------------------
(* Events of the MAC.                                                       *)

LEMMA InsertOK ==
    ASSUME NEW q \in Seq(Frames), NEW f \in Frames
    PROVE  Insert(q, f) \in Seq(Frames) /\ Insert(q, f) # <<>>
<1>1. Len(q) \in Nat /\ DOMAIN q = 1..Len(q) /\ f.prio \in Int
      /\ \A i \in 1..Len(q) : q[i] \in Frames /\ q[i].prio \in Int
  BY LenProperties, ElementOfSeq, MacAssumption
<1>2. Ahead(q, f) \in 0..Len(q)
  <2>1. CASE PrioritizeByUP
    <3> DEFINE T == {k \in 0..Len(q) : k < Len(q) => q[k + 1].prio < f.prio}
    <3>1. T \in SUBSET Nat /\ Len(q) \in T
      BY <1>1
    <3>2. PICK k \in T : \A j \in T : k <= j
      BY <3>1, LeastExists
    <3>3. ASSUME NEW i \in 1..k PROVE q[i].prio >= f.prio
      <4>1. i - 1 \notin T /\ i - 1 \in 0..Len(q) /\ i \in 1..Len(q)
        BY <1>1, <3>2
      <4>2. ~ (q[(i - 1) + 1].prio < f.prio)
        BY <4>1
      <4>3. (i - 1) + 1 = i
        BY <1>1, <3>2
      <4> QED BY <1>1, <4>1, <4>2, <4>3
    <3>4. /\ k \in 0..Len(q)
          /\ \A i \in 1..k : q[i].prio >= f.prio
          /\ k < Len(q) => q[k + 1].prio < f.prio
      BY <3>2, <3>3
    <3> HIDE DEF T
    <3> QED BY <2>1, <3>4 DEF Ahead
  <2>2. CASE ~PrioritizeByUP
    BY <1>1, <2>2 DEF Ahead
  <2> QED BY <2>1, <2>2
<1>3. PICK k \in 0..Len(q) : k = Ahead(q, f)
  BY <1>2
<1>4. SubSeq(q, 1, k) \in Seq(Frames) /\ SubSeq(q, k + 1, Len(q)) \in Seq(Frames)
  BY <1>1, SubSeqProperties
<1>5. <<f>> \in Seq(Frames) /\ Len(<<f>>) = 1
  OBVIOUS
<1>6. /\ SubSeq(q, 1, k) \o <<f>> \in Seq(Frames)
      /\ Len(SubSeq(q, 1, k) \o <<f>>) = Len(SubSeq(q, 1, k)) + 1
  BY <1>4, <1>5, ConcatProperties
<1> DEFINE s == (SubSeq(q, 1, k) \o <<f>>) \o SubSeq(q, k + 1, Len(q))
<1>7. s \in Seq(Frames) /\ Len(s) > 0
  <2>1. Len(SubSeq(q, 1, k)) \in Nat /\ Len(SubSeq(q, k + 1, Len(q))) \in Nat
    BY <1>4, LenProperties
  <2>2. s \in Seq(Frames) /\ Len(s) = Len(SubSeq(q, 1, k) \o <<f>>)
                                       + Len(SubSeq(q, k + 1, Len(q)))
    BY <1>4, <1>6, ConcatProperties
  <2> HIDE DEF s
  <2>3. PICK x \in Nat : x = Len(SubSeq(q, 1, k))
    BY <2>1
  <2>4. PICK y \in Nat : y = Len(SubSeq(q, k + 1, Len(q)))
    BY <2>1
  <2>5. Len(s) = (x + 1) + y
    BY <1>6, <2>2, <2>3, <2>4
  <2>6. (x + 1) + y > 0
    OBVIOUS
  <2>7. Len(s) > 0
    BY <2>5, <2>6
  <2> QED BY <2>2, <2>7
<1>8. s # <<>>
  BY <1>7
<1>9. Insert(q, f) = s
  BY <1>3 DEF Insert
<1> QED BY <1>7, <1>8, <1>9

(* A frame of the layer above; its MAC may begin to contend.                 *)
LEMMA UpperFrameOK ==
    ASSUME NEW m, MacOK(m), NEW f \in Frames, NEW rx \in RxStates, NEW up,
           Fits(m, rx, up), NEW m2 \in UpperFrame(m, f, rx)
    PROVE  /\ MacOK(m2) /\ Fits(m2, rx, up)
           /\ m2.fsm = "TRANSMIT" <=> m.fsm = "TRANSMIT"
           /\ rx = "UNDEFINED" => m2.fsm \in {m.fsm, "DEFER"}
<1> DEFINE queued == [m EXCEPT !.queue = Insert(@, f)]
<1>1. m \in MacState /\ m.queue \in Seq(Frames)
  BY DEF MacOK, MacState
<1>2. PICK q \in Seq(Frames) : q = Insert(m.queue, f) /\ q # <<>>
  BY <1>1, InsertOK
<1>3. queued = [m EXCEPT !.queue = q]
  BY <1>2
<1>4. queued \in MacState /\ queued.queue = q /\ queued.fsm = m.fsm
  BY <1>1, <1>3 DEF MacState
<1>5. MacOK(queued)
  BY <1>1, <1>2, <1>3, <1>4 DEF MacOK, TimersOK, CountersOK, MacState
<1>6. m2 \in IF m.fsm = "IDLE" THEN Contend(queued, rx) ELSE {queued}
  BY DEF UpperFrame
<1> HIDE DEF queued
<1>7. CASE m.fsm = "IDLE"
  <2>1. rx # "RECEIVING" /\ Rested(queued) /\ m2 \in Contend(queued, rx)
    BY <1>4, <1>5, <1>6, <1>7, OKIsRested DEF Fits
  <2> QED BY <1>2, <1>4, <1>7, <2>1, ContendOK DEF Contending
<1>8. CASE m.fsm # "IDLE"
  BY <1>4, <1>5, <1>6, <1>8 DEF Fits
<1> QED BY <1>7, <1>8

LEMMA ResetOK ==
    ASSUME NEW m, Rested(m)
    PROVE  Rested(Reset(m)) /\ Reset(m).queue = m.queue /\ Reset(m).fsm = m.fsm
<1>1. PICK r : r = Reset(m)
  OBVIOUS
<1>2. m \in MacState /\ 0 \in Nat /\ Invalid \in Nat \cup {Invalid}
  BY DEF Rested
<1>3. r \in MacState
  BY <1>1, <1>2 DEF MacState, Reset
<1>4. /\ r.endDifs = m.endDifs /\ r.endBackoff = m.endBackoff
      /\ r.endAckTimeout = m.endAckTimeout /\ r.endSifs = m.endSifs
      /\ r.frameToAck = m.frameToAck /\ r.queue = m.queue /\ r.fsm = m.fsm
      /\ r.retryCounter = 0
  BY <1>1, <1>2 DEF MacState, Reset
<1>5. 0 <= RetryLimit
  BY MacAssumption
<1>6. Rested(r)
  BY <1>3, <1>4, <1>5 DEF Rested
<1> QED BY <1>1, <1>4, <1>6

(* The frame in turn leaves the queue.                                       *)
LEMMA FinishOK ==
    ASSUME NEW m, Rested(m), m.queue # <<>>
    PROVE  Rested(Finish(m)) /\ Current(m) \in Frames
<1>1. m \in MacState /\ m.queue \in Seq(Frames)
  BY DEF Rested, MacState
<1>2. Tail(m.queue) \in Seq(Frames) /\ Head(m.queue) \in Frames
  BY <1>1, HeadTailProperties
<1>3. PICK q \in Seq(Frames) : q = Tail(m.queue)
  BY <1>2
<1>4. PICK r : r = Reset(m)
  OBVIOUS
<1>5. Rested(r) /\ r.queue = m.queue
  BY <1>4, ResetOK
<1>6. Finish(m) = [r EXCEPT !.queue = q]
  BY <1>3, <1>4, <1>5 DEF Finish, Rested, MacState
<1>7. Rested(Finish(m))
  BY <1>5, <1>6 DEF Rested, MacState
<1> QED BY <1>2, <1>7 DEF Current

(* A timer that fires is no longer scheduled.                                *)
LEMMA FiredOK ==
    ASSUME NEW m, MacOK(m)
    PROVE  /\ m.fsm = "WAITDIFS" =>
                 LET f == [m EXCEPT !.endDifs = NotScheduled]
                 IN  Rested(f) /\ f.queue # <<>>
           /\ m.fsm = "BACKOFF" =>
                 LET f == [m EXCEPT !.endBackoff = NotScheduled]
                 IN  Rested(f) /\ f.queue # <<>>
           /\ m.fsm = "WAITACK" =>
                 LET f == [m EXCEPT !.endAckTimeout = NotScheduled]
                 IN  Rested(f) /\ f.queue # <<>>
           /\ m.fsm = "WAITSIFS" =>
                 Rested([[m EXCEPT !.endSifs = NotScheduled] EXCEPT !.frameToAck = NoFrame])
<1>1. m \in MacState /\ TimersOK(m) /\ CountersOK(m)
      /\ (m.fsm \in {"WAITDIFS", "BACKOFF", "WAITACK"} => m.queue # <<>>)
  BY DEF MacOK, Contending
<1>2. NotScheduled \in Timer
  BY DEF Timer
<1>3. CASE m.fsm = "WAITDIFS"
  BY <1>1, <1>2, <1>3 DEF Rested, TimersOK, CountersOK, MacState
<1>4. CASE m.fsm = "BACKOFF"
  BY <1>1, <1>2, <1>4 DEF Rested, TimersOK, CountersOK, MacState
<1>5. CASE m.fsm = "WAITACK"
  BY <1>1, <1>2, <1>5 DEF Rested, TimersOK, CountersOK, MacState
<1>6. CASE m.fsm = "WAITSIFS"
  BY <1>1, <1>2, <1>6 DEF Rested, TimersOK, CountersOK, MacState
<1> QED BY <1>3, <1>4, <1>5, <1>6
(* endDifs comes in WAITDIFS, and so on: TimersOK names the only state.      *)
LEMMA FiresIn ==
    ASSUME NEW m, MacOK(m)
    PROVE  /\ m.endDifs = 0 => m.fsm = "WAITDIFS"
           /\ m.endBackoff = 0 => m.fsm = "BACKOFF"
           /\ m.endAckTimeout = 0 => m.fsm = "WAITACK"
           /\ m.endSifs = 0 => m.fsm = "WAITSIFS"
  BY DEF MacOK, TimersOK, NotScheduled

LEMMA DifsOverOK ==
    ASSUME NEW m, MacOK(m), m.endDifs = 0, NEW rx, NEW up, Fits(m, rx, up),
           NEW m2 \in DifsOver(m, rx)
    PROVE  MacOK(m2) /\ m2.fsm = "BACKOFF" /\ Fits(m2, rx, up)
<1> DEFINE fired == [m EXCEPT !.endDifs = NotScheduled]
<1>1. m.fsm = "WAITDIFS"
  BY FiresIn
<1>2. Rested(fired) /\ fired.queue # <<>>
  BY <1>1, FiredOK
<1>3. m2 \in EnterBackoff(fired)
  BY <1>1 DEF DifsOver
<1> HIDE DEF fired
<1>4. MacOK(m2) /\ m2.fsm = "BACKOFF"
  BY <1>2, <1>3, EnterBackoffOK
<1> QED BY <1>1, <1>4 DEF Fits

LEMMA BackoffOverOK ==
    ASSUME NEW m, MacOK(m), m.endBackoff = 0, NEW rx, NEW m2 \in BackoffOver(m, rx)
    PROVE  /\ m.fsm = "BACKOFF" /\ MacOK(m2) /\ m2.fsm = "TRANSMIT"
           /\ Current(m) \in Frames
<1>1. m.fsm = "BACKOFF" /\ m.queue # <<>> /\ m.queue \in Seq(Frames)
  BY FiresIn DEF MacOK, Contending, MacState
<1>2. PICK fired : /\ fired = [m EXCEPT !.endBackoff = NotScheduled]
                   /\ Rested(fired) /\ fired.queue # <<>>
  BY <1>1, FiredOK
<1>3. m2 = [fired EXCEPT !.fsm = "TRANSMIT", !.backoffPeriod = Invalid]
  BY <1>1, <1>2 DEF BackoffOver, Transmits
<1>4. fired \in MacState
  BY <1>2 DEF Rested
<1>5. m2 \in MacState
  BY <1>3, <1>4 DEF MacState, States
<1>6. /\ m2.fsm = "TRANSMIT" /\ m2.backoffPeriod = Invalid
      /\ m2.endDifs = fired.endDifs /\ m2.endBackoff = fired.endBackoff
      /\ m2.endAckTimeout = fired.endAckTimeout /\ m2.endSifs = fired.endSifs
      /\ m2.frameToAck = fired.frameToAck /\ m2.queue = fired.queue
      /\ m2.retryCounter = fired.retryCounter
  BY <1>3, <1>4 DEF MacState
<1>7. MacOK(m2)
  BY <1>2, <1>5, <1>6 DEF Rested, MacOK, TimersOK, CountersOK
<1>8. Current(m) \in Frames
  BY <1>1, HeadTailProperties DEF Current
<1> QED BY <1>1, <1>6, <1>7, <1>8

LEMMA DataOverOK ==
    ASSUME NEW m, MacOK(m), m.fsm \in {"TRANSMIT", "IDLE", "DEFER"},
           NEW m2 \in DataOver(m, "UNDEFINED")
    PROVE  /\ MacOK(m2) /\ m2.fsm \in {"IDLE", "DEFER", "WAITACK"}
           /\ NeedsNoAck(m) => Current(m) \in Frames
<1>1. Rested(m) /\ "UNDEFINED" \in RxStates
  BY OKIsRested DEF RxStates
<1>2. CASE NeedsNoAck(m)
  <2>1. m.queue # <<>> /\ m2 \in ToIdle(Finish(m), "UNDEFINED")
    BY <1>2 DEF NeedsNoAck, MacOK, DataOver
  <2> QED BY <1>1, <2>1, FinishOK, ToIdleOK DEF Settles
<1>3. CASE ~NeedsNoAck(m) /\ m.fsm = "TRANSMIT"
  <2>1. /\ m2 = [m EXCEPT !.fsm = "WAITACK", !.endAckTimeout = AckTimeout]
        /\ m \in MacState /\ m.queue # <<>> /\ m.backoffPeriod = Invalid
    BY <1>3 DEF DataOver, MacOK, CountersOK
  <2>2. m2 \in MacState
    BY <2>1, MacAssumption DEF MacState, States, Timer
  <2>3. /\ m2.fsm = "WAITACK" /\ m2.backoffPeriod = Invalid
        /\ m2.endDifs = m.endDifs /\ m2.endBackoff = m.endBackoff
        /\ m2.endAckTimeout = AckTimeout /\ m2.endSifs = m.endSifs
        /\ m2.frameToAck = m.frameToAck /\ m2.queue = m.queue
        /\ m2.retryCounter = m.retryCounter
    BY <2>1 DEF MacState
  <2>4. AckTimeout # NotScheduled
    BY MacAssumption DEF NotScheduled
  <2>5. MacOK(m2)
    BY <1>1, <2>1, <2>2, <2>3, <2>4 DEF Rested, MacOK, TimersOK, CountersOK
  <2> QED BY <1>3, <2>3, <2>5
<1>4. CASE ~NeedsNoAck(m) /\ m.fsm = "IDLE"
  <2>1. m2 \in AfterEvent(m, "UNDEFINED")
    BY <1>4 DEF DataOver
  <2> QED BY <1>1, <1>4, <2>1, AfterEventOK DEF Settles
<1>5. CASE ~NeedsNoAck(m) /\ m.fsm = "DEFER"
  <2>1. m2 = m
    BY <1>5 DEF DataOver, AfterEvent
  <2> QED BY <1>5, <2>1
<1> QED BY <1>2, <1>3, <1>4, <1>5

LEMMA AckOverdueOK ==
    ASSUME NEW m, MacOK(m), m.endAckTimeout = 0, NEW rx \in RxStates,
           NEW m2 \in AckOverdue(m, rx)
    PROVE  m.fsm = "WAITACK" /\ Settles(m2, rx) /\ Current(m) \in Frames
<1>1. m.fsm = "WAITACK"
  BY FiresIn
<1>2. PICK fired : /\ fired = [m EXCEPT !.endAckTimeout = NotScheduled]
                   /\ Rested(fired) /\ fired.queue # <<>>
  BY <1>1, FiredOK
<1>3. m \in MacState /\ m.retryCounter <= RetryLimit
  BY DEF MacOK, CountersOK
<1>4. fired.queue = m.queue /\ fired.retryCounter = m.retryCounter
  BY <1>2, <1>3 DEF MacState
<1>5. Current(m) \in Frames /\ Rested(Finish(fired))
  BY <1>2, <1>4, FinishOK DEF Current
<1>6. CASE GivesUp(m)
  <2>1. m2 \in ToIdle(Finish(fired), rx)
    BY <1>2, <1>6 DEF AckOverdue
  <2> QED BY <1>1, <1>5, <2>1, ToIdleOK
<1>7. CASE ~GivesUp(m)
  <2>1. PICK c : c = [fired EXCEPT !.retryCounter = @ + 1]
    OBVIOUS
  <2>2. PICK b \in GenerateBackoff(c) : m2 \in ToIdle(b, rx)
    BY <1>1, <1>2, <1>7, <2>1 DEF AckOverdue
  <2>3. fired \in MacState /\ fired.retryCounter + 1 \in Nat
    BY <1>2 DEF Rested, MacState
  <2>4. fired.retryCounter + 1 <= RetryLimit
    BY <1>1, <1>3, <1>4, <1>7, MacAssumption DEF GivesUp, MacState
  <2>5. Rested(c)
    BY <1>2, <2>1, <2>3, <2>4 DEF Rested, MacState
  <2>6. PICK s \in Nat : b = [c EXCEPT !.backoffPeriod = s]
    BY <2>2, DrawsAreSlots DEF GenerateBackoff
  <2>7. Rested(b)
    BY <2>5, <2>6 DEF Rested, MacState
  <2> QED BY <1>1, <1>5, <2>2, <2>7, ToIdleOK
<1> QED BY <1>6, <1>7
LEMMA LowerFrameOK ==
    ASSUME NEW n, NEW m, MacOK(m), NEW f \in AllFrames, NEW bitError,
           NEW rx \in RxStates, Fits(m, rx, TRUE),
           NEW m2 \in LowerFrame(n, m, f, bitError, rx)
    PROVE  /\ MacOK(m2) /\ Fits(m2, rx, FALSE)
           /\ m2.fsm = "TRANSMIT" <=> m.fsm = "TRANSMIT"
           /\ rx = "UNDEFINED" /\ m.fsm \in {"TRANSMIT", "IDLE", "DEFER"} =>
                 m2.fsm \in {"TRANSMIT", "IDLE", "DEFER"}
           /\ Acknowledged(n, m, f) => Current(m) \in Frames
           /\ PassesUp(n, m, f, bitError) => f \in Frames
<1>1. m \in MacState
  BY DEF MacOK
<1>2. PassesUp(n, m, f, bitError) => f \in Frames
  BY DEF PassesUp, AllFrames, Ack
<1>3. CASE Acknowledged(n, m, f)
  <2>1. m.fsm = "WAITACK" /\ m.queue # <<>>
    BY <1>3 DEF Acknowledged, MacOK
  <2>2. PICK fired : /\ fired = [m EXCEPT !.endAckTimeout = NotScheduled]
                     /\ Rested(fired) /\ fired.queue # <<>>
    BY <2>1, FiredOK
  <2>3. Rested(Finish(fired)) /\ Current(fired) \in Frames
    BY <2>2, FinishOK
  <2>4. Current(m) \in Frames
    BY <1>1, <2>2, <2>3 DEF Current, MacState
  <2>5. PICK g : g = [Finish(m) EXCEPT !.endAckTimeout = NotScheduled]
    OBVIOUS
  <2>6. Rested(g)
    <3>1. m.queue \in Seq(Frames) /\ Tail(m.queue) \in Seq(Frames)
      BY <1>1, <2>1, HeadTailProperties DEF MacState
    <3>2. PICK q \in Seq(Frames) : q = Tail(m.queue)
      BY <3>1
    <3>3. PICK r : r = Reset(m)
      OBVIOUS
    <3>4. r \in MacState /\ r.queue = m.queue /\ r.retryCounter = 0
          /\ r.endDifs = m.endDifs /\ r.endBackoff = m.endBackoff
          /\ r.endSifs = m.endSifs /\ r.frameToAck = m.frameToAck
      BY <1>1, <3>3 DEF MacState, Reset
    <3>5. PICK h : h = Finish(m)
      OBVIOUS
    <3>6. h = [r EXCEPT !.queue = q]
      BY <3>2, <3>3, <3>4, <3>5 DEF Finish, MacState
    <3>7. h \in MacState /\ h.retryCounter = 0
          /\ h.endDifs = m.endDifs /\ h.endBackoff = m.endBackoff
          /\ h.endSifs = m.endSifs /\ h.frameToAck = m.frameToAck
      BY <3>4, <3>6 DEF MacState
    <3>8. /\ m.endDifs = NotScheduled /\ m.endBackoff = NotScheduled
          /\ m.endSifs = NotScheduled /\ m.frameToAck = NoFrame
      BY <2>1 DEF MacOK, TimersOK
    <3>9. g = [h EXCEPT !.endAckTimeout = NotScheduled]
      BY <2>5, <3>5
    <3>10. 0 <= RetryLimit /\ NotScheduled \in Timer
      BY MacAssumption DEF Timer
    <3> QED BY <3>7, <3>8, <3>9, <3>10 DEF Rested, MacState
  <2>7. m2 \in ToIdle(g, rx)
    BY <1>3, <2>5 DEF LowerFrame
  <2>8. Settles(m2, rx)
    BY <2>6, <2>7, ToIdleOK
  <2>9. ~ PassesUp(n, m, f, bitError)
    BY <2>1 DEF PassesUp
  <2>10. Fits(m2, rx, FALSE)
    BY <2>8 DEF Settles
  <2> QED BY <2>1, <2>4, <2>8, <2>9, <2>10 DEF Settles, Contending
<1>4. CASE ~Acknowledged(n, m, f) /\ PassesUp(n, m, f, bitError)
           /\ f.dst # Broadcast /\ UseAck
  <2>1. /\ m2 = [m EXCEPT !.fsm = "WAITSIFS", !.endSifs = SifsTime, !.frameToAck = f]
        /\ m.fsm = "RECEIVE" /\ f \in Frames
    BY <1>2, <1>4 DEF LowerFrame, PassesUp
  <2>2. m2 \in MacState
    BY <1>1, <2>1, MacAssumption DEF MacState, States, Timer
  <2>3. /\ m2.fsm = "WAITSIFS" /\ m2.endSifs = SifsTime /\ m2.frameToAck = f
        /\ m2.endDifs = m.endDifs /\ m2.endBackoff = m.endBackoff
        /\ m2.endAckTimeout = m.endAckTimeout /\ m2.queue = m.queue
        /\ m2.retryCounter = m.retryCounter
    BY <1>1, <2>1 DEF MacState
  <2>4. SifsTime # NotScheduled /\ f # NoFrame
    BY <2>1, MacAssumption, NoFrameIsNoFrame DEF NotScheduled
  <2>5. MacOK(m2)
    BY <2>1, <2>2, <2>3, <2>4 DEF MacOK, TimersOK, CountersOK, Contending
  <2> QED BY <1>2, <1>4, <2>1, <2>3, <2>5 DEF Fits
<1>5. CASE /\ ~Acknowledged(n, m, f)
           /\ ~ (PassesUp(n, m, f, bitError) /\ f.dst # Broadcast /\ UseAck)
           /\ m.fsm = "RECEIVE"
  <2>1. m2 \in ToIdle(Reset(m), rx)
    BY <1>5 DEF LowerFrame
  <2>2. Settles(m2, rx)
    BY <1>5, <2>1, OKIsRested, ResetOK, ToIdleOK
  <2>3. Fits(m2, rx, FALSE)
    BY <2>2 DEF Settles
  <2> QED BY <1>2, <1>5, <2>2, <2>3 DEF Settles, Contending
<1>6. CASE ~Acknowledged(n, m, f) /\ m.fsm # "RECEIVE"
  <2>1. ~ PassesUp(n, m, f, bitError) /\ m2 \in AfterEvent(m, rx)
    BY <1>6 DEF LowerFrame, PassesUp
  <2>2. CASE m.fsm = "IDLE"
    <3>1. Settles(m2, rx)
      BY <2>1, <2>2, OKIsRested, AfterEventOK
    <3>2. Fits(m2, rx, FALSE)
      BY <3>1 DEF Settles
    <3> QED BY <1>6, <2>1, <2>2, <3>1, <3>2 DEF Settles, Contending
  <2>3. CASE m.fsm # "IDLE"
    <3>1. m2 = m
      BY <2>1, <2>3 DEF AfterEvent
    <3> QED BY <1>6, <2>1, <3>1 DEF Fits
  <2> QED BY <2>2, <2>3
<1> QED BY <1>3, <1>4, <1>5, <1>6

LEMMA SifsOverOK ==
    ASSUME NEW m, MacOK(m), m.endSifs = 0, NEW m2 \in SifsOver(m, "UNDEFINED")
    PROVE  /\ SendsAck(m) /\ m.fsm = "WAITSIFS" /\ m.frameToAck \in Frames
           /\ Settles(m2, "UNDEFINED")
<1>1. m.fsm = "WAITSIFS" /\ m \in MacState
  BY FiresIn DEF MacOK
<1>2. m.frameToAck \in Frames
  BY <1>1 DEF MacOK, TimersOK, MacState
<1>3. PICK g : g = [[m EXCEPT !.endSifs = NotScheduled] EXCEPT !.frameToAck = NoFrame]
  OBVIOUS
<1>4. Rested(g)
  BY <1>1, <1>3, FiredOK
<1>5. m2 \in ToIdle(Reset(g), "UNDEFINED")
  BY <1>1, <1>3 DEF SifsOver, SendsAck
<1>6. Settles(m2, "UNDEFINED")
  BY <1>4, <1>5, ResetOK, ToIdleOK DEF RxStates
<1> QED BY <1>1, <1>2, <1>6 DEF SendsAck
-----------------------------------------------------------------------------
(* The radio.                                                               *)

RadioOK(r) ==
    /\ r \in RadioState
    /\ r.mode = "TRANSMITTER" <=>
           r.down # NoFrame \/ r.transmissionTimer # NotScheduled
    /\ r.down # NoFrame => r.transmissionTimer = NotScheduled

LEMMA RxIsKnown == \A r : ReceptionState(r) \in RxStates
  BY DEF ReceptionState, RxStates

LEMMA DurationIsPositive ==
    \A f : Duration(f) \in Nat \ {0}
  BY RadioAssumption DEF Duration

LEMMA FrameIsFrame == \A f \in AllFrames : f # NoFrame
  BY NoFrameIsNoFrame DEF AllFrames

LEMMA HandDownOK ==
    ASSUME NEW r, RadioOK(r), r.mode = "RECEIVER", NEW f \in AllFrames
    PROVE  /\ RadioOK(HandDown(r, f)) /\ HandDown(r, f).mode = "TRANSMITTER"
           /\ ReceptionState(HandDown(r, f)) = "UNDEFINED"
<1>1. r \in RadioState /\ r.heard \subseteq Signal /\ r.transmissionTimer = NotScheduled
  BY DEF RadioOK, RadioState
<1>2. PICK h : h = {[s EXCEPT !.attempted = FALSE] : s \in r.heard}
  OBVIOUS
<1>3. h \subseteq Signal
  BY <1>1, <1>2 DEF Signal
<1>4. PICK q : q = SwitchToTransmitter(r)
  OBVIOUS
<1>5. q = [r EXCEPT !.mode = "TRANSMITTER", !.heard = h]
  BY <1>2, <1>4 DEF SwitchToTransmitter
<1>6. q \in RadioState /\ q.mode = "TRANSMITTER" /\ q.transmissionTimer = NotScheduled
  BY <1>1, <1>3, <1>5 DEF RadioState
<1>7. PICK d : d = HandDown(r, f)
  OBVIOUS
<1>8. d = [q EXCEPT !.down = f]
  BY <1>4, <1>7 DEF HandDown
<1>9. /\ d \in RadioState /\ d.mode = "TRANSMITTER"
      /\ d.transmissionTimer = NotScheduled /\ d.down = f
  BY <1>6, <1>8 DEF RadioState
<1>10. RadioOK(d) /\ ReceptionState(d) = "UNDEFINED"
  BY <1>9, FrameIsFrame DEF RadioOK, ReceptionState
<1> QED BY <1>7, <1>9, <1>10

LEMMA TransmissionOK ==
    ASSUME NEW r, RadioOK(r), r.down # NoFrame
    PROVE  /\ RadioOK(Transmission(r)) /\ Transmission(r).mode = "TRANSMITTER"
           /\ r.mode = "TRANSMITTER" /\ Transmission(r).up = r.up
<1>1. r \in RadioState /\ r.mode = "TRANSMITTER"
  BY DEF RadioOK
<1>2. PICK t \in Nat \ {0} : t = Duration(r.down)
  BY DurationIsPositive
<1>3. PICK d : d = Transmission(r)
  OBVIOUS
<1>4. d = [r EXCEPT !.down = NoFrame, !.sending = r.down, !.transmissionTimer = t]
  BY <1>2, <1>3 DEF Transmission
<1>5. /\ d \in RadioState /\ d.mode = "TRANSMITTER" /\ d.down = NoFrame
      /\ d.transmissionTimer = t /\ d.up = r.up
  BY <1>1, <1>4 DEF RadioState, Timer
<1>6. t # NotScheduled
  BY <1>2 DEF NotScheduled
<1>7. RadioOK(d)
  BY <1>5, <1>6 DEF RadioOK
<1> QED BY <1>1, <1>3, <1>5, <1>7

LEMMA TransmissionOverOK ==
    ASSUME NEW r, RadioOK(r), r.transmissionTimer = 0
    PROVE  /\ RadioOK(TransmissionOver(r)) /\ r.mode = "TRANSMITTER"
           /\ TransmissionOver(r).mode = "RECEIVER" /\ TransmissionOver(r).up = r.up
<1>1. r \in RadioState /\ r.mode = "TRANSMITTER" /\ r.down = NoFrame
  BY DEF RadioOK, NotScheduled
<1>2. PICK d : d = TransmissionOver(r)
  OBVIOUS
<1>3. d = [r EXCEPT !.sending = NoFrame, !.transmissionTimer = NotScheduled,
                    !.mode = "RECEIVER"]
  BY <1>2 DEF TransmissionOver
<1>4. /\ d \in RadioState /\ d.mode = "RECEIVER" /\ d.down = NoFrame
      /\ d.transmissionTimer = NotScheduled /\ d.up = r.up
  BY <1>1, <1>3 DEF RadioState, Timer
<1>5. RadioOK(d)
  BY <1>4 DEF RadioOK
<1> QED BY <1>1, <1>2, <1>4, <1>5

(* A new signal takes nothing from a reception that goes on.                 *)
LEMMA ReceptionStartedOK ==
    ASSUME NEW r, RadioOK(r), NEW a \in r.arriving, NEW receivable
    PROVE  LET d == ReceptionStarted(r, a, receivable) IN
           /\ RadioOK(d) /\ d.mode = r.mode /\ d.up = r.up
           /\ ReceptionState(r) = "RECEIVING" => ReceptionState(d) = "RECEIVING"
<1>1. /\ r \in RadioState /\ r.arriving \subseteq Arrival /\ r.heard \subseteq Signal
      /\ a \in Arrival
  BY DEF RadioOK, RadioState
<1>2. PICK x : x = [src |-> a.src, frame |-> a.frame, clean |-> (r.heard = {}),
                    left |-> Duration(a.frame), attempted |-> Attempts(r, receivable)]
  OBVIOUS
<1>3. x \in Signal
  <2>1. Attempts(r, receivable) \in BOOLEAN
    BY DEF Attempts
  <2>2. Duration(a.frame) \in Nat
    BY DurationIsPositive
  <2> QED BY <1>1, <1>2, <2>1, <2>2 DEF Signal, Arrival
<1>4. PICK h : h = {[s EXCEPT !.clean = FALSE] : s \in r.heard} \cup {x}
  OBVIOUS
<1>5. h \subseteq Signal
  <2>1. \A s \in r.heard : [s EXCEPT !.clean = FALSE] \in Signal
    BY <1>1 DEF Signal
  <2> QED BY <1>3, <1>4, <2>1
<1>6. PICK d : d = ReceptionStarted(r, a, receivable)
  OBVIOUS
<1>7. d = [r EXCEPT !.arriving = r.arriving \ {a}, !.heard = h]
  BY <1>1, <1>2, <1>4, <1>6 DEF ReceptionStarted, RadioState
<1>8. /\ d \in RadioState /\ d.mode = r.mode /\ d.up = r.up /\ d.down = r.down
      /\ d.transmissionTimer = r.transmissionTimer /\ d.heard = h
  BY <1>1, <1>5, <1>7 DEF RadioState
<1>9. ASSUME ReceptionState(r) = "RECEIVING" PROVE ReceptionState(d) = "RECEIVING"
  <2>1. PICK s \in r.heard : s.attempted
    BY <1>9 DEF ReceptionState, Receiving
  <2>2. [s EXCEPT !.clean = FALSE] \in h /\ [s EXCEPT !.clean = FALSE].attempted
    BY <1>1, <1>4, <2>1 DEF Signal
  <2>3. Receiving(d) # {}
    BY <1>8, <2>2 DEF Receiving
  <2> QED BY <1>8, <1>9, <2>3 DEF ReceptionState
<1>10. RadioOK(d)
  BY <1>8 DEF RadioOK
<1> QED BY <1>6, <1>8, <1>9, <1>10

(* A reception ends by handing its frame up.                                 *)
LEMMA ReceptionOverOK ==
    ASSUME NEW r, RadioOK(r), NEW s \in r.heard
    PROVE  LET d == ReceptionOver(r, s) IN
           /\ RadioOK(d) /\ d.mode = r.mode
           /\ r.up # <<>> => d.up # <<>>
           /\ ReceptionState(r) = "RECEIVING" =>
                 ReceptionState(d) = "RECEIVING" \/ d.up # <<>>
<1> DEFINE Up == [frame : AllFrames, bitError : BOOLEAN]
<1>1. /\ r \in RadioState /\ r.heard \subseteq Signal /\ s \in Signal
      /\ r.up \in Seq(Up)
  BY DEF RadioOK, RadioState
<1>2. PICK x \in Up : x = [frame |-> s.frame, bitError |-> ~s.clean]
  <2>1. s.frame \in AllFrames
    BY <1>1 DEF Signal
  <2>2. (~s.clean) \in BOOLEAN
    OBVIOUS
  <2>3. [frame |-> s.frame, bitError |-> ~s.clean] \in Up
    BY <2>1, <2>2
  <2> QED BY <2>3
<1>3. /\ Append(r.up, x) \in Seq(Up) /\ Append(r.up, x) # <<>>
  BY <1>1, AppendProperties
<1>4. PICK u \in Seq(Up) : /\ u = IF s.attempted THEN Append(r.up, x) ELSE r.up
                           /\ s.attempted => u # <<>>
                           /\ r.up # <<>> => u # <<>>
  BY <1>1, <1>3
<1> HIDE DEF Up
<1>5. PICK d : d = ReceptionOver(r, s)
  OBVIOUS
<1>6. d = [r EXCEPT !.heard = r.heard \ {s}, !.up = u]
  BY <1>1, <1>2, <1>4, <1>5 DEF ReceptionOver, RadioState
<1>7. /\ d \in RadioState /\ d.mode = r.mode /\ d.up = u /\ d.down = r.down
      /\ d.transmissionTimer = r.transmissionTimer /\ d.heard = r.heard \ {s}
  BY <1>1, <1>4, <1>6 DEF RadioState, Up
<1>8. ASSUME ReceptionState(r) = "RECEIVING", u = <<>>
      PROVE  ReceptionState(d) = "RECEIVING"
  <2>1. ~ s.attempted
    BY <1>4, <1>8
  <2>2. PICK q \in r.heard : q.attempted
    BY <1>8 DEF ReceptionState, Receiving
  <2>3. q \in Receiving(d)
    BY <1>7, <2>1, <2>2 DEF Receiving
  <2> QED BY <1>7, <1>8, <2>3 DEF ReceptionState
<1>9. RadioOK(d)
  BY <1>7 DEF RadioOK
<1> QED BY <1>4, <1>5, <1>7, <1>8, <1>9
-----------------------------------------------------------------------------
(* MAC and radio of a host, between two events.                             *)

HostInv(m, r) ==
    /\ MacOK(m)
    /\ RadioOK(r)
    /\ Fits(m, ReceptionState(r), r.up # <<>>)
    /\ r.mode = "TRANSMITTER" => m.fsm \in {"TRANSMIT", "IDLE", "DEFER"}
    /\ m.fsm = "TRANSMIT" => r.mode = "TRANSMITTER"

HistoryOK ==
    /\ fate \in [Frames -> Fates]
    /\ transmissions \in [Frames -> 0..MaxTransmissions]
    /\ delivered \in [Frames -> SUBSET Nodes]

NicInv ==
    /\ mac \in [Nodes -> MacState]
    /\ radio \in [Nodes -> RadioState]
    /\ HistoryOK
    /\ \A n \in Nodes : HostInv(mac[n], radio[n])

LEMMA HostInvStep ==
    ASSUME NicInv, HistoryOK', NEW n \in Nodes, NEW m, NEW r, HostInv(m, r),
           mac' = [mac EXCEPT ![n] = m], radio' = [radio EXCEPT ![n] = r]
    PROVE  NicInv'
<1>1. m \in MacState /\ r \in RadioState
  BY DEF HostInv, MacOK, RadioOK
<1>2. mac' \in [Nodes -> MacState] /\ radio' \in [Nodes -> RadioState]
  BY <1>1 DEF NicInv
<1>3. \A k \in Nodes : HostInv(mac'[k], radio'[k])
  BY DEF NicInv
<1> QED BY <1>2, <1>3 DEF NicInv

LEMMA SameRadio ==
    ASSUME NicInv, NEW n \in Nodes, radio' = radio
    PROVE  radio' = [radio EXCEPT ![n] = radio[n]]
  BY DEF NicInv

LEMMA FitsWithRadio ==
    ASSUME NEW m, NEW r, HostInv(m, r)
    PROVE  /\ r.mode \in {"RECEIVER", "TRANSMITTER"}
           /\ r.mode = "TRANSMITTER" <=> ReceptionState(r) = "UNDEFINED"
           /\ Fits(m, ReceptionState(r), TRUE)
  BY DEF HostInv, RadioOK, RadioState, ReceptionState, Fits

(* What remains the same for the radio and settles the MAC.                  *)
LEMMA SettlesHost ==
    ASSUME NEW m, NEW r, HostInv(m, r), NEW m2, Settles(m2, ReceptionState(r))
    PROVE  HostInv(m2, r)
<1>1. r.mode = "TRANSMITTER" => ReceptionState(r) = "UNDEFINED"
  BY FitsWithRadio
<1>2. Fits(m2, ReceptionState(r), r.up # <<>>)
  BY DEF Settles
<1> QED BY <1>1, <1>2 DEF HostInv, Settles, Contending

(* The radio tells of a change of its reception state.                       *)
LEMMA NotifyOK ==
    ASSUME NEW m, NEW r, HostInv(m, r), NEW r2, RadioOK(r2), r2.mode = r.mode,
           r.up # <<>> => r2.up # <<>>,
           ReceptionState(r) = "RECEIVING" =>
              ReceptionState(r2) = "RECEIVING" \/ r2.up # <<>>,
           NEW m2,
           IF ReceptionState(r2) # ReceptionState(r)
           THEN m2 \in MediumChange(m, ReceptionState(r2)) ELSE m2 = m
    PROVE  HostInv(m2, r2)
<1> DEFINE rx == ReceptionState(r2)
<1>1. rx \in RxStates
  BY RxIsKnown
<1>2. /\ MacOK(m) /\ Fits(m, ReceptionState(r), r.up # <<>>)
      /\ r.mode = "TRANSMITTER" => m.fsm \in {"TRANSMIT", "IDLE", "DEFER"}
      /\ m.fsm = "TRANSMIT" => r.mode = "TRANSMITTER"
  BY DEF HostInv
<1>3. CASE rx = ReceptionState(r)
  <2>1. Fits(m, rx, r2.up # <<>>)
    BY <1>2, <1>3 DEF Fits
  <2> QED BY <1>2, <1>3, <2>1 DEF HostInv
<1>4. CASE rx # ReceptionState(r)
  <2>1. m2 \in MediumChange(m, rx)
    BY <1>4
  <2>2. r.mode # "TRANSMITTER"
    BY <1>4 DEF ReceptionState
  <2>3. m.fsm = "RECEIVE" => rx = "RECEIVING" \/ r2.up # <<>>
    BY <1>2 DEF Fits
  <2> HIDE DEF rx
  <2>4. /\ MacOK(m2) /\ Fits(m2, rx, r2.up # <<>>)
        /\ m2.fsm = "TRANSMIT" => m.fsm = "TRANSMIT"
    BY <1>1, <1>2, <2>1, <2>3, MediumChangeOK
  <2> QED BY <1>2, <2>2, <2>4 DEF HostInv, rx
<1> QED BY <1>3, <1>4

LEMMA NicInitOK == NicInit => NicInv
<1> SUFFICES ASSUME NicInit PROVE NicInv
  OBVIOUS
<1>1. MacInit \in MacState /\ MacInit.fsm = "IDLE"
      /\ TimersOK(MacInit) /\ CountersOK(MacInit)
  BY MacAssumption
  DEF MacInit, MacState, States, Timer, TimersOK, CountersOK, NotScheduled
<1>2. MacOK(MacInit)
  BY <1>1 DEF MacOK, Contending
<1>3. RadioInit \in RadioState
  BY DEF RadioInit, RadioState, Timer
<1>4. RadioOK(RadioInit) /\ RadioInit.mode = "RECEIVER" /\ RadioInit.heard = {}
  BY <1>3 DEF RadioOK, RadioInit
<1>5. ReceptionState(RadioInit) = "IDLE"
  BY <1>4 DEF ReceptionState, Receiving
<1>6. HostInv(MacInit, RadioInit)
  BY <1>1, <1>2, <1>4, <1>5 DEF HostInv, Fits
<1>7. HistoryOK
  <2>1. 0 \in 0..MaxTransmissions
    BY NicAssumption
  <2>2. "to come" \in Fates
    BY DEF Fates
  <2>3. fate \in [Frames -> Fates]
    BY <2>2 DEF NicInit
  <2>4. transmissions \in [Frames -> 0..MaxTransmissions]
    BY <2>1 DEF NicInit
  <2>5. delivered \in [Frames -> SUBSET Nodes]
    BY DEF NicInit
  <2> QED BY <2>3, <2>4, <2>5 DEF HistoryOK
<1> QED BY <1>1, <1>3, <1>6, <1>7 DEF NicInit, NicInv
-----------------------------------------------------------------------------
(* Each event of the MAC.                                                   *)

(* The host at which the event takes place, before it.                      *)
LEMMA HostBefore ==
    ASSUME NicInv, NEW n \in Nodes
    PROVE  /\ HostInv(mac[n], radio[n])
           /\ MacOK(mac[n]) /\ RadioOK(radio[n]) /\ Rx(n) \in RxStates
           /\ Fits(mac[n], Rx(n), radio[n].up # <<>>)
           /\ Fits(mac[n], Rx(n), TRUE)
           /\ radio[n].mode \in {"RECEIVER", "TRANSMITTER"}
           /\ radio[n].mode = "TRANSMITTER" <=> Rx(n) = "UNDEFINED"
           /\ radio[n].mode = "TRANSMITTER" =>
                 mac[n].fsm \in {"TRANSMIT", "IDLE", "DEFER"}
           /\ mac[n].fsm = "TRANSMIT" => radio[n].mode = "TRANSMITTER"
<1>1. HostInv(mac[n], radio[n])
  BY DEF NicInv
<1>2. Rx(n) = ReceptionState(radio[n])
  BY DEF Rx
<1> QED BY <1>1, <1>2, FitsWithRadio, RxIsKnown DEF HostInv

(* Histories: one frame's fate, one more transmission, one more receiver.    *)
LEMMA FateTyped ==
    ASSUME NicInv, NEW f, NEW how \in Fates, f \in Frames,
           fate' = [fate EXCEPT ![f] = how]
    PROVE  fate' \in [Frames -> Fates]
  BY DEF NicInv, HistoryOK

LEMMA QueueFrameKeeps ==
    ASSUME NicInv, NEW n \in Nodes, NEW f \in Frames, QueueFrame(n, f)
    PROVE  NicInv'
<1>1. PICK m2 \in UpperFrame(mac[n], f, Rx(n)) : mac' = [mac EXCEPT ![n] = m2]
  BY DEF QueueFrame
<1>2. /\ MacOK(mac[n]) /\ RadioOK(radio[n]) /\ Rx(n) \in RxStates
      /\ Fits(mac[n], Rx(n), radio[n].up # <<>>)
      /\ radio[n].mode = "TRANSMITTER" <=> Rx(n) = "UNDEFINED"
      /\ radio[n].mode = "TRANSMITTER" => mac[n].fsm \in {"TRANSMIT", "IDLE", "DEFER"}
      /\ mac[n].fsm = "TRANSMIT" => radio[n].mode = "TRANSMITTER"
  BY HostBefore
<1>3. /\ MacOK(m2) /\ Fits(m2, Rx(n), radio[n].up # <<>>)
      /\ m2.fsm = "TRANSMIT" <=> mac[n].fsm = "TRANSMIT"
      /\ Rx(n) = "UNDEFINED" => m2.fsm \in {mac[n].fsm, "DEFER"}
  BY <1>1, <1>2, UpperFrameOK
<1>4. HostInv(m2, radio[n])
  BY <1>2, <1>3 DEF HostInv, Rx
<1>5. HistoryOK'
  <2>1. fate' \in [Frames -> Fates]
    BY FateTyped DEF QueueFrame, Fates
  <2> QED BY <2>1 DEF NicInv, HistoryOK, QueueFrame
<1>6. radio' = [radio EXCEPT ![n] = radio[n]]
  BY SameRadio DEF QueueFrame
<1> QED BY <1>1, <1>4, <1>5, <1>6, HostInvStep

LEMMA RefuseFrameKeeps ==
    ASSUME NicInv, NEW n \in Nodes, NEW f \in Frames, RefuseFrame(n, f)
    PROVE  NicInv'
<1>1. fate' \in [Frames -> Fates]
  BY FateTyped DEF RefuseFrame, Fates
<1>2. HistoryOK'
  BY <1>1 DEF NicInv, HistoryOK, RefuseFrame
<1> QED BY <1>2 DEF NicInv, RefuseFrame

LEMMA EndDifsKeeps ==
    ASSUME NicInv, NEW n \in Nodes, EndDifs(n)
    PROVE  NicInv'
<1>1. PICK m2 \in DifsOver(mac[n], Rx(n)) : mac' = [mac EXCEPT ![n] = m2]
  BY DEF EndDifs
<1>2. /\ MacOK(mac[n]) /\ RadioOK(radio[n]) /\ mac[n].endDifs = 0
      /\ Fits(mac[n], Rx(n), radio[n].up # <<>>)
      /\ radio[n].mode = "TRANSMITTER" => mac[n].fsm \in {"TRANSMIT", "IDLE", "DEFER"}
  BY HostBefore DEF EndDifs
<1>3. /\ MacOK(m2) /\ m2.fsm = "BACKOFF" /\ Fits(m2, Rx(n), radio[n].up # <<>>)
      /\ mac[n].fsm = "WAITDIFS"
  BY <1>1, <1>2, DifsOverOK, FiresIn
<1>4. HostInv(m2, radio[n])
  BY <1>2, <1>3 DEF HostInv, Rx
<1>5. HistoryOK'
  BY DEF NicInv, HistoryOK, EndDifs
<1>6. radio' = [radio EXCEPT ![n] = radio[n]]
  BY SameRadio DEF EndDifs
<1> QED BY <1>1, <1>4, <1>5, <1>6, HostInvStep

(* A frame goes down to a radio that is a receiver.                          *)
LEMMA EndBackoffKeeps ==
    ASSUME NicInv, NEW n \in Nodes, EndBackoff(n)
    PROVE  NicInv'
<1>1. PICK m2 \in BackoffOver(mac[n], Rx(n)) : mac' = [mac EXCEPT ![n] = m2]
  BY DEF EndBackoff
<1>2. /\ MacOK(mac[n]) /\ RadioOK(radio[n]) /\ mac[n].endBackoff = 0
      /\ radio[n].mode \in {"RECEIVER", "TRANSMITTER"}
      /\ radio[n].mode = "TRANSMITTER" => mac[n].fsm \in {"TRANSMIT", "IDLE", "DEFER"}
  BY HostBefore DEF EndBackoff
<1>3. /\ mac[n].fsm = "BACKOFF" /\ MacOK(m2) /\ m2.fsm = "TRANSMIT"
      /\ Current(mac[n]) \in Frames
  BY <1>1, <1>2, BackoffOverOK
<1>4. PICK f \in Frames : f = Current(mac[n])
  BY <1>3
<1>5. PICK r2 : r2 = HandDown(radio[n], f)
  OBVIOUS
<1>6. /\ RadioOK(r2) /\ r2.mode = "TRANSMITTER" /\ ReceptionState(r2) = "UNDEFINED"
  <2>1. radio[n].mode = "RECEIVER" /\ f \in AllFrames
    BY <1>2, <1>3 DEF AllFrames
  <2> QED BY <1>2, <1>5, <2>1, HandDownOK
<1>7. HostInv(m2, r2)
  BY <1>3, <1>6 DEF HostInv, Fits
<1>8. radio' = [radio EXCEPT ![n] = r2]
  BY <1>3, <1>4, <1>5 DEF EndBackoff, Transmits, NicInv
<1>9. HistoryOK'
  <2>1. transmissions' = [transmissions EXCEPT ![f] =
                             IF @ < MaxTransmissions THEN @ + 1 ELSE @]
    BY <1>3, <1>4 DEF EndBackoff, Transmits
  <2>2. transmissions[f] \in 0..MaxTransmissions
    BY <1>4 DEF NicInv, HistoryOK
  <2>3. PICK t \in 0..MaxTransmissions :
           t = IF transmissions[f] < MaxTransmissions THEN transmissions[f] + 1
               ELSE transmissions[f]
    BY <2>2, NicAssumption
  <2>4. transmissions' = [transmissions EXCEPT ![f] = t]
    BY <2>1, <2>3 DEF NicInv, HistoryOK
  <2>5. transmissions' \in [Frames -> 0..MaxTransmissions]
    BY <1>4, <2>4 DEF NicInv, HistoryOK
  <2> QED BY <2>5 DEF NicInv, HistoryOK, EndBackoff
<1> QED BY <1>1, <1>7, <1>8, <1>9, HostInvStep

LEMMA EndAckTimeoutKeeps ==
    ASSUME NicInv, NEW n \in Nodes, EndAckTimeout(n)
    PROVE  NicInv'
<1>1. PICK m2 \in AckOverdue(mac[n], Rx(n)) : mac' = [mac EXCEPT ![n] = m2]
  BY DEF EndAckTimeout
<1>2. /\ HostInv(mac[n], radio[n]) /\ MacOK(mac[n]) /\ Rx(n) \in RxStates
      /\ mac[n].endAckTimeout = 0
  BY HostBefore DEF EndAckTimeout
<1>3. Settles(m2, Rx(n)) /\ Current(mac[n]) \in Frames
  BY <1>1, <1>2, AckOverdueOK
<1>4. HostInv(m2, radio[n])
  BY <1>2, <1>3, SettlesHost DEF Rx
<1>5. HistoryOK'
  <2>1. fate' \in [Frames -> Fates]
    <3>1. CASE GivesUp(mac[n])
      BY <1>3, <3>1, FateTyped DEF EndAckTimeout, Settle, Fates
    <3>2. CASE ~GivesUp(mac[n])
      BY <3>2 DEF EndAckTimeout, NicInv, HistoryOK
    <3> QED BY <3>1, <3>2
  <2> QED BY <2>1 DEF NicInv, HistoryOK, EndAckTimeout
<1>6. radio' = [radio EXCEPT ![n] = radio[n]]
  BY SameRadio DEF EndAckTimeout
<1> QED BY <1>1, <1>4, <1>5, <1>6, HostInvStep

(* An acknowledgement is sent by a radio that is a receiver, too.            *)
LEMMA EndSifsKeeps ==
    ASSUME NicInv, NEW n \in Nodes, EndSifs(n)
    PROVE  NicInv'
<1>1. /\ MacOK(mac[n]) /\ RadioOK(radio[n]) /\ mac[n].endSifs = 0
      /\ radio[n].mode \in {"RECEIVER", "TRANSMITTER"}
      /\ radio[n].mode = "TRANSMITTER" => mac[n].fsm \in {"TRANSMIT", "IDLE", "DEFER"}
  BY HostBefore DEF EndSifs
<1>2. mac[n].fsm = "WAITSIFS" /\ SendsAck(mac[n])
  BY <1>1, FiresIn DEF SendsAck
<1>3. PICK m2 \in SifsOver(mac[n], "UNDEFINED") : mac' = [mac EXCEPT ![n] = m2]
  BY <1>2 DEF EndSifs
<1>4. mac[n].frameToAck \in Frames /\ Settles(m2, "UNDEFINED")
  BY <1>1, <1>3, SifsOverOK
<1>5. PICK a \in AllFrames : a = Ack(mac[n].frameToAck.src)
  <2>1. mac[n].frameToAck.src \in Nodes
    BY <1>4, MacAssumption
  <2> QED BY <2>1 DEF AllFrames
<1>6. PICK r2 : r2 = HandDown(radio[n], a)
  OBVIOUS
<1>7. RadioOK(r2) /\ r2.mode = "TRANSMITTER" /\ ReceptionState(r2) = "UNDEFINED"
  BY <1>1, <1>2, <1>6, HandDownOK
<1>8. HostInv(m2, r2)
  BY <1>4, <1>7 DEF Settles, HostInv, Contending
<1>9. radio' = [radio EXCEPT ![n] = r2]
  BY <1>2, <1>5, <1>6 DEF EndSifs, NicInv
<1>10. HistoryOK'
  BY DEF NicInv, HistoryOK, EndSifs
<1> QED BY <1>3, <1>8, <1>9, <1>10, HostInvStep
(* The radio hands the first frame up; its reception state remains.          *)
LEMMA UpTaken ==
    ASSUME NEW r, RadioOK(r), r.up # <<>>, NEW r2, r2 = [r EXCEPT !.up = Tail(@)]
    PROVE  /\ RadioOK(r2) /\ r2.mode = r.mode
           /\ ReceptionState(r2) = ReceptionState(r)
           /\ Head(r.up).frame \in AllFrames
<1> DEFINE Up == [frame : AllFrames, bitError : BOOLEAN]
<1>1. r \in RadioState /\ r.up \in Seq(Up)
  BY DEF RadioOK, RadioState
<1>2. Tail(r.up) \in Seq(Up) /\ Head(r.up) \in Up
  BY <1>1, HeadTailProperties
<1>3. PICK u \in Seq(Up) : u = Tail(r.up)
  BY <1>2
<1>4. Head(r.up).frame \in AllFrames
  BY <1>2
<1> HIDE DEF Up
<1>5. r2 = [r EXCEPT !.up = u]
  BY <1>1, <1>3 DEF RadioState
<1>6. /\ r2 \in RadioState /\ r2.mode = r.mode /\ r2.down = r.down
      /\ r2.transmissionTimer = r.transmissionTimer /\ r2.heard = r.heard
  BY <1>1, <1>3, <1>5 DEF RadioState, Up
<1>7. RadioOK(r2)
  BY <1>6 DEF RadioOK
<1>8. ReceptionState(r2) = ReceptionState(r)
  BY <1>6 DEF ReceptionState, Receiving
<1> QED BY <1>4, <1>6, <1>7, <1>8

LEMMA ReceiveFrameKeeps ==
    ASSUME NicInv, NEW n \in Nodes, ReceiveFrame(n)
    PROVE  NicInv'
<1>1. PICK f, bitError : /\ f = Head(radio[n].up).frame
                         /\ bitError = Head(radio[n].up).bitError
  OBVIOUS
<1>2. PICK m2 \in LowerFrame(n, mac[n], f, bitError, Rx(n)) :
         mac' = [mac EXCEPT ![n] = m2]
  BY <1>1 DEF ReceiveFrame
<1>3. /\ MacOK(mac[n]) /\ RadioOK(radio[n]) /\ Rx(n) \in RxStates
      /\ Fits(mac[n], Rx(n), TRUE)
      /\ radio[n].mode = "TRANSMITTER" <=> Rx(n) = "UNDEFINED"
      /\ radio[n].mode = "TRANSMITTER" => mac[n].fsm \in {"TRANSMIT", "IDLE", "DEFER"}
      /\ mac[n].fsm = "TRANSMIT" => radio[n].mode = "TRANSMITTER"
      /\ radio[n].up # <<>>
  BY HostBefore DEF ReceiveFrame
<1>4. PICK r2 : r2 = [radio[n] EXCEPT !.up = Tail(@)]
  OBVIOUS
<1>5. /\ RadioOK(r2) /\ r2.mode = radio[n].mode /\ ReceptionState(r2) = Rx(n)
      /\ f \in AllFrames
  BY <1>1, <1>3, <1>4, UpTaken DEF Rx
<1>6. /\ MacOK(m2) /\ Fits(m2, Rx(n), FALSE)
      /\ m2.fsm = "TRANSMIT" <=> mac[n].fsm = "TRANSMIT"
      /\ Rx(n) = "UNDEFINED" /\ mac[n].fsm \in {"TRANSMIT", "IDLE", "DEFER"} =>
            m2.fsm \in {"TRANSMIT", "IDLE", "DEFER"}
      /\ Acknowledged(n, mac[n], f) => Current(mac[n]) \in Frames
      /\ PassesUp(n, mac[n], f, bitError) => f \in Frames
  BY <1>2, <1>3, <1>5, LowerFrameOK
<1>7. Fits(m2, Rx(n), r2.up # <<>>)
  BY <1>6 DEF Fits
<1>8. HostInv(m2, r2)
  BY <1>3, <1>5, <1>6, <1>7 DEF HostInv
<1>9. radio' = [radio EXCEPT ![n] = r2]
  BY <1>4 DEF ReceiveFrame, NicInv
<1>10. HistoryOK'
  <2>1. fate' \in [Frames -> Fates]
    <3>1. CASE Acknowledged(n, mac[n], f)
      BY <1>1, <1>6, <3>1, FateTyped DEF ReceiveFrame, Settle, Fates
    <3>2. CASE ~Acknowledged(n, mac[n], f)
      BY <1>1, <3>2 DEF ReceiveFrame, NicInv, HistoryOK
    <3> QED BY <3>1, <3>2
  <2>2. delivered' \in [Frames -> SUBSET Nodes]
    <3>1. CASE PassesUp(n, mac[n], f, bitError)
      <4>1. f \in Frames /\ delivered' = [delivered EXCEPT ![f] = @ \cup {n}]
        BY <1>1, <1>6, <3>1 DEF ReceiveFrame
      <4> QED BY <4>1 DEF NicInv, HistoryOK
    <3>2. CASE ~PassesUp(n, mac[n], f, bitError)
      BY <1>1, <3>2 DEF ReceiveFrame, NicInv, HistoryOK
    <3> QED BY <3>1, <3>2
  <2> QED BY <2>1, <2>2 DEF NicInv, HistoryOK, ReceiveFrame
<1> QED BY <1>2, <1>8, <1>9, <1>10, HostInvStep
-----------------------------------------------------------------------------
(* Each event of the radio.                                                 *)

(* A signal that is on its way changes nothing yet.                          *)
LEMMA ArrivingOK ==
    ASSUME NEW m, NEW r, HostInv(m, r), NEW a \in Arrival,
           NEW r2, r2 = [r EXCEPT !.arriving = @ \cup {a}]
    PROVE  HostInv(m, r2)
<1>1. r \in RadioState /\ r.arriving \cup {a} \in SUBSET Arrival
  BY DEF HostInv, RadioOK, RadioState
<1>2. PICK s \in SUBSET Arrival : s = r.arriving \cup {a}
  BY <1>1
<1>3. r2 = [r EXCEPT !.arriving = s]
  BY <1>1, <1>2 DEF RadioState
<1>4. /\ r2 \in RadioState /\ r2.mode = r.mode /\ r2.down = r.down
      /\ r2.transmissionTimer = r.transmissionTimer /\ r2.heard = r.heard
      /\ r2.up = r.up
  BY <1>1, <1>3 DEF RadioState
<1>5. RadioOK(r2)
  BY <1>4 DEF HostInv, RadioOK
<1>6. ReceptionState(r2) = ReceptionState(r)
  BY <1>4 DEF ReceptionState, Receiving
<1> QED BY <1>4, <1>5, <1>6 DEF HostInv

LEMMA StartTransmissionKeeps ==
    ASSUME NicInv, NEW n \in Nodes, StartTransmission(n)
    PROVE  NicInv'
<1>1. radio[n].down # NoFrame
  BY DEF StartTransmission
<1>2. PICK r2 : r2 = Transmission(radio[n])
  OBVIOUS
<1>3. /\ HostInv(mac[n], radio[n]) /\ RadioOK(radio[n])
      /\ Fits(mac[n], Rx(n), radio[n].up # <<>>)
      /\ radio[n].mode = "TRANSMITTER" <=> Rx(n) = "UNDEFINED"
      /\ radio[n].mode = "TRANSMITTER" => mac[n].fsm \in {"TRANSMIT", "IDLE", "DEFER"}
  BY HostBefore
<1>4. /\ RadioOK(r2) /\ r2.mode = "TRANSMITTER" /\ radio[n].mode = "TRANSMITTER"
      /\ r2.up = radio[n].up
  BY <1>1, <1>2, <1>3, TransmissionOK
<1>5. ReceptionState(r2) = Rx(n)
  BY <1>3, <1>4 DEF ReceptionState
<1>6. HostInv(mac[n], r2)
  BY <1>3, <1>4, <1>5 DEF HostInv
<1>7. PICK a : a = [src |-> n, frame |-> radio[n].down]
  OBVIOUS
<1>8. a \in Arrival
  BY <1>1, <1>3, <1>7 DEF RadioOK, RadioState, Arrival
<1>9. ASSUME NEW k \in Nodes
      PROVE  mac'[k] \in MacState /\ radio'[k] \in RadioState
             /\ HostInv(mac'[k], radio'[k])
  <2>1. mac'[k] = mac[k] /\ HostInv(mac[k], radio[k])
    BY DEF StartTransmission, NicInv
  <2>2. CASE k = n
    <3>1. radio'[k] = r2
      BY <1>2, <2>2 DEF StartTransmission
    <3> QED BY <1>6, <2>1, <2>2, <3>1 DEF HostInv, MacOK, RadioOK
  <2>3. CASE k # n /\ <<n, k>> \in Hears
    <3>1. radio'[k] = [radio[k] EXCEPT !.arriving = @ \cup {a}]
      BY <1>7, <2>3 DEF StartTransmission
    <3>2. HostInv(mac[k], radio'[k])
      BY <1>8, <2>1, <3>1, ArrivingOK
    <3> QED BY <2>1, <3>2 DEF HostInv, MacOK, RadioOK
  <2>4. CASE k # n /\ <<n, k>> \notin Hears
    <3>1. radio'[k] = radio[k]
      BY <2>4 DEF StartTransmission
    <3> QED BY <2>1, <3>1 DEF HostInv, MacOK, RadioOK
  <2> QED BY <2>2, <2>3, <2>4
<1>10. mac' \in [Nodes -> MacState] /\ radio' \in [Nodes -> RadioState]
  <2>1. mac' \in [Nodes -> MacState]
    BY DEF NicInv, StartTransmission
  <2>2. radio' = [k \in Nodes |-> radio'[k]]
    BY DEF StartTransmission
  <2> QED BY <1>9, <2>1, <2>2
<1>11. HistoryOK'
  BY DEF NicInv, HistoryOK, StartTransmission
<1> QED BY <1>9, <1>10, <1>11 DEF NicInv

(* The MAC handles endData, then the radio is a receiver again.              *)
LEMMA EndTransmissionKeeps ==
    ASSUME NicInv, NEW n \in Nodes, EndTransmission(n)
    PROVE  NicInv'
<1>1. radio[n].transmissionTimer = 0
  BY DEF EndTransmission
<1>2. PICK r2 : r2 = TransmissionOver(radio[n])
  OBVIOUS
<1>3. /\ MacOK(mac[n]) /\ RadioOK(radio[n])
      /\ radio[n].mode = "TRANSMITTER" => mac[n].fsm \in {"TRANSMIT", "IDLE", "DEFER"}
  BY HostBefore
<1>4. /\ RadioOK(r2) /\ radio[n].mode = "TRANSMITTER" /\ r2.mode = "RECEIVER"
  BY <1>1, <1>2, <1>3, TransmissionOverOK
<1>5. PICK rx \in RxStates : rx = ReceptionState(r2)
  BY RxIsKnown
<1>6. PICK m \in DataOver(mac[n], "UNDEFINED") :
         \E m3 \in MediumChange(m, rx) : mac' = [mac EXCEPT ![n] = m3]
  BY <1>2, <1>5 DEF EndTransmission
<1>7. PICK m2 \in MediumChange(m, rx) : mac' = [mac EXCEPT ![n] = m2]
  BY <1>6
<1>8. /\ MacOK(m) /\ m.fsm \in {"IDLE", "DEFER", "WAITACK"}
      /\ NeedsNoAck(mac[n]) => Current(mac[n]) \in Frames
  BY <1>3, <1>4, <1>6, DataOverOK
<1>9. /\ MacOK(m2) /\ Fits(m2, rx, r2.up # <<>>) /\ m2.fsm # "TRANSMIT"
  BY <1>7, <1>8, MediumChangeOK
<1>10. HostInv(m2, r2)
  BY <1>4, <1>5, <1>9 DEF HostInv
<1>11. radio' = [radio EXCEPT ![n] = r2]
  BY <1>2 DEF EndTransmission
<1>12. HistoryOK'
  <2>1. fate' \in [Frames -> Fates]
    <3>1. CASE NeedsNoAck(mac[n])
      BY <1>8, <3>1, FateTyped DEF EndTransmission, Settle, Fates
    <3>2. CASE ~NeedsNoAck(mac[n])
      BY <3>2 DEF EndTransmission, NicInv, HistoryOK
    <3> QED BY <3>1, <3>2
  <2> QED BY <2>1 DEF NicInv, HistoryOK, EndTransmission
<1> QED BY <1>7, <1>10, <1>11, <1>12, HostInvStep

LEMMA NotifyKeeps ==
    ASSUME NicInv, HistoryOK', NEW n \in Nodes, NEW r2, RadioOK(r2),
           r2.mode = radio[n].mode, radio[n].up # <<>> => r2.up # <<>>,
           Rx(n) = "RECEIVING" => ReceptionState(r2) = "RECEIVING" \/ r2.up # <<>>,
           Notify(n, r2)
    PROVE  NicInv'
<1>1. HostInv(mac[n], radio[n]) /\ radio' = [radio EXCEPT ![n] = r2]
  BY DEF NicInv, Notify
<1>2. PICK m2 : /\ IF ReceptionState(r2) # Rx(n)
                   THEN m2 \in MediumChange(mac[n], ReceptionState(r2))
                   ELSE m2 = mac[n]
                /\ mac' = [mac EXCEPT ![n] = m2]
  <2>1. CASE ReceptionState(r2) # Rx(n)
    BY <2>1 DEF Notify
  <2>2. CASE ReceptionState(r2) = Rx(n)
    <3>1. mac' = [mac EXCEPT ![n] = mac[n]]
      BY <2>2 DEF Notify, NicInv
    <3> QED BY <2>2, <3>1
  <2> QED BY <2>1, <2>2
<1>3. HostInv(m2, r2)
  BY <1>1, <1>2, NotifyOK DEF Rx
<1> QED BY <1>1, <1>2, <1>3, HostInvStep
LEMMA StartReceptionKeeps ==
    ASSUME NicInv, NEW n \in Nodes, NEW a \in radio[n].arriving,
           NEW receivable \in BOOLEAN, StartReception(n, a, receivable)
    PROVE  NicInv'
<1>1. PICK r2 : r2 = ReceptionStarted(radio[n], a, receivable)
  OBVIOUS
<1>2. RadioOK(radio[n])
  BY HostBefore
<1>3. /\ RadioOK(r2) /\ r2.mode = radio[n].mode /\ r2.up = radio[n].up
      /\ Rx(n) = "RECEIVING" => ReceptionState(r2) = "RECEIVING"
  BY <1>1, <1>2, ReceptionStartedOK DEF Rx
<1>4. Notify(n, r2)
  BY <1>1 DEF StartReception
<1>5. HistoryOK'
  BY DEF StartReception, NicInv, HistoryOK
<1> QED BY <1>3, <1>4, <1>5, NotifyKeeps

LEMMA EndReceptionKeeps ==
    ASSUME NicInv, NEW n \in Nodes, NEW s \in radio[n].heard, EndReception(n, s)
    PROVE  NicInv'
<1>1. PICK r2 : r2 = ReceptionOver(radio[n], s)
  OBVIOUS
<1>2. RadioOK(radio[n])
  BY HostBefore
<1>3. /\ RadioOK(r2) /\ r2.mode = radio[n].mode
      /\ radio[n].up # <<>> => r2.up # <<>>
      /\ Rx(n) = "RECEIVING" => ReceptionState(r2) = "RECEIVING" \/ r2.up # <<>>
  BY <1>1, <1>2, ReceptionOverOK DEF Rx
<1>4. Notify(n, r2)
  BY <1>1 DEF EndReception
<1>5. HistoryOK'
  BY DEF EndReception, NicInv, HistoryOK
<1> QED BY <1>3, <1>4, <1>5, NotifyKeeps
-----------------------------------------------------------------------------
(* Time passes at all hosts.                                                *)

LEMMA LeftOK ==
    ASSUME NEW t \in Timer, t # 0
    PROVE  /\ Left(t) \in Timer /\ Left(t) <= t
           /\ Left(t) = NotScheduled <=> t = NotScheduled
  BY DEF Timer, NotScheduled, Left

LEMMA MacTickOK ==
    ASSUME NEW m, MacOK(m), 0 \notin MacTimers(m)
    PROVE  MacOK(MacTick(m)) /\ MacTick(m).fsm = m.fsm
<1>1. /\ m \in MacState
      /\ m.endDifs \in Timer /\ m.endBackoff \in Timer
      /\ m.endAckTimeout \in Timer /\ m.endSifs \in Timer
      /\ m.endDifs # 0 /\ m.endBackoff # 0 /\ m.endAckTimeout # 0 /\ m.endSifs # 0
  BY DEF MacOK, MacState, MacTimers
<1>2. PICK d \in Timer : d = Left(m.endDifs) /\ (d = NotScheduled <=> m.endDifs = NotScheduled)
  BY <1>1, LeftOK
<1>3. PICK b \in Timer : /\ b = Left(m.endBackoff) /\ b <= m.endBackoff
                         /\ b = NotScheduled <=> m.endBackoff = NotScheduled
  BY <1>1, LeftOK
<1>4. PICK a \in Timer : /\ a = Left(m.endAckTimeout)
                         /\ a = NotScheduled <=> m.endAckTimeout = NotScheduled
  BY <1>1, LeftOK
<1>5. PICK s \in Timer : s = Left(m.endSifs) /\ (s = NotScheduled <=> m.endSifs = NotScheduled)
  BY <1>1, LeftOK
<1>6. PICK t : t = MacTick(m)
  OBVIOUS
<1>7. t = [m EXCEPT !.endDifs = d, !.endBackoff = b, !.endAckTimeout = a, !.endSifs = s]
  BY <1>1, <1>2, <1>3, <1>4, <1>5, <1>6 DEF MacTick, MacState
<1>8. /\ t \in MacState /\ t.fsm = m.fsm /\ t.endDifs = d /\ t.endBackoff = b
      /\ t.endAckTimeout = a /\ t.endSifs = s /\ t.frameToAck = m.frameToAck
      /\ t.queue = m.queue /\ t.retryCounter = m.retryCounter
      /\ t.backoffPeriod = m.backoffPeriod
  BY <1>1, <1>7 DEF MacState
<1>9. TimersOK(t)
  BY <1>2, <1>3, <1>4, <1>5, <1>8 DEF MacOK, TimersOK
<1>10. CountersOK(t)
  <2>1. m.retryCounter <= RetryLimit
        /\ (m.fsm \in {"TRANSMIT", "WAITACK"} => m.backoffPeriod = Invalid)
    BY DEF MacOK, CountersOK
  <2>2. ASSUME m.fsm = "BACKOFF"
        PROVE  m.backoffPeriod >= 0 /\ b <= m.backoffPeriod * SlotTime
    <3>1. m.backoffPeriod >= 0 /\ m.endBackoff <= m.backoffPeriod * SlotTime
      BY <2>2 DEF MacOK, CountersOK
    <3>2. m.backoffPeriod \in Nat
      BY <1>1, <3>1 DEF MacState, Invalid
    <3>3. PICK x \in Nat : x = m.backoffPeriod * SlotTime
      BY <3>2, MacAssumption
    <3>4. m.endBackoff \in Int /\ b \in Int
      BY <1>1 DEF Timer, NotScheduled
    <3>5. b <= x
      BY <1>3, <3>1, <3>3, <3>4
    <3> QED BY <3>1, <3>3, <3>5
  <2> QED BY <1>8, <2>1, <2>2 DEF CountersOK
<1>11. MacOK(t)
  BY <1>8, <1>9, <1>10 DEF MacOK
<1> QED BY <1>6, <1>8, <1>11

LEMMA RadioTickOK ==
    ASSUME NEW r, RadioOK(r), RadioWaits(r)
    PROVE  /\ RadioOK(RadioTick(r)) /\ RadioTick(r).mode = r.mode
           /\ RadioTick(r).up = r.up
           /\ ReceptionState(RadioTick(r)) = ReceptionState(r)
<1>1. /\ r \in RadioState /\ r.heard \subseteq Signal
      /\ r.transmissionTimer \in Timer /\ r.transmissionTimer # 0
      /\ \A s \in r.heard : s.left # 0
  BY DEF RadioOK, RadioState, RadioWaits
<1>2. PICK t \in Timer : /\ t = IF r.transmissionTimer > 0
                                THEN r.transmissionTimer - 1
                                ELSE r.transmissionTimer
                         /\ t = NotScheduled <=> r.transmissionTimer = NotScheduled
  BY <1>1, LeftOK DEF Left
<1>3. PICK h : h = {[s EXCEPT !.left = @ - 1] : s \in r.heard}
  OBVIOUS
<1>4. ASSUME NEW s \in r.heard
      PROVE  /\ [s EXCEPT !.left = @ - 1] \in Signal
             /\ [s EXCEPT !.left = @ - 1].attempted = s.attempted
  <2>1. s \in Signal /\ s.left - 1 \in Nat
    BY <1>1 DEF Signal
  <2>2. PICK l \in Nat : l = s.left - 1
    BY <2>1
  <2>3. [s EXCEPT !.left = @ - 1] = [s EXCEPT !.left = l]
    BY <2>1, <2>2 DEF Signal
  <2> QED BY <2>1, <2>3 DEF Signal
<1>5. h \subseteq Signal
  BY <1>3, <1>4
<1>6. PICK d : d = RadioTick(r)
  OBVIOUS
<1>7. d = [r EXCEPT !.heard = h, !.transmissionTimer = t]
  BY <1>1, <1>2, <1>3, <1>6 DEF RadioTick, RadioState
<1>8. /\ d \in RadioState /\ d.mode = r.mode /\ d.up = r.up /\ d.down = r.down
      /\ d.transmissionTimer = t /\ d.heard = h
  BY <1>1, <1>5, <1>7 DEF RadioState
<1>9. RadioOK(d)
  BY <1>2, <1>8 DEF RadioOK
<1>10. d.heard = {} <=> r.heard = {}
  BY <1>3, <1>8
<1>11. Receiving(d) = {} <=> Receiving(r) = {}
  <2>1. ASSUME NEW x \in h, x.attempted PROVE \E s \in r.heard : s.attempted
    <3>1. PICK s \in r.heard : x = [s EXCEPT !.left = @ - 1]
      BY <1>3
    <3> QED BY <1>4, <2>1, <3>1
  <2>2. ASSUME NEW s \in r.heard, s.attempted PROVE \E x \in h : x.attempted
    <3>1. [s EXCEPT !.left = @ - 1] \in h
      BY <1>3
    <3> QED BY <1>4, <2>2, <3>1
  <2> QED BY <1>8, <2>1, <2>2 DEF Receiving
<1>12. ReceptionState(d) = ReceptionState(r)
  BY <1>8, <1>10, <1>11 DEF ReceptionState
<1> QED BY <1>6, <1>8, <1>9, <1>12

LEMMA NicTickKeeps == NicInv /\ NicTick => NicInv'
<1> SUFFICES ASSUME NicInv, NicTick PROVE NicInv'
  OBVIOUS
<1>1. ASSUME NEW n \in Nodes
      PROVE  /\ MacTick(mac[n]) \in MacState /\ RadioTick(radio[n]) \in RadioState
             /\ HostInv(MacTick(mac[n]), RadioTick(radio[n]))
  <2>1. HostInv(mac[n], radio[n])
    BY DEF NicInv
  <2>2. 0 \notin MacTimers(mac[n]) /\ RadioWaits(radio[n])
    BY DEF NicTick
  <2>3. MacOK(MacTick(mac[n])) /\ MacTick(mac[n]).fsm = mac[n].fsm
    BY <2>1, <2>2, MacTickOK DEF HostInv
  <2>4. /\ RadioOK(RadioTick(radio[n])) /\ RadioTick(radio[n]).mode = radio[n].mode
        /\ RadioTick(radio[n]).up = radio[n].up
        /\ ReceptionState(RadioTick(radio[n])) = ReceptionState(radio[n])
    BY <2>1, <2>2, RadioTickOK DEF HostInv
  <2>5. HostInv(MacTick(mac[n]), RadioTick(radio[n]))
    BY <2>1, <2>3, <2>4 DEF HostInv, Fits
  <2> QED BY <2>3, <2>4, <2>5 DEF MacOK, RadioOK
<1>2. /\ mac' = [n \in Nodes |-> MacTick(mac[n])]
      /\ radio' = [n \in Nodes |-> RadioTick(radio[n])]
  BY DEF NicTick
<1>3. HistoryOK'
  BY DEF NicTick, NicInv, HistoryOK
<1> QED BY <1>1, <1>2, <1>3 DEF NicInv
-----------------------------------------------------------------------------
(* All steps.                                                               *)

LEMMA NicEventKeeps ==
    ASSUME NicInv, NEW n \in Nodes, NicEvent(n)
    PROVE  NicInv'
<1>1. ASSUME NEW f \in Frames, QueueFrame(n, f) \/ RefuseFrame(n, f) PROVE NicInv'
  BY <1>1, QueueFrameKeeps, RefuseFrameKeeps
<1>2. CASE EndDifs(n)
  BY <1>2, EndDifsKeeps
<1>3. CASE EndBackoff(n)
  BY <1>3, EndBackoffKeeps
<1>4. CASE EndAckTimeout(n)
  BY <1>4, EndAckTimeoutKeeps
<1>5. CASE EndSifs(n)
  BY <1>5, EndSifsKeeps
<1>6. CASE ReceiveFrame(n)
  BY <1>6, ReceiveFrameKeeps
<1>7. CASE StartTransmission(n)
  BY <1>7, StartTransmissionKeeps
<1>8. CASE EndTransmission(n)
  BY <1>8, EndTransmissionKeeps
<1>9. ASSUME NEW a \in radio[n].arriving, NEW receivable \in BOOLEAN,
             StartReception(n, a, receivable)
      PROVE  NicInv'
  BY <1>9, StartReceptionKeeps
<1>10. ASSUME NEW s \in radio[n].heard, EndReception(n, s) PROVE NicInv'
  BY <1>10, EndReceptionKeeps
<1> QED BY <1>1, <1>2, <1>3, <1>4, <1>5, <1>6, <1>7, <1>8, <1>9, <1>10
        DEF NicEvent

LEMMA NicStepKeeps == NicInv /\ [NicNext]_nicVars => NicInv'
<1> SUFFICES ASSUME NicInv, [NicNext]_nicVars PROVE NicInv'
  OBVIOUS
<1>1. CASE NicTick
  BY <1>1, NicTickKeeps
<1>2. ASSUME NEW n \in Nodes, NicEvent(n) PROVE NicInv'
  BY <1>2, NicEventKeeps
<1>3. CASE NicEnd \/ UNCHANGED nicVars
  BY <1>3 DEF NicEnd, nicVars, NicInv, HistoryOK
<1> QED BY <1>1, <1>2, <1>3 DEF NicNext

LEMMA NicInvAlways == NicSpec => []NicInv
<1> QED BY NicInitOK, NicStepKeeps, PTL DEF NicSpec
-----------------------------------------------------------------------------
(* The results.                                                             *)

(* No event of any MAC or radio leaves its state out of its type, whatever  *)
(* slots are drawn, whatever signals overlap: handleWithFsm() and the       *)
(* handlers of Radio.                                                       *)
THEOREM NicTypeCorrect == NicSpec => []NicTypeOK
<1>1. NicInv => NicTypeOK
  BY DEF NicInv, HistoryOK, NicTypeOK
<1> QED BY <1>1, NicInvAlways, PTL

(* The transitions of the state machine schedule and cancel their self      *)
(* messages so that each runs in its own state, for all parameters.         *)
THEOREM NicTimersMatchState == NicSpec => []TimersMatchState
<1>1. NicInv => TimersMatchState
  BY DEF NicInv, HostInv, MacOK, TimersOK, TimersMatchState
<1> QED BY <1>1, NicInvAlways, PTL

(* The MAC knows the medium although it looks at most events only in some   *)
(* of its states: handleWithFsm() looks again when it is back in IDLE.      *)
THEOREM NicSensesTheMedium == NicSpec => []SensesTheMedium
<1>1. NicInv => SensesTheMedium
  BY DEF NicInv, HostInv, Fits, Rx, SensesTheMedium
<1> QED BY <1>1, NicInvAlways, PTL

(* sendDataFrame() and sendAckFrame() find a radio that is free, and        *)
(* receiveSignal() makes it a receiver after each transmission.             *)
THEOREM NicRadioObeysMac == NicSpec => []RadioObeysMac
<1>1. NicInv => RadioObeysMac
  BY DEF NicInv, HostInv, RadioOK, RadioObeysMac
<1> QED BY <1>1, NicInvAlways, PTL

(* The ASSERTs about backoffPeriod and retryCounter hold for all contention *)
(* windows, slot times and retry limits.                                    *)
THEOREM NicCountersInBounds == NicSpec => []CountersInBounds
<1>1. NicInv => CountersInBounds
  BY DEF NicInv, HostInv, MacOK, CountersOK, CountersInBounds
<1> QED BY <1>1, NicInvAlways, PTL
-----------------------------------------------------------------------------
(* The retries of a frame are its own: where frames wait in the order in    *)
(* which they came, the retry counter tells how often the head of the queue *)
(* was sent before.                                                         *)

Keeps(m, m2) == m2.queue = m.queue /\ m2.retryCounter = m.retryCounter

Underway == {"TRANSMIT", "WAITACK"}

IdleIsEmpty(m) == m.fsm = "IDLE" => m.queue = <<>>

TriesOK(m, tries) ==
    /\ IdleIsEmpty(m)
    /\ m.queue = <<>> => m.retryCounter = 0
    /\ m.queue # <<>> => tries[Current(m)] >= m.retryCounter
    /\ m.fsm \in Underway => tries[Current(m)] >= m.retryCounter + 1

SendsCurrent(m, r) ==
    m.fsm = "TRANSMIT" =>
        Current(m) = IF r.down # NoFrame THEN r.down ELSE r.sending

TriesInv ==
    \A n \in Nodes : /\ TriesOK(mac[n], transmissions)
                     /\ SendsCurrent(mac[n], radio[n])

LEMMA InsertKeepsHead ==
    ASSUME ~PrioritizeByUP, NEW q \in Seq(Frames), NEW f \in Frames, q # <<>>
    PROVE  Head(Insert(q, f)) = Head(q)
<1>1. Len(q) \in Nat /\ \A i \in 1..Len(q) : q[i] \in Frames
  BY LenProperties, ElementOfSeq
<1>2. SubSeq(q, 1, Len(q)) = q
  BY <1>1, SubSeqRestrict
<1>3. SubSeq(q, Len(q) + 1, Len(q)) = <<>>
  BY <1>1, SubSeqEmpty
<1>4. Insert(q, f) = (q \o <<f>>) \o <<>>
  BY <1>2, <1>3 DEF Insert, Ahead
<1>5. q \o <<f>> \in Seq(Frames) /\ Append(q, f) = q \o <<f>>
  <2>1. <<f>> \in Seq(Frames)
    OBVIOUS
  <2> QED BY <2>1, ConcatProperties, AppendIsConcat
<1>6. Insert(q, f) = Append(q, f)
  BY <1>4, <1>5, ConcatEmptySeq
<1> QED BY <1>6, HeadTailAppend

LEMMA BackoffKeeps ==
    ASSUME NEW m \in MacState, NEW m2 \in EnterBackoff(m)
    PROVE  Keeps(m, m2) /\ m2.fsm = "BACKOFF"
<1>1. PICK b : /\ b = m \/ \E s : b = [m EXCEPT !.backoffPeriod = s]
               /\ m2 = [b EXCEPT !.fsm = "BACKOFF",
                                 !.endBackoff = b.backoffPeriod * SlotTime]
  BY DEF EnterBackoff, GenerateBackoff
<1>2. PICK p : b = [m EXCEPT !.backoffPeriod = p]
  BY <1>1 DEF MacState
<1>3. PICK e : m2 = [b EXCEPT !.fsm = "BACKOFF", !.endBackoff = e]
  BY <1>1
<1> QED BY <1>2, <1>3 DEF Keeps, MacState

LEMMA ContendKeeps ==
    ASSUME NEW m \in MacState, NEW rx, NEW m2 \in Contend(m, rx)
    PROVE  Keeps(m, m2) /\ m2.fsm \in Contending
<1>1. CASE rx # "IDLE"
  BY <1>1 DEF Contend, Enter, Keeps, Contending, MacState
<1>2. CASE rx = "IDLE" /\ UseAck
  BY <1>2 DEF Contend, EnterWaitDifs, Keeps, Contending, MacState
<1>3. CASE rx = "IDLE" /\ ~UseAck
  <2>1. m2 \in EnterBackoff(m)
    BY <1>3 DEF Contend
  <2> QED BY <2>1, BackoffKeeps DEF Contending
<1> QED BY <1>1, <1>2, <1>3

LEMMA AfterEventKeeps ==
    ASSUME NEW m \in MacState, NEW rx, NEW m2 \in AfterEvent(m, rx)
    PROVE  /\ Keeps(m, m2) /\ IdleIsEmpty(m2)
           /\ m2.fsm \in {m.fsm, "RECEIVE"} \cup Contending
<1>1. CASE m.fsm # "IDLE"
  <2>1. m2 = m
    BY <1>1 DEF AfterEvent
  <2> QED BY <1>1, <2>1 DEF Keeps, IdleIsEmpty
<1>2. CASE m.fsm = "IDLE" /\ rx = "RECEIVING"
  <2>1. m2 = Enter(m, "RECEIVE")
    BY <1>2 DEF AfterEvent
  <2> QED BY <2>1 DEF Enter, Keeps, IdleIsEmpty, MacState
<1>3. CASE m.fsm = "IDLE" /\ rx # "RECEIVING" /\ m.queue # <<>>
  <2>1. m2 \in Contend(m, rx)
    BY <1>3 DEF AfterEvent
  <2> QED BY <2>1, ContendKeeps DEF IdleIsEmpty, Contending
<1>4. CASE m.fsm = "IDLE" /\ rx # "RECEIVING" /\ m.queue = <<>>
  <2>1. m2 = m
    BY <1>4 DEF AfterEvent
  <2> QED BY <1>4, <2>1 DEF Keeps, IdleIsEmpty
<1> QED BY <1>1, <1>2, <1>3, <1>4

LEMMA ToIdleKeeps ==
    ASSUME NEW m \in MacState, NEW rx, NEW m2 \in ToIdle(m, rx)
    PROVE  Keeps(m, m2) /\ IdleIsEmpty(m2) /\ m2.fsm \notin Underway
<1>1. PICK i : i = Enter(m, "IDLE")
  OBVIOUS
<1>2. i \in MacState /\ i.fsm = "IDLE" /\ Keeps(m, i)
  BY <1>1 DEF Enter, MacState, States, Keeps
<1>3. m2 \in AfterEvent(i, rx)
  BY <1>1 DEF ToIdle
<1> QED BY <1>2, <1>3, AfterEventKeeps DEF Keeps, Contending, Underway

LEMMA PausedKeeps ==
    ASSUME NEW m \in MacState, NEW s
    PROVE  Keeps(m, Enter(Paused(m), s)) /\ Enter(Paused(m), s).fsm = s
<1>1. PICK b : b = IF m.fsm = "BACKOFF" THEN RemainingBackoff(m) ELSE m.backoffPeriod
  OBVIOUS
<1>2. PICK p : p = Paused(m)
  OBVIOUS
<1>3. p = [m EXCEPT !.backoffPeriod = b, !.endDifs = NotScheduled,
                    !.endBackoff = NotScheduled]
  BY <1>1, <1>2 DEF Paused
<1>4. Keeps(m, [p EXCEPT !.fsm = s]) /\ [p EXCEPT !.fsm = s].fsm = s
  BY <1>3 DEF Keeps, MacState
<1> QED BY <1>2, <1>4 DEF Enter

LEMMA MediumChangeKeeps ==
    ASSUME NEW m \in MacState, NEW rx, IdleIsEmpty(m), NEW m2 \in MediumChange(m, rx)
    PROVE  /\ Keeps(m, m2) /\ IdleIsEmpty(m2)
           /\ m2.fsm \in Underway => m2.fsm = m.fsm
<1>1. CASE \/ m2 = Enter(Paused(m), "RECEIVE")
           \/ m2 = Enter(Paused(m), "DEFER")
  BY <1>1, PausedKeeps DEF IdleIsEmpty, Underway
<1>2. CASE m2 \in Contend(m, rx)
  BY <1>2, ContendKeeps DEF IdleIsEmpty, Contending, Underway
<1>3. CASE m2 \in AfterEvent(m, rx)
  BY <1>3, AfterEventKeeps DEF Contending, Underway
<1> QED BY <1>1, <1>2, <1>3 DEF MediumChange

(* The head of the queue remains, or the counter starts anew.                *)
LEMMA TriesKept ==
    ASSUME NEW m \in MacState, NEW m2 \in MacState, NEW tries, TriesOK(m, tries),
           Keeps(m, m2), IdleIsEmpty(m2),
           m2.fsm \in Underway => m.fsm \in Underway
    PROVE  TriesOK(m2, tries)
  BY DEF TriesOK, Keeps, Current

LEMMA TriesAnew ==
    ASSUME NEW m2 \in MacState, NEW tries \in [Frames -> Nat],
           m2.retryCounter = 0, IdleIsEmpty(m2), m2.fsm \notin Underway
    PROVE  TriesOK(m2, tries)
<1>1. m2.queue \in Seq(Frames)
  BY DEF MacState
<1>2. ASSUME m2.queue # <<>> PROVE tries[Current(m2)] >= 0
  <2>1. Current(m2) \in Frames
    BY <1>1, <1>2, HeadTailProperties DEF Current
  <2>2. tries[Current(m2)] \in Nat
    BY <2>1
  <2> QED BY <2>2
<1> QED BY <1>2 DEF TriesOK

LEMMA TriesGrow ==
    ASSUME NEW m \in MacState, NEW tries \in [Frames -> Nat], TriesOK(m, tries),
           NEW more \in [Frames -> Nat], \A f \in Frames : more[f] >= tries[f],
           m.fsm \in Underway => m.queue # <<>>
    PROVE  TriesOK(m, more)
<1>1. ASSUME m.queue # <<>>
      PROVE  /\ Current(m) \in Frames /\ m.retryCounter \in Nat
             /\ tries[Current(m)] \in Nat /\ more[Current(m)] \in Nat
             /\ more[Current(m)] >= tries[Current(m)]
  <2>1. Current(m) \in Frames
    BY <1>1, HeadTailProperties DEF Current, MacState
  <2> QED BY <2>1 DEF MacState
<1> QED BY <1>1 DEF TriesOK
(* Another host's transmissions and signals leave a host's count alone.      *)
LEMMA TriesStep ==
    ASSUME NicInv, NicInv', TriesInv, NEW n \in Nodes, NEW m2, NEW r2,
           mac' = [mac EXCEPT ![n] = m2], radio' = [radio EXCEPT ![n] = r2],
           TriesOK(m2, transmissions'), SendsCurrent(m2, r2),
           \A f \in Frames : transmissions'[f] >= transmissions[f]
    PROVE  TriesInv'
<1>1. /\ transmissions \in [Frames -> Nat] /\ transmissions' \in [Frames -> Nat]
  BY NicAssumption DEF NicInv, HistoryOK
<1>2. ASSUME NEW k \in Nodes
      PROVE  TriesOK(mac'[k], transmissions') /\ SendsCurrent(mac'[k], radio'[k])
  <2>1. CASE k = n
    BY <2>1 DEF NicInv
  <2>2. CASE k # n
    <3>1. mac'[k] = mac[k] /\ radio'[k] = radio[k]
      BY <2>2 DEF NicInv
    <3>2. TriesOK(mac[k], transmissions) /\ SendsCurrent(mac[k], radio[k])
      BY DEF TriesInv
    <3>3. /\ mac[k] \in MacState
          /\ mac[k].fsm \in Underway => mac[k].queue # <<>>
      BY DEF NicInv, HostInv, MacOK, Underway
    <3>4. TriesOK(mac[k], transmissions')
      BY <1>1, <3>2, <3>3, TriesGrow
    <3> QED BY <3>1, <3>2, <3>4
  <2> QED BY <2>1, <2>2
<1> QED BY <1>2 DEF TriesInv

(* The same for an event that only concerns one MAC.                         *)
LEMMA MacStepTries ==
    ASSUME NicInv, NicInv', TriesInv, NEW n \in Nodes, NEW m2, NEW r2,
           mac' = [mac EXCEPT ![n] = m2], radio' = [radio EXCEPT ![n] = r2],
           transmissions' = transmissions,
           TriesOK(m2, transmissions), m2.fsm # "TRANSMIT"
    PROVE  TriesInv'
<1>1. \A f \in Frames : transmissions'[f] >= transmissions[f]
  <2>1. \A f \in Frames : transmissions[f] \in Nat
    BY NicAssumption DEF NicInv, HistoryOK
  <2> QED BY <2>1
<1>2. SendsCurrent(m2, r2)
  BY DEF SendsCurrent
<1> QED BY <1>1, <1>2, TriesStep

LEMMA TriesBefore ==
    ASSUME NicInv, TriesInv, NEW n \in Nodes
    PROVE  /\ mac[n] \in MacState /\ MacOK(mac[n]) /\ radio[n] \in RadioState
           /\ TriesOK(mac[n], transmissions) /\ IdleIsEmpty(mac[n])
           /\ SendsCurrent(mac[n], radio[n])
           /\ transmissions \in [Frames -> Nat]
           /\ mac[n].retryCounter \in Nat
           /\ mac[n].queue \in Seq(Frames)
<1>1. mac[n] \in MacState /\ MacOK(mac[n]) /\ radio[n] \in RadioState
  BY DEF NicInv, HostInv
<1>2. transmissions \in [Frames -> Nat]
  BY NicAssumption DEF NicInv, HistoryOK
<1>3. TriesOK(mac[n], transmissions) /\ SendsCurrent(mac[n], radio[n])
  BY DEF TriesInv
<1> QED BY <1>1, <1>2, <1>3 DEF TriesOK, MacState

LEMMA TypedAfter ==
    ASSUME NicInv, NicInv', NEW n \in Nodes, NEW m2, mac' = [mac EXCEPT ![n] = m2]
    PROVE  m2 \in MacState
  BY DEF NicInv

LEMMA QueueFrameTries ==
    ASSUME ~PrioritizeByUP, NicInv, NicInv', TriesInv,
           NEW n \in Nodes, NEW f \in Frames, QueueFrame(n, f)
    PROVE  TriesInv'
<1> DEFINE m == mac[n]
<1>1. /\ m \in MacState /\ MacOK(m) /\ TriesOK(m, transmissions) /\ IdleIsEmpty(m)
      /\ SendsCurrent(m, radio[n]) /\ transmissions \in [Frames -> Nat]
      /\ m.retryCounter \in Nat /\ m.queue \in Seq(Frames)
  BY TriesBefore
<1>2. PICK m2 \in UpperFrame(m, f, Rx(n)) : mac' = [mac EXCEPT ![n] = m2]
  BY DEF QueueFrame
<1>3. m2 \in MacState
  BY <1>2, TypedAfter
<1> HIDE DEF m
<1>4. PICK q \in Seq(Frames) : q = Insert(m.queue, f) /\ q # <<>>
  BY <1>1, InsertOK
<1>5. PICK w : w = [m EXCEPT !.queue = q]
  OBVIOUS
<1>6. /\ w \in MacState /\ w.queue = q /\ w.fsm = m.fsm
      /\ w.retryCounter = m.retryCounter
  BY <1>1, <1>5 DEF MacState
<1>7. m2 \in IF m.fsm = "IDLE" THEN Contend(w, Rx(n)) ELSE {w}
  BY <1>1, <1>4, <1>5 DEF UpperFrame, MacState
<1>8. m.queue # <<>> => Head(q) = Head(m.queue)
  BY <1>1, <1>4, InsertKeepsHead
<1>9. /\ Keeps(w, m2)
      /\ (m2.fsm = m.fsm /\ m.fsm # "IDLE") \/ m2.fsm \in Contending
  BY <1>6, <1>7, ContendKeeps DEF Keeps
<1>10. IdleIsEmpty(m2) /\ (m2.fsm \in Underway => m2.fsm = m.fsm)
  BY <1>9 DEF IdleIsEmpty, Contending, Underway
<1>11. TriesOK(m2, transmissions)
  <2>1. CASE m.queue = <<>>
    <3>1. m.fsm \notin Underway /\ m.retryCounter = 0
      BY <1>1, <2>1 DEF MacOK, TriesOK, Underway
    <3> QED BY <1>1, <1>3, <1>6, <1>9, <1>10, <3>1, TriesAnew DEF Keeps
  <2>2. CASE m.queue # <<>>
    <3>1. Current(m2) = Current(m)
      BY <1>6, <1>8, <1>9, <2>2 DEF Current, Keeps
    <3>2. m2.queue # <<>> /\ m2.retryCounter = m.retryCounter
      BY <1>4, <1>6, <1>9 DEF Keeps
    <3> QED BY <1>1, <1>10, <2>2, <3>1, <3>2 DEF TriesOK
  <2> QED BY <2>1, <2>2
<1>12. SendsCurrent(m2, radio[n])
  <2>1. SUFFICES ASSUME m2.fsm = "TRANSMIT"
                 PROVE  Current(m2) = IF radio[n].down # NoFrame THEN radio[n].down
                                      ELSE radio[n].sending
    BY DEF SendsCurrent
  <2>2. m.fsm = "TRANSMIT"
    BY <1>10, <2>1 DEF Underway
  <2>3. m.queue # <<>>
    BY <1>1, <2>2 DEF MacOK
  <2>4. Current(m2) = Current(m)
    BY <1>6, <1>8, <1>9, <2>3 DEF Current, Keeps
  <2> QED BY <1>1, <2>2, <2>4 DEF SendsCurrent
<1>13. radio' = [radio EXCEPT ![n] = radio[n]]
  BY SameRadio DEF QueueFrame
<1>14. transmissions' = transmissions
  BY DEF QueueFrame
<1>15. \A g \in Frames : transmissions'[g] >= transmissions[g]
  <2>1. \A g \in Frames : transmissions[g] \in Nat
    BY <1>1
  <2> QED BY <1>14, <2>1
<1> QED BY <1>2, <1>11, <1>12, <1>13, <1>14, <1>15, TriesStep

LEMMA EndDifsTries ==
    ASSUME NicInv, NicInv', TriesInv, NEW n \in Nodes, EndDifs(n)
    PROVE  TriesInv'
<1>1. PICK m2 \in DifsOver(mac[n], Rx(n)) : mac' = [mac EXCEPT ![n] = m2]
  BY DEF EndDifs
<1>2. /\ mac[n] \in MacState /\ MacOK(mac[n]) /\ TriesOK(mac[n], transmissions)
  BY TriesBefore
<1>3. PICK w : w = [mac[n] EXCEPT !.endDifs = NotScheduled]
  OBVIOUS
<1>4. w \in MacState /\ Keeps(mac[n], w)
  BY <1>2, <1>3 DEF MacState, Timer, Keeps
<1>5. m2 \in EnterBackoff(w)
  BY <1>1, <1>2, <1>3, FiresIn DEF EndDifs, DifsOver
<1>6. Keeps(mac[n], m2) /\ m2.fsm = "BACKOFF"
  BY <1>4, <1>5, BackoffKeeps DEF Keeps
<1>7. TriesOK(m2, transmissions)
  BY <1>1, <1>2, <1>6, TypedAfter, TriesKept DEF IdleIsEmpty, Underway
<1>8. radio' = [radio EXCEPT ![n] = radio[n]]
  BY SameRadio DEF EndDifs
<1>9. transmissions' = transmissions
  BY DEF EndDifs
<1> QED BY <1>1, <1>6, <1>7, <1>8, <1>9, MacStepTries
(* The frame is sent once more than it was repeated.                         *)
LEMMA EndBackoffTries ==
    ASSUME MaxTransmissions > RetryLimit, NicInv, NicInv', TriesInv,
           NEW n \in Nodes, EndBackoff(n)
    PROVE  TriesInv'
<1> DEFINE m == mac[n]
<1>1. /\ m \in MacState /\ MacOK(m) /\ TriesOK(m, transmissions)
      /\ transmissions \in [Frames -> Nat] /\ m.retryCounter \in Nat
      /\ m.endBackoff = 0
  BY TriesBefore DEF EndBackoff
<1>2. PICK m2 \in BackoffOver(m, Rx(n)) : mac' = [mac EXCEPT ![n] = m2]
  BY DEF EndBackoff
<1>3. m.fsm = "BACKOFF" /\ Current(m) \in Frames /\ MacOK(m2) /\ m2.fsm = "TRANSMIT"
  BY <1>1, <1>2, BackoffOverOK
<1>4. m2 \in MacState
  BY <1>3 DEF MacOK
<1>5. Transmits(m)
  BY <1>3 DEF Transmits
<1>6. /\ radio' = [radio EXCEPT ![n] = HandDown(@, Current(m))]
      /\ transmissions' = [transmissions EXCEPT ![Current(m)] =
                              IF @ < MaxTransmissions THEN @ + 1 ELSE @]
  BY <1>5 DEF EndBackoff
<1> HIDE DEF m
<1>7. PICK w : w = [m EXCEPT !.endBackoff = NotScheduled]
  OBVIOUS
<1>8. m2 = [w EXCEPT !.fsm = "TRANSMIT", !.backoffPeriod = Invalid]
  BY <1>2, <1>5, <1>7 DEF BackoffOver
<1>9. Keeps(m, m2)
  BY <1>1, <1>7, <1>8 DEF Keeps, MacState
<1>10. PICK f \in Frames : f = Current(m) /\ f = Current(m2)
  BY <1>3, <1>9 DEF Keeps, Current
<1>11. m.queue # <<>> /\ m.retryCounter <= RetryLimit /\ RetryLimit \in Nat
       /\ MaxTransmissions \in Nat
  BY <1>1, <1>3, MacAssumption, NicAssumption DEF MacOK, CountersOK, Contending
<1>12. transmissions[f] \in Nat /\ transmissions[f] >= m.retryCounter
       /\ transmissions[f] <= MaxTransmissions
  BY <1>1, <1>10, <1>11 DEF TriesOK, NicInv, HistoryOK
<1>13. transmissions'[f] = IF transmissions[f] < MaxTransmissions
                           THEN transmissions[f] + 1 ELSE transmissions[f]
  BY <1>1, <1>6, <1>10
<1>14. transmissions'[f] >= m.retryCounter + 1 /\ transmissions'[f] >= m.retryCounter
  BY <1>1, <1>11, <1>12, <1>13
<1>15. TriesOK(m2, transmissions')
  <2>1. m2.retryCounter = m.retryCounter /\ m2.queue = m.queue
    BY <1>9 DEF Keeps
  <2> QED BY <1>3, <1>10, <1>11, <1>14, <2>1 DEF TriesOK, IdleIsEmpty
<1>16. PICK r2 : r2 = HandDown(radio[n], f)
  OBVIOUS
<1>17. r2.down = f
  <2>1. radio[n] \in RadioState
    BY DEF NicInv
  <2>2. PICK s : s = SwitchToTransmitter(radio[n])
    OBVIOUS
  <2>3. PICK h : s = [radio[n] EXCEPT !.mode = "TRANSMITTER", !.heard = h]
    BY <2>2 DEF SwitchToTransmitter
  <2>4. [s EXCEPT !.down = f].down = f
    BY <2>1, <2>3 DEF RadioState
  <2> QED BY <1>16, <2>2, <2>4 DEF HandDown
<1>18. SendsCurrent(m2, r2)
  BY <1>10, <1>17, NoFrameIsNoFrame DEF SendsCurrent
<1>19. radio' = [radio EXCEPT ![n] = r2]
  BY <1>6, <1>10, <1>16 DEF NicInv
<1>20. \A g \in Frames : transmissions'[g] >= transmissions[g]
  <2>1. ASSUME NEW g \in Frames PROVE transmissions'[g] >= transmissions[g]
    <3>1. transmissions[g] \in Nat
      BY <1>1
    <3>2. CASE g = f
      BY <1>12, <1>13, <3>2
    <3>3. CASE g # f
      BY <1>6, <1>10, <3>1, <3>3, <1>1
    <3> QED BY <3>2, <3>3
  <2> QED BY <2>1
<1> QED BY <1>2, <1>15, <1>18, <1>19, <1>20, TriesStep

LEMMA FinishAnew ==
    ASSUME NEW m \in MacState
    PROVE  Finish(m).retryCounter = 0 /\ Reset(m).retryCounter = 0
<1>1. PICK r : r = Reset(m)
  OBVIOUS
<1>2. r.retryCounter = 0 /\ DOMAIN r = DOMAIN m
  BY <1>1 DEF Reset, MacState
<1>3. PICK q : Finish(m) = [r EXCEPT !.queue = q]
  BY <1>1 DEF Finish
<1> QED BY <1>1, <1>2, <1>3 DEF MacState

LEMMA EndAckTimeoutTries ==
    ASSUME NicInv, NicInv', TriesInv, NEW n \in Nodes, EndAckTimeout(n)
    PROVE  TriesInv'
<1> DEFINE m == mac[n]
<1>1. /\ m \in MacState /\ MacOK(m) /\ TriesOK(m, transmissions)
      /\ transmissions \in [Frames -> Nat] /\ m.retryCounter \in Nat
      /\ m.endAckTimeout = 0 /\ m.queue \in Seq(Frames)
  BY TriesBefore DEF EndAckTimeout
<1>2. PICK m2 \in AckOverdue(m, Rx(n)) : mac' = [mac EXCEPT ![n] = m2]
  BY DEF EndAckTimeout
<1>3. m2 \in MacState
  BY <1>2, TypedAfter
<1> HIDE DEF m
<1>4. m.fsm = "WAITACK" /\ m.queue # <<>>
  BY <1>1, FiresIn DEF MacOK
<1>5. PICK w : /\ w = [m EXCEPT !.endAckTimeout = NotScheduled]
               /\ Rested(w) /\ w.queue # <<>>
  BY <1>1, <1>4, FiredOK
<1>6. w \in MacState /\ Keeps(m, w)
  BY <1>1, <1>5 DEF Rested, Keeps, MacState
<1>7. TriesOK(m2, transmissions) /\ m2.fsm # "TRANSMIT"
  <2>1. CASE GivesUp(m)
    <3>1. m2 \in ToIdle(Finish(w), Rx(n))
      BY <1>2, <1>5, <2>1 DEF AckOverdue
    <3>2. Finish(w) \in MacState /\ Finish(w).retryCounter = 0
      BY <1>5, <1>6, FinishOK, FinishAnew DEF Rested
    <3>3. m2.retryCounter = 0 /\ IdleIsEmpty(m2) /\ m2.fsm \notin Underway
      BY <3>1, <3>2, ToIdleKeeps DEF Keeps
    <3> QED BY <1>1, <1>3, <3>3, TriesAnew DEF Underway
  <2>2. CASE ~GivesUp(m)
    <3>1. PICK c : c = [w EXCEPT !.retryCounter = @ + 1]
      OBVIOUS
    <3>2. PICK b \in GenerateBackoff(c) : m2 \in ToIdle(b, Rx(n))
      BY <1>2, <1>4, <1>5, <2>2, <3>1 DEF AckOverdue
    <3>3. PICK s \in Nat : b = [c EXCEPT !.backoffPeriod = s]
      BY <3>2, DrawsAreSlots DEF GenerateBackoff
    <3>4. PICK k \in Nat : k = m.retryCounter + 1
      BY <1>1
    <3>5. c = [w EXCEPT !.retryCounter = k]
      BY <1>6, <3>1, <3>4 DEF Keeps, MacState
    <3>6. c \in MacState /\ c.queue = m.queue /\ c.retryCounter = k
      BY <1>6, <3>5 DEF Keeps, MacState
    <3>7. b \in MacState /\ b.queue = m.queue /\ b.retryCounter = k
      BY <3>3, <3>6 DEF MacState
    <3>8. /\ m2.queue = m.queue /\ m2.retryCounter = k /\ IdleIsEmpty(m2)
          /\ m2.fsm \notin Underway
      BY <3>2, <3>7, ToIdleKeeps DEF Keeps
    <3>9. transmissions[Current(m)] >= k
      BY <1>1, <1>4, <3>4 DEF TriesOK, Underway
    <3>10. TriesOK(m2, transmissions)
      BY <1>4, <3>8, <3>9 DEF TriesOK, Current
    <3> QED BY <3>8, <3>10 DEF Underway
  <2> QED BY <2>1, <2>2
<1>8. radio' = [radio EXCEPT ![n] = radio[n]]
  BY SameRadio DEF EndAckTimeout
<1>9. transmissions' = transmissions
  BY DEF EndAckTimeout
<1> QED BY <1>2, <1>7, <1>8, <1>9, MacStepTries

LEMMA EndSifsTries ==
    ASSUME NicInv, NicInv', TriesInv, NEW n \in Nodes, EndSifs(n)
    PROVE  TriesInv'
<1>1. /\ mac[n] \in MacState /\ MacOK(mac[n]) /\ mac[n].endSifs = 0
      /\ transmissions \in [Frames -> Nat]
  BY TriesBefore DEF EndSifs
<1>2. SendsAck(mac[n])
  BY <1>1, FiresIn DEF SendsAck
<1>3. PICK m2 \in SifsOver(mac[n], "UNDEFINED") : mac' = [mac EXCEPT ![n] = m2]
  BY <1>2 DEF EndSifs
<1>4. PICK g : g = [[mac[n] EXCEPT !.endSifs = NotScheduled] EXCEPT !.frameToAck = NoFrame]
  OBVIOUS
<1>5. Rested(g) /\ g \in MacState
  BY <1>1, <1>2, <1>4, FiredOK DEF SendsAck, Rested
<1>6. m2 \in ToIdle(Reset(g), "UNDEFINED")
  BY <1>2, <1>3, <1>4 DEF SifsOver
<1>7. Reset(g) \in MacState /\ Reset(g).retryCounter = 0
  BY <1>5, ResetOK, FinishAnew DEF Rested
<1>8. m2.retryCounter = 0 /\ IdleIsEmpty(m2) /\ m2.fsm \notin Underway
  BY <1>6, <1>7, ToIdleKeeps DEF Keeps
<1>9. TriesOK(m2, transmissions)
  BY <1>1, <1>3, <1>8, TypedAfter, TriesAnew
<1>10. PICK r2 : radio' = [radio EXCEPT ![n] = r2]
  BY <1>2 DEF EndSifs
<1>11. transmissions' = transmissions
  BY DEF EndSifs
<1> QED BY <1>3, <1>8, <1>9, <1>10, <1>11, MacStepTries DEF Underway
LEMMA LowerFrameTries ==
    ASSUME NEW n, NEW m \in MacState, NEW m2 \in MacState, MacOK(m), NEW f, NEW bitError,
           NEW rx, NEW tries \in [Frames -> Nat], TriesOK(m, tries),
           m2 \in LowerFrame(n, m, f, bitError, rx)
    PROVE  TriesOK(m2, tries) /\ (m2.fsm = "TRANSMIT" => m2 = m)
<1>1. CASE Acknowledged(n, m, f)
  <2>1. m.fsm = "WAITACK" /\ m.queue # <<>>
    BY <1>1 DEF Acknowledged, MacOK
  <2>2. PICK h : h = Finish(m)
    OBVIOUS
  <2>3. PICK g : g = [h EXCEPT !.endAckTimeout = NotScheduled]
    OBVIOUS
  <2>4. m2 \in ToIdle(g, rx)
    BY <1>1, <2>2, <2>3 DEF LowerFrame
  <2>5. h \in MacState
    <3>1. PICK q \in Seq(Frames) : q = Tail(m.queue)
      BY <2>1, HeadTailProperties DEF MacState
    <3>2. PICK r : r = Reset(m)
      OBVIOUS
    <3>3. r \in MacState /\ r.queue = m.queue
      BY <3>2 DEF Reset, MacState
    <3>4. h = [r EXCEPT !.queue = q]
      BY <2>2, <3>1, <3>2, <3>3 DEF Finish, MacState
    <3> QED BY <3>3, <3>4 DEF MacState
  <2>6. g \in MacState /\ g.retryCounter = 0
    BY <2>2, <2>3, <2>5, FinishAnew DEF MacState, Timer
  <2>7. m2.retryCounter = 0 /\ IdleIsEmpty(m2) /\ m2.fsm \notin Underway
    BY <2>4, <2>6, ToIdleKeeps DEF Keeps
  <2> QED BY <2>7, TriesAnew DEF Underway
<1>2. CASE /\ ~Acknowledged(n, m, f) /\ PassesUp(n, m, f, bitError)
           /\ f.dst # Broadcast /\ UseAck
  <2>1. m2 = [m EXCEPT !.fsm = "WAITSIFS", !.endSifs = SifsTime, !.frameToAck = f]
    BY <1>2 DEF LowerFrame
  <2>2. Keeps(m, m2) /\ m2.fsm = "WAITSIFS"
    BY <2>1 DEF Keeps, MacState
  <2> QED BY <2>2, TriesKept DEF IdleIsEmpty, Underway
<1>3. CASE /\ ~Acknowledged(n, m, f)
           /\ ~ (PassesUp(n, m, f, bitError) /\ f.dst # Broadcast /\ UseAck)
           /\ m.fsm = "RECEIVE"
  <2>1. m2 \in ToIdle(Reset(m), rx)
    BY <1>3 DEF LowerFrame
  <2>2. Reset(m) \in MacState /\ Reset(m).retryCounter = 0
    BY <1>3, OKIsRested, ResetOK, FinishAnew DEF Rested
  <2>3. m2.retryCounter = 0 /\ IdleIsEmpty(m2) /\ m2.fsm \notin Underway
    BY <2>1, <2>2, ToIdleKeeps DEF Keeps
  <2> QED BY <2>3, TriesAnew DEF Underway
<1>4. CASE ~Acknowledged(n, m, f) /\ m.fsm # "RECEIVE"
  <2>1. m2 \in AfterEvent(m, rx)
    BY <1>4 DEF LowerFrame, PassesUp
  <2>2. /\ Keeps(m, m2) /\ IdleIsEmpty(m2)
        /\ m2.fsm \in {m.fsm, "RECEIVE"} \cup Contending
    BY <2>1, AfterEventKeeps
  <2>3. m2.fsm \in Underway => m2.fsm = m.fsm
    BY <2>2 DEF Contending, Underway
  <2>4. m2.fsm = "TRANSMIT" => m2 = m
    BY <2>1, <2>3 DEF AfterEvent, Underway
  <2> QED BY <2>2, <2>3, <2>4, TriesKept
<1> QED BY <1>1, <1>2, <1>3, <1>4

LEMMA ReceiveFrameTries ==
    ASSUME NicInv, NicInv', TriesInv, NEW n \in Nodes, ReceiveFrame(n)
    PROVE  TriesInv'
<1>1. PICK f, bitError : /\ f = Head(radio[n].up).frame
                         /\ bitError = Head(radio[n].up).bitError
  OBVIOUS
<1>2. PICK m2 \in LowerFrame(n, mac[n], f, bitError, Rx(n)) :
         mac' = [mac EXCEPT ![n] = m2]
  BY <1>1 DEF ReceiveFrame
<1>3. /\ mac[n] \in MacState /\ MacOK(mac[n]) /\ TriesOK(mac[n], transmissions)
      /\ SendsCurrent(mac[n], radio[n]) /\ radio[n] \in RadioState
      /\ transmissions \in [Frames -> Nat]
  BY TriesBefore
<1>4. m2 \in MacState
  BY <1>2, TypedAfter
<1>5. TriesOK(m2, transmissions) /\ (m2.fsm = "TRANSMIT" => m2 = mac[n])
  BY <1>2, <1>3, <1>4, LowerFrameTries
<1>6. PICK u : u = Tail(radio[n].up)
  OBVIOUS
<1>7. PICK r2 : r2 = [radio[n] EXCEPT !.up = u]
  OBVIOUS
<1>8. r2.down = radio[n].down /\ r2.sending = radio[n].sending
  BY <1>3, <1>7 DEF RadioState
<1>9. SendsCurrent(m2, r2)
  BY <1>3, <1>5, <1>8 DEF SendsCurrent
<1>10. radio' = [radio EXCEPT ![n] = r2]
  BY <1>3, <1>6, <1>7 DEF ReceiveFrame, NicInv, RadioState
<1>11. transmissions' = transmissions
  BY DEF ReceiveFrame
<1>12. \A g \in Frames : transmissions'[g] >= transmissions[g]
  <2>1. \A g \in Frames : transmissions[g] \in Nat
    BY <1>3
  <2> QED BY <1>11, <2>1
<1> QED BY <1>2, <1>5, <1>9, <1>10, <1>11, <1>12, TriesStep

LEMMA StartTransmissionTries ==
    ASSUME NicInv, TriesInv, NEW n \in Nodes, StartTransmission(n)
    PROVE  TriesInv'
<1>1. radio[n].down # NoFrame /\ mac' = mac /\ transmissions' = transmissions
  BY DEF StartTransmission
<1>2. ASSUME NEW k \in Nodes
      PROVE  TriesOK(mac'[k], transmissions') /\ SendsCurrent(mac'[k], radio'[k])
  <2>1. /\ TriesOK(mac[k], transmissions) /\ SendsCurrent(mac[k], radio[k])
        /\ radio[k] \in RadioState
    BY TriesBefore
  <2>2. CASE k = n
    <3>1. radio'[k] = Transmission(radio[k])
      BY <2>2 DEF StartTransmission
    <3>2. radio'[k].down = NoFrame /\ radio'[k].sending = radio[k].down
      BY <2>1, <3>1 DEF Transmission, RadioState
    <3> QED BY <1>1, <2>1, <2>2, <3>2 DEF SendsCurrent
  <2>3. CASE k # n
    <3>1. PICK s : radio'[k] = radio[k] \/ radio'[k] = [radio[k] EXCEPT !.arriving = s]
      <4>1. CASE <<n, k>> \in Hears
        <5>1. PICK s : s = radio[k].arriving \cup {[src |-> n, frame |-> radio[n].down]}
          OBVIOUS
        <5>2. radio'[k] = [radio[k] EXCEPT !.arriving = s]
          BY <2>1, <2>3, <4>1, <5>1 DEF StartTransmission, RadioState
        <5> QED BY <5>2
      <4>2. CASE <<n, k>> \notin Hears
        BY <2>3, <4>2 DEF StartTransmission
      <4> QED BY <4>1, <4>2
    <3>2. radio'[k].down = radio[k].down /\ radio'[k].sending = radio[k].sending
      BY <2>1, <3>1 DEF RadioState
    <3> QED BY <1>1, <2>1, <3>2 DEF SendsCurrent
  <2> QED BY <2>2, <2>3
<1> QED BY <1>2 DEF TriesInv

LEMMA EndTransmissionTries ==
    ASSUME NicInv, NicInv', TriesInv, NEW n \in Nodes, EndTransmission(n)
    PROVE  TriesInv'
<1>1. PICK r2 : r2 = TransmissionOver(radio[n])
  OBVIOUS
<1>2. PICK m \in DataOver(mac[n], "UNDEFINED") :
         \E m3 \in MediumChange(m, ReceptionState(r2)) : mac' = [mac EXCEPT ![n] = m3]
  BY <1>1 DEF EndTransmission
<1>3. PICK m2 \in MediumChange(m, ReceptionState(r2)) : mac' = [mac EXCEPT ![n] = m2]
  BY <1>2
<1>4. /\ mac[n] \in MacState /\ MacOK(mac[n]) /\ TriesOK(mac[n], transmissions)
      /\ IdleIsEmpty(mac[n]) /\ transmissions \in [Frames -> Nat]
  BY TriesBefore
<1>5. m2 \in MacState
  BY <1>3, TypedAfter
<1>6. mac[n].fsm \in {"TRANSMIT", "IDLE", "DEFER"}
  <2>1. radio[n].transmissionTimer = 0 /\ RadioOK(radio[n])
    BY HostBefore DEF EndTransmission
  <2> QED BY <2>1, TransmissionOverOK, HostBefore
<1>7. m \in MacState
  BY <1>2, <1>4, <1>6, DataOverOK DEF MacOK
<1>8. TriesOK(m, transmissions) /\ IdleIsEmpty(m) /\ m.fsm # "TRANSMIT"
  <2>1. CASE NeedsNoAck(mac[n])
    <3>1. m \in ToIdle(Finish(mac[n]), "UNDEFINED")
      BY <1>2, <2>1 DEF DataOver
    <3>2. mac[n].queue # <<>> /\ Rested(mac[n])
      BY <1>4, <2>1, OKIsRested DEF NeedsNoAck, MacOK
    <3>3. Finish(mac[n]) \in MacState /\ Finish(mac[n]).retryCounter = 0
      BY <1>4, <3>2, FinishOK, FinishAnew DEF Rested
    <3>4. m.retryCounter = 0 /\ IdleIsEmpty(m) /\ m.fsm \notin Underway
      BY <3>1, <3>3, ToIdleKeeps DEF Keeps
    <3> QED BY <1>4, <1>7, <3>4, TriesAnew DEF Underway
  <2>2. CASE ~NeedsNoAck(mac[n]) /\ mac[n].fsm = "TRANSMIT"
    <3>1. m = [mac[n] EXCEPT !.fsm = "WAITACK", !.endAckTimeout = AckTimeout]
      BY <1>2, <2>2 DEF DataOver
    <3>2. Keeps(mac[n], m) /\ m.fsm = "WAITACK"
      BY <1>4, <3>1 DEF Keeps, MacState
    <3> QED BY <1>4, <1>7, <2>2, <3>2, TriesKept DEF IdleIsEmpty, Underway
  <2>3. CASE ~NeedsNoAck(mac[n]) /\ mac[n].fsm # "TRANSMIT"
    <3>1. m \in AfterEvent(mac[n], "UNDEFINED")
      BY <1>2, <2>3 DEF DataOver
    <3>2. Keeps(mac[n], m) /\ IdleIsEmpty(m) /\ m.fsm \notin Underway
      BY <1>4, <1>6, <2>3, <3>1, AfterEventKeeps DEF Contending, Underway
    <3> QED BY <1>4, <1>7, <3>2, TriesKept DEF Underway
  <2> QED BY <2>1, <2>2, <2>3
<1>9. /\ Keeps(m, m2) /\ IdleIsEmpty(m2)
      /\ m2.fsm \in Underway => m2.fsm = m.fsm
  BY <1>3, <1>7, <1>8, MediumChangeKeeps
<1>10. TriesOK(m2, transmissions) /\ m2.fsm # "TRANSMIT"
  BY <1>5, <1>7, <1>8, <1>9, TriesKept DEF Underway
<1>11. radio' = [radio EXCEPT ![n] = r2] /\ transmissions' = transmissions
  BY <1>1 DEF EndTransmission
<1> QED BY <1>3, <1>10, <1>11, MacStepTries

(* A change of the reception state does not touch what is being sent.        *)
LEMMA NotifyTries ==
    ASSUME NicInv, NicInv', TriesInv, transmissions' = transmissions,
           NEW n \in Nodes, NEW r2, Notify(n, r2),
           r2.down = radio[n].down, r2.sending = radio[n].sending
    PROVE  TriesInv'
<1>1. /\ mac[n] \in MacState /\ TriesOK(mac[n], transmissions) /\ IdleIsEmpty(mac[n])
      /\ SendsCurrent(mac[n], radio[n]) /\ transmissions \in [Frames -> Nat]
  BY TriesBefore
<1>2. PICK m2 : /\ mac' = [mac EXCEPT ![n] = m2]
                /\ Keeps(mac[n], m2) /\ IdleIsEmpty(m2)
                /\ m2.fsm \in Underway => m2.fsm = mac[n].fsm
  <2>1. CASE ReceptionState(r2) # Rx(n)
    <3>1. PICK m2 \in MediumChange(mac[n], ReceptionState(r2)) :
             mac' = [mac EXCEPT ![n] = m2]
      BY <2>1 DEF Notify
    <3> QED BY <1>1, <3>1, MediumChangeKeeps
  <2>2. CASE ReceptionState(r2) = Rx(n)
    <3>1. mac' = [mac EXCEPT ![n] = mac[n]]
      BY <2>2 DEF Notify, NicInv
    <3>2. Keeps(mac[n], mac[n])
      BY DEF Keeps
    <3> QED BY <1>1, <3>1, <3>2
  <2> QED BY <2>1, <2>2
<1>3. m2 \in MacState
  BY <1>2, TypedAfter
<1>4. TriesOK(m2, transmissions)
  BY <1>1, <1>2, <1>3, TriesKept
<1>5. SendsCurrent(m2, r2)
  BY <1>1, <1>2 DEF SendsCurrent, Keeps, Current, Underway
<1>6. radio' = [radio EXCEPT ![n] = r2]
  BY DEF Notify
<1>7. \A g \in Frames : transmissions'[g] >= transmissions[g]
  <2>1. \A g \in Frames : transmissions[g] \in Nat
    BY <1>1
  <2> QED BY <2>1
<1> QED BY <1>2, <1>4, <1>5, <1>6, <1>7, TriesStep
LEMMA ReceptionTries ==
    ASSUME NicInv, NicInv', TriesInv, NEW n \in Nodes,
           \/ \E a \in radio[n].arriving : \E receivable \in BOOLEAN :
                 StartReception(n, a, receivable)
           \/ \E s \in radio[n].heard : EndReception(n, s)
    PROVE  TriesInv'
<1>1. radio[n] \in RadioState
  BY TriesBefore
<1>2. ASSUME NEW a \in radio[n].arriving, NEW receivable \in BOOLEAN,
             StartReception(n, a, receivable)
      PROVE  TriesInv'
  <2>1. PICK r2 : r2 = ReceptionStarted(radio[n], a, receivable)
    OBVIOUS
  <2>2. PICK v, h : r2 = [radio[n] EXCEPT !.arriving = v, !.heard = h]
    BY <1>1, <2>1 DEF ReceptionStarted, RadioState
  <2>3. r2.down = radio[n].down /\ r2.sending = radio[n].sending
    BY <1>1, <2>2 DEF RadioState
  <2>4. Notify(n, r2) /\ transmissions' = transmissions
    BY <1>2, <2>1 DEF StartReception
  <2> QED BY <2>3, <2>4, NotifyTries
<1>3. ASSUME NEW s \in radio[n].heard, EndReception(n, s)
      PROVE  TriesInv'
  <2>1. PICK r2 : r2 = ReceptionOver(radio[n], s)
    OBVIOUS
  <2>2. PICK h, u : r2 = [radio[n] EXCEPT !.heard = h, !.up = u]
    BY <1>1, <2>1 DEF ReceptionOver, RadioState
  <2>3. r2.down = radio[n].down /\ r2.sending = radio[n].sending
    BY <1>1, <2>2 DEF RadioState
  <2>4. Notify(n, r2) /\ transmissions' = transmissions
    BY <1>3, <2>1 DEF EndReception
  <2> QED BY <2>3, <2>4, NotifyTries
<1> QED BY <1>2, <1>3

LEMMA TickTries ==
    ASSUME NicInv, NicInv', TriesInv, NicTick
    PROVE  TriesInv'
<1>1. ASSUME NEW n \in Nodes
      PROVE  TriesOK(mac'[n], transmissions') /\ SendsCurrent(mac'[n], radio'[n])
  <2>1. /\ mac[n] \in MacState /\ TriesOK(mac[n], transmissions) /\ IdleIsEmpty(mac[n])
        /\ SendsCurrent(mac[n], radio[n]) /\ radio[n] \in RadioState
    BY TriesBefore
  <2>2. /\ mac'[n] = MacTick(mac[n]) /\ radio'[n] = RadioTick(radio[n])
        /\ transmissions' = transmissions /\ mac'[n] \in MacState
    BY DEF NicTick, NicInv
  <2>3. PICK d, b, a, s :
           MacTick(mac[n]) = [mac[n] EXCEPT !.endDifs = d, !.endBackoff = b,
                                            !.endAckTimeout = a, !.endSifs = s]
    BY <2>1 DEF MacTick, MacState
  <2>4. Keeps(mac[n], mac'[n]) /\ mac'[n].fsm = mac[n].fsm
    BY <2>1, <2>2, <2>3 DEF Keeps, MacState
  <2>5. IdleIsEmpty(mac'[n])
    BY <2>1, <2>4 DEF IdleIsEmpty, Keeps
  <2>6. TriesOK(mac'[n], transmissions)
    BY <2>1, <2>2, <2>4, <2>5, TriesKept
  <2>7. PICK h, t : radio'[n] = [radio[n] EXCEPT !.heard = h, !.transmissionTimer = t]
    BY <2>1, <2>2 DEF RadioTick, RadioState
  <2>8. radio'[n].down = radio[n].down /\ radio'[n].sending = radio[n].sending
    BY <2>1, <2>7 DEF RadioState
  <2>9. SendsCurrent(mac'[n], radio'[n])
    BY <2>1, <2>4, <2>8 DEF SendsCurrent, Keeps, Current
  <2> QED BY <2>2, <2>6, <2>9
<1> QED BY <1>1 DEF TriesInv

LEMMA TriesStepKeeps ==
    ASSUME ~PrioritizeByUP, MaxTransmissions > RetryLimit,
           NicInv, NicInv', TriesInv, [NicNext]_nicVars
    PROVE  TriesInv'
<1>1. CASE NicTick
  BY <1>1, TickTries
<1>2. CASE NicEnd \/ UNCHANGED nicVars
  BY <1>2 DEF NicEnd, nicVars, TriesInv
<1>3. ASSUME NEW n \in Nodes, NicEvent(n) PROVE TriesInv'
  <2>1. ASSUME NEW f \in Frames, QueueFrame(n, f) PROVE TriesInv'
    BY <2>1, QueueFrameTries
  <2>2. ASSUME NEW f \in Frames, RefuseFrame(n, f) PROVE TriesInv'
    BY <2>2 DEF RefuseFrame, TriesInv
  <2>3. CASE EndDifs(n)
    BY <2>3, EndDifsTries
  <2>4. CASE EndBackoff(n)
    BY <2>4, EndBackoffTries
  <2>5. CASE EndAckTimeout(n)
    BY <2>5, EndAckTimeoutTries
  <2>6. CASE EndSifs(n)
    BY <2>6, EndSifsTries
  <2>7. CASE ReceiveFrame(n)
    BY <2>7, ReceiveFrameTries
  <2>8. CASE StartTransmission(n)
    BY <2>8, StartTransmissionTries
  <2>9. CASE EndTransmission(n)
    BY <2>9, EndTransmissionTries
  <2>10. CASE \/ \E a \in radio[n].arriving : \E receivable \in BOOLEAN :
                    StartReception(n, a, receivable)
              \/ \E s \in radio[n].heard : EndReception(n, s)
    BY <2>10, ReceptionTries
  <2> QED BY <1>3, <2>1, <2>2, <2>3, <2>4, <2>5, <2>6, <2>7, <2>8, <2>9, <2>10
          DEF NicEvent
<1> QED BY <1>1, <1>2, <1>3 DEF NicNext

LEMMA TriesInit == NicInit => TriesInv
<1> SUFFICES ASSUME NicInit PROVE TriesInv
  OBVIOUS
<1>1. MacInit.queue = <<>> /\ MacInit.retryCounter = 0 /\ MacInit.fsm = "IDLE"
  BY DEF MacInit
<1>2. ASSUME NEW n \in Nodes
      PROVE  TriesOK(mac[n], transmissions) /\ SendsCurrent(mac[n], radio[n])
  <2>1. mac[n] = MacInit
    BY DEF NicInit
  <2> QED BY <1>1, <2>1 DEF TriesOK, SendsCurrent, IdleIsEmpty, Underway
<1> QED BY <1>2 DEF TriesInv

(* Only a time-out of the last retry gives a frame up.                       *)
LEMMA GivingUpTakesAllRetries ==
    ASSUME NicInv, TriesInv, [NicNext]_nicVars, NEW f \in Frames,
           fate[f] # "given up", fate'[f] = "given up"
    PROVE  transmissions[f] >= RetryLimit + 1
<1>0. fate \in [Frames -> Fates]
  BY DEF NicInv, HistoryOK
<1>1. PICK n \in Nodes : NicEvent(n)
  BY DEF NicNext, NicTick, NicEnd, nicVars
<1>2. EndAckTimeout(n) /\ GivesUp(mac[n]) /\ f = Current(mac[n])
  <2>1. ~ \E g \in Frames : QueueFrame(n, g) \/ RefuseFrame(n, g)
    BY <1>0 DEF QueueFrame, RefuseFrame
  <2>2. ~ (EndDifs(n) \/ EndBackoff(n) \/ EndSifs(n) \/ StartTransmission(n))
    BY DEF EndDifs, EndBackoff, EndSifs, StartTransmission
  <2>3. ~ ReceiveFrame(n)
    BY <1>0 DEF ReceiveFrame, Settle
  <2>4. ~ EndTransmission(n)
    BY <1>0 DEF EndTransmission, Settle
  <2>5. ~ \E a \in radio[n].arriving : \E receivable \in BOOLEAN :
             StartReception(n, a, receivable)
    BY DEF StartReception
  <2>6. ~ \E s \in radio[n].heard : EndReception(n, s)
    BY DEF EndReception
  <2>7. EndAckTimeout(n)
    BY <1>1, <2>1, <2>2, <2>3, <2>4, <2>5, <2>6 DEF NicEvent
  <2> QED BY <1>0, <2>7 DEF EndAckTimeout, Settle
<1>3. TriesOK(mac[n], transmissions)
  BY DEF TriesInv
<1> QED BY <1>2, <1>3 DEF TriesOK, GivesUp, Underway

LEMMA TriesInvAlways ==
    ASSUME ~PrioritizeByUP, MaxTransmissions > RetryLimit
    PROVE  NicSpec => [](NicInv /\ TriesInv)
<1>1. NicInit => NicInv /\ TriesInv
  BY NicInitOK, TriesInit
<1>2. NicInv /\ TriesInv /\ [NicNext]_nicVars => (NicInv /\ TriesInv)'
  BY NicStepKeeps, TriesStepKeeps
<1> QED BY <1>1, <1>2, PTL DEF NicSpec

(* Where frames wait in the order in which they came, what the MAC takes    *)
(* for its current transmission is what its radio sends and what was sent,  *)
(* for any number of hosts and all collisions: getCurrentTransmission().    *)
THEOREM NicCurrentFrameIsSent ==
    ASSUME ~PrioritizeByUP, MaxTransmissions > RetryLimit
    PROVE  NicSpec => []CurrentFrameIsSent
<1>1. ASSUME NicInv, TriesInv, NEW n \in Nodes
      PROVE  LET m == mac[n]
                 r == radio[n]
             IN  /\ m.fsm \in Contending \cup {"TRANSMIT", "WAITACK"} =>
                        m.queue # <<>>
                 /\ m.fsm = "IDLE" => m.queue = <<>>
                 /\ m.fsm = "TRANSMIT" => Current(m) \in {r.down, r.sending}
                 /\ m.fsm = "WAITACK" => transmissions[Current(m)] > 0
  <2>1. /\ mac[n] \in MacState /\ MacOK(mac[n]) /\ TriesOK(mac[n], transmissions)
        /\ IdleIsEmpty(mac[n]) /\ SendsCurrent(mac[n], radio[n])
        /\ transmissions \in [Frames -> Nat] /\ mac[n].retryCounter \in Nat
    BY <1>1, TriesBefore
  <2>2. ASSUME mac[n].fsm = "WAITACK" PROVE transmissions[Current(mac[n])] > 0
    <3>1. mac[n].queue # <<>>
      BY <2>1, <2>2 DEF MacOK
    <3>2. Current(mac[n]) \in Frames
      BY <2>1, <3>1, HeadTailProperties DEF Current, MacState
    <3>3. transmissions[Current(mac[n])] \in Nat
      BY <2>1, <3>2
    <3>4. transmissions[Current(mac[n])] >= mac[n].retryCounter + 1
      BY <2>1, <2>2 DEF TriesOK, Underway
    <3> QED BY <2>1, <3>3, <3>4
  <2>3. mac[n].fsm = "TRANSMIT" => Current(mac[n]) \in {radio[n].down, radio[n].sending}
    BY <2>1 DEF SendsCurrent
  <2>4. mac[n].fsm \in Contending \cup {"TRANSMIT", "WAITACK"} => mac[n].queue # <<>>
    BY <2>1 DEF MacOK
  <2> QED BY <2>1, <2>2, <2>3, <2>4 DEF IdleIsEmpty
<1>2. NicInv /\ TriesInv => CurrentFrameIsSent
  BY <1>1 DEF CurrentFrameIsSent
<1> QED BY <1>2, TriesInvAlways, PTL

(* And no frame is given up by handleWithFsm() before it was sent once and  *)
(* repeated retryLimit times: no retry is counted that belongs to the frame *)
(* before it, or to one that came in between.                               *)
THEOREM NicGivesUpAfterAllRetries ==
    ASSUME ~PrioritizeByUP, MaxTransmissions > RetryLimit
    PROVE  NicSpec => GivesUpAfterAllRetries
<1>1. NicInv /\ TriesInv /\ [NicNext]_nicVars =>
         [\A f \in Frames :
             fate[f] # "given up" /\ fate'[f] = "given up" =>
                 transmissions[f] >= RetryLimit + 1]_nicVars
  BY GivingUpTakesAllRetries
<1> QED BY <1>1, TriesInvAlways, PTL DEF NicSpec, GivesUpAfterAllRetries
=============================================================================
