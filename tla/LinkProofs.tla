----------------------------- MODULE LinkProofs -----------------------------
(***************************************************************************)
(* Proof that any number of MACs and radios implement the link that the    *)
(* layers above rely on, if an acknowledgement returns before its time-out.*)
(* The invariant follows a frame from its sender to its receivers and the  *)
(* acknowledgement back, by the clock that starts when the frame is sent.  *)
(***************************************************************************)
EXTENDS NicProofs

(* From the end of a frame to the end of its acknowledgement.              *)
AckTrip == SifsTime + AckTime

AckWanted(f) == UseAck /\ f.dst # Broadcast

(* The frame that a MAC is busy with.                                       *)
Working(m, f) == m.queue # <<>> /\ Current(m) = f

(* A signal of f lasts on for that long, or f was sent at this instant: its *)
(* sender, a MAC with the timer of its radio, has not got further.  If no   *)
(* acknowledgement is wanted it may have.                                   *)
Flies(m, timer, how, f, left) ==
    \/ m.fsm = "TRANSMIT" /\ Working(m, f) /\ timer = left
    \/ /\ left = 0 /\ AckWanted(f) /\ Working(m, f)
       /\ m.fsm = "WAITACK" /\ m.endAckTimeout = AckTimeout
    \/ left = 0 /\ ~AckWanted(f) /\ how = "sent"

(* Time t after the end of its current frame the sender still waits, and    *)
(* the frame was delivered.                                                 *)
Answered(m, timer, got, t) ==
    /\ m.queue # <<>> /\ AckWanted(Current(m))
    /\ Current(m).dst \in got[Current(m)]
    /\ \/ m.fsm = "WAITACK" /\ m.endAckTimeout = AckTimeout - t
       \/ m.fsm = "TRANSMIT" /\ timer = 0 /\ t = 0

(* The frames that a radio may pass up, and when.                           *)
Coming(r) ==
    {[frame |-> a.frame, left |-> Duration(a.frame)] : a \in r.arriving}
        \cup {[frame |-> s.frame, left |-> s.left] : s \in Receiving(r)}
        \cup {[frame |-> r.up[i].frame, left |-> 0] : i \in DOMAIN r.up}

FliesNow(f, left) ==
    Flies(mac[f.src], radio[f.src].transmissionTimer, fate[f], f, left)

AnsweredNow(n, t) == Answered(mac[n], radio[n].transmissionTimer, delivered, t)

ComingOK(n, c) ==
    /\ c.left \in 0..Duration(c.frame)
    /\ c.frame \in Frames => c.frame.src # n /\ FliesNow(c.frame, c.left)
    /\ c.frame = Ack(n) => AnsweredNow(n, AckTrip - c.left)

(* The frames of a queue are the host's, still to be settled, and different.*)
QueueFine(q, how, n) ==
    \A i \in DOMAIN q : /\ q[i].src = n /\ how[q[i]] = "queued"
                        /\ \A j \in DOMAIN q : q[i] = q[j] => i = j

QueueOK(n) == QueueFine(mac[n].queue, fate, n)

AwaitsOK(n) ==
    LET m == mac[n] IN
    /\ m.fsm = "WAITACK" => AckWanted(Current(m))
    /\ m.fsm = "WAITSIFS" =>
          /\ m.endSifs \in 0..SifsTime
          /\ AnsweredNow(m.frameToAck.src, SifsTime - m.endSifs)

DownOK(n) ==
    LET r == radio[n] IN
    /\ r.down \in Frames => mac[n].fsm = "TRANSMIT" /\ Working(mac[n], r.down)
    /\ \A k \in Nodes : r.down = Ack(k) => AnsweredNow(k, SifsTime)

(* A radio follows one signal at a time.                                    *)
TurnOK(r) ==
    /\ Len(r.up) <= 1
    /\ \A s \in Receiving(r) : /\ r.up # <<>> => s.left > 0
                               /\ \A s2 \in Receiving(r) : s2 = s

LinkInv ==
    \A n \in Nodes :
        /\ QueueOK(n) /\ AwaitsOK(n) /\ DownOK(n) /\ TurnOK(radio[n])
        /\ \A c \in Coming(radio[n]) : ComingOK(n, c)
-----------------------------------------------------------------------------
(* What the operators of the MAC do to the queue and to these states.       *)

Engaged == {"TRANSMIT", "WAITACK", "WAITSIFS"}

Stays(m, m2) ==
    /\ m2.queue = m.queue
    /\ m.fsm \in Engaged \/ m2.fsm \in Engaged => m2 = m

LEMMA AfterEventStays ==
    ASSUME NEW m \in MacState, NEW rx, NEW m2 \in AfterEvent(m, rx)
    PROVE  Stays(m, m2)
<1>1. m2.queue = m.queue
  BY AfterEventKeeps DEF Keeps
<1>2. CASE m.fsm = "IDLE"
  <2>1. m2.fsm \in {"IDLE", "RECEIVE"} \cup Contending
    BY <1>2, AfterEventKeeps
  <2> QED BY <1>1, <1>2, <2>1 DEF Stays, Engaged, Contending
<1>3. CASE m.fsm # "IDLE"
  BY <1>1, <1>3 DEF AfterEvent, Stays
<1> QED BY <1>2, <1>3

LEMMA ToIdleFree ==
    ASSUME NEW m \in MacState, NEW rx, NEW m2 \in ToIdle(m, rx)
    PROVE  m2.queue = m.queue /\ m2.fsm \notin Engaged
<1>1. /\ Enter(m, "IDLE") \in MacState /\ Enter(m, "IDLE").fsm = "IDLE"
      /\ Enter(m, "IDLE").queue = m.queue
  BY DEF Enter, MacState, States
<1>2. Stays(Enter(m, "IDLE"), m2)
  BY <1>1, AfterEventStays DEF ToIdle
<1>3. m2.fsm \in Engaged => m2.fsm = "IDLE"
  BY <1>1, <1>2 DEF Stays
<1> QED BY <1>1, <1>2, <1>3 DEF Stays, Engaged

LEMMA MediumChangeStays ==
    ASSUME NEW m \in MacState, NEW rx, NEW m2 \in MediumChange(m, rx)
    PROVE  Stays(m, m2)
<1>1. CASE rx = "RECEIVING" /\ m.fsm \in {"IDLE", "DEFER", "WAITDIFS", "BACKOFF"}
  <2>1. m2 = Enter(Paused(m), "RECEIVE")
    BY <1>1 DEF MediumChange
  <2>2. m2.queue = m.queue /\ m2.fsm = "RECEIVE"
    BY <2>1, PausedKeeps DEF Keeps
  <2> QED BY <1>1, <2>2 DEF Stays, Engaged
<1>2. CASE rx = "IDLE" /\ m.fsm = "DEFER"
  <2>1. m2 \in Contend(m, rx)
    BY <1>2 DEF MediumChange
  <2>2. m2.queue = m.queue /\ m2.fsm \in Contending
    BY <2>1, ContendKeeps DEF Keeps
  <2> QED BY <1>2, <2>2 DEF Stays, Engaged, Contending
<1>3. CASE rx \notin {"RECEIVING", "IDLE"} /\ m.fsm \in {"WAITDIFS", "BACKOFF"}
  <2>1. m2 = Enter(Paused(m), "DEFER")
    BY <1>3 DEF MediumChange
  <2>2. m2.queue = m.queue /\ m2.fsm = "DEFER"
    BY <2>1, PausedKeeps DEF Keeps
  <2> QED BY <1>3, <2>2 DEF Stays, Engaged
<1>4. CASE ~(rx = "RECEIVING" /\ m.fsm \in {"IDLE", "DEFER", "WAITDIFS", "BACKOFF"})
           /\ ~(rx = "IDLE" /\ m.fsm = "DEFER")
           /\ ~(rx \notin {"RECEIVING", "IDLE"} /\ m.fsm \in {"WAITDIFS", "BACKOFF"})
  <2>1. m2 \in AfterEvent(m, rx)
    BY <1>4 DEF MediumChange
  <2> QED BY <2>1, AfterEventStays
<1> QED BY <1>1, <1>2, <1>3, <1>4

(* Without priorities a frame joins the queue at its end.                   *)
LEMMA InsertAppends ==
    ASSUME ~PrioritizeByUP, NEW q \in Seq(Frames), NEW f \in Frames
    PROVE  Insert(q, f) = Append(q, f)
<1>1. Len(q) \in Nat /\ \A i \in 1..Len(q) : q[i] \in Frames
  BY LenProperties, ElementOfSeq
<1>2. SubSeq(q, 1, Len(q)) = q
  BY <1>1, SubSeqRestrict
<1>3. SubSeq(q, Len(q) + 1, Len(q)) = <<>>
  BY <1>1, SubSeqEmpty
<1>4. Insert(q, f) = (q \o <<f>>) \o <<>>
  BY <1>2, <1>3 DEF Insert, Ahead
<1>5. q \o <<f>> \in Seq(Frames) /\ Append(q, f) = q \o <<f>>
  <2>1. <<f>> \in Seq(Frames)
    OBVIOUS
  <2> QED BY <2>1, ConcatProperties, AppendIsConcat
<1> QED BY <1>4, <1>5, ConcatEmptySeq

LEMMA QueueFateKept ==
    ASSUME NEW q \in Seq(Frames), NEW how, NEW how2, NEW n, QueueFine(q, how, n),
           \A f \in Frames : how[f] = "queued" => how2[f] = "queued"
    PROVE  QueueFine(q, how2, n)
<1>1. \A i \in DOMAIN q : q[i] \in Frames
  BY ElementOfSeq, LenProperties
<1> QED BY <1>1 DEF QueueFine

LEMMA QueueAppended ==
    ASSUME NEW q \in Seq(Frames), NEW how, NEW how2, NEW f \in Frames,
           QueueFine(q, how, f.src), how[f] # "queued", how2[f] = "queued",
           \A g \in Frames : how[g] = "queued" => how2[g] = "queued"
    PROVE  QueueFine(Append(q, f), how2, f.src)
<1>1. PICK l \in Nat : l = Len(q)
  BY LenProperties
<1>2. PICK a : a = Append(q, f)
  OBVIOUS
<1>3. /\ DOMAIN a = 1..l + 1 /\ DOMAIN q = 1..l
      /\ a[l + 1] = f /\ \A i \in 1..l : a[i] = q[i]
  BY <1>1, <1>2, AppendProperties, LenProperties
<1>4. \A i \in 1..l : q[i] \in Frames
  BY <1>1, ElementOfSeq
<1>5. \A i \in 1..l + 1 : i \in 1..l \/ i = l + 1
  BY <1>1
<1>6. \A i \in DOMAIN a : a[i].src = f.src /\ how2[a[i]] = "queued"
  BY <1>3, <1>4, <1>5 DEF QueueFine
<1>7. \A i \in 1..l : q[i] # f
  BY <1>3 DEF QueueFine
<1>8. ASSUME NEW i \in DOMAIN a, NEW j \in DOMAIN a, a[i] = a[j]
      PROVE  i = j
  <2>1. CASE i \in 1..l /\ j \in 1..l
    BY <1>3, <1>8, <2>1 DEF QueueFine
  <2>2. CASE ~(i \in 1..l /\ j \in 1..l)
    BY <1>3, <1>5, <1>7, <1>8, <2>2
  <2> QED BY <2>1, <2>2
<1> QED BY <1>2, <1>6, <1>8 DEF QueueFine

LEMMA QueueTaken ==
    ASSUME NEW q \in Seq(Frames), q # <<>>, NEW how, NEW how2, NEW n,
           QueueFine(q, how, n),
           \A g \in Frames : g # Head(q) /\ how[g] = "queued" => how2[g] = "queued"
    PROVE  QueueFine(Tail(q), how2, n)
<1>1. PICK l \in Nat : l = Len(q) /\ l # 0
  BY LenProperties, EmptySeq
<1>2. PICK t : t = Tail(q)
  OBVIOUS
<1>3. /\ DOMAIN t = 1..l - 1 /\ DOMAIN q = 1..l
      /\ Head(q) = q[1] /\ \A i \in 1..l - 1 : t[i] = q[i + 1]
  BY <1>1, <1>2, HeadTailProperties, LenProperties
<1>4. \A i \in 1..l : q[i] \in Frames
  BY <1>1, ElementOfSeq
<1>5. \A i \in 1..l - 1 : i + 1 \in 1..l /\ i + 1 # 1 /\ 1 \in 1..l
  BY <1>1
<1>6. \A i \in DOMAIN t : t[i] \in Frames /\ t[i] # Head(q)
  BY <1>3, <1>4, <1>5 DEF QueueFine
<1>7. \A i \in DOMAIN t : t[i].src = n /\ how2[t[i]] = "queued"
  BY <1>3, <1>5, <1>6 DEF QueueFine
<1>8. ASSUME NEW i \in DOMAIN t, NEW j \in DOMAIN t, t[i] = t[j]
      PROVE  i = j
  <2>1. i + 1 = j + 1
    BY <1>3, <1>5, <1>8 DEF QueueFine
  <2> QED BY <1>1, <1>3, <2>1
<1> QED BY <1>2, <1>7, <1>8 DEF QueueFine

LEMMA UpperFrameJoins ==
    ASSUME ~PrioritizeByUP, NEW m \in MacState, NEW f \in Frames, NEW rx,
           NEW m2 \in UpperFrame(m, f, rx)
    PROVE  /\ m2.queue = Append(m.queue, f)
           /\ m.fsm \in Engaged \/ m2.fsm \in Engaged =>
                 m2 = [m EXCEPT !.queue = Append(m.queue, f)]
<1> DEFINE queued == [m EXCEPT !.queue = Insert(@, f)]
<1>1. Insert(m.queue, f) = Append(m.queue, f) /\ Append(m.queue, f) \in Seq(Frames)
  BY InsertAppends, AppendProperties DEF MacState
<1>2. /\ queued = [m EXCEPT !.queue = Append(m.queue, f)] /\ queued \in MacState
      /\ queued.queue = Append(m.queue, f) /\ queued.fsm = m.fsm
  BY <1>1 DEF MacState
<1>3. m2 \in IF m.fsm = "IDLE" THEN Contend(queued, rx) ELSE {queued}
  BY DEF UpperFrame
<1> HIDE DEF queued
<1>4. CASE m.fsm = "IDLE"
  <2>1. m2.queue = queued.queue /\ m2.fsm \in Contending
    BY <1>2, <1>3, <1>4, ContendKeeps DEF Keeps
  <2> QED BY <1>2, <1>4, <2>1 DEF Engaged, Contending
<1> QED BY <1>2, <1>3, <1>4

LEMMA FinishTakes ==
    ASSUME NEW m \in MacState, m.queue # <<>>
    PROVE  Finish(m) \in MacState /\ Finish(m).queue = Tail(m.queue)
<1>1. PICK q \in Seq(Frames) : q = Tail(m.queue)
  BY HeadTailProperties DEF MacState
<1>2. Reset(m) \in MacState /\ Reset(m).queue = m.queue
  BY DEF Reset, MacState
<1> QED BY <1>1, <1>2 DEF Finish, MacState

LEMMA BackoffOverSends ==
    ASSUME NEW m \in MacState, m.fsm = "BACKOFF", NEW rx, NEW m2 \in BackoffOver(m, rx)
    PROVE  m2.queue = m.queue /\ m2.fsm = "TRANSMIT"
  BY DEF BackoffOver, Transmits, MacState

LEMMA DifsOverStays ==
    ASSUME NEW m \in MacState, m.fsm = "WAITDIFS", NEW rx, NEW m2 \in DifsOver(m, rx)
    PROVE  Stays(m, m2)
<1>1. PICK w : w = [m EXCEPT !.endDifs = NotScheduled]
  OBVIOUS
<1>2. w \in MacState /\ w.queue = m.queue
  BY <1>1 DEF MacState, Timer
<1>3. m2.queue = m.queue /\ m2.fsm = "BACKOFF"
  BY <1>1, <1>2, BackoffKeeps DEF DifsOver, Keeps
<1> QED BY <1>3 DEF Stays, Engaged

(* The end of a transmission, and the change of the medium that follows.    *)
LEMMA DataOverThen ==
    ASSUME NEW m, MacOK(m), m.fsm \in {"TRANSMIT", "IDLE", "DEFER"},
           NEW m2 \in DataOver(m, "UNDEFINED"), NEW rx, NEW m3 \in MediumChange(m2, rx)
    PROVE  /\ m.fsm # "TRANSMIT" => Stays(m, m3)
           /\ NeedsNoAck(m) => m3.queue = Tail(m.queue) /\ m3.fsm \notin Engaged
           /\ m.fsm = "TRANSMIT" /\ ~NeedsNoAck(m) =>
                 /\ m3.queue = m.queue
                 /\ m3.fsm = "WAITACK" /\ m3.endAckTimeout = AckTimeout
<1>1. m \in MacState /\ m2 \in MacState
  BY DataOverOK DEF MacOK
<1>2. Stays(m2, m3)
  BY <1>1, MediumChangeStays
<1>3. CASE m.fsm # "TRANSMIT"
  <2>1. m2 \in AfterEvent(m, "UNDEFINED")
    BY <1>3 DEF DataOver, NeedsNoAck
  <2>2. Stays(m, m2)
    BY <1>1, <2>1, AfterEventStays
  <2> QED BY <1>2, <1>3, <2>2 DEF Stays, NeedsNoAck
<1>4. CASE NeedsNoAck(m)
  <2>1. m.queue # <<>> /\ m.fsm = "TRANSMIT" /\ m2 \in ToIdle(Finish(m), "UNDEFINED")
    BY <1>4 DEF MacOK, NeedsNoAck, DataOver
  <2>2. m2.queue = Tail(m.queue) /\ m2.fsm \notin Engaged
    BY <1>1, <2>1, FinishTakes, ToIdleFree
  <2>3. m3.fsm \in Engaged => m3 = m2
    BY <1>2 DEF Stays
  <2> QED BY <1>2, <1>4, <2>1, <2>2, <2>3 DEF Stays
<1>5. CASE m.fsm = "TRANSMIT" /\ ~NeedsNoAck(m)
  <2>1. m2 = [m EXCEPT !.fsm = "WAITACK", !.endAckTimeout = AckTimeout]
    BY <1>5 DEF DataOver
  <2>2. m2.queue = m.queue /\ m2.fsm = "WAITACK" /\ m2.endAckTimeout = AckTimeout
    BY <1>1, <2>1 DEF MacState
  <2>3. m3 = m2
    BY <1>2, <2>2 DEF Stays, Engaged
  <2> QED BY <1>5, <2>2, <2>3
<1> QED BY <1>3, <1>4, <1>5

LEMMA AckOverdueFrees ==
    ASSUME NEW m, MacOK(m), m.endAckTimeout = 0, NEW rx, NEW m2 \in AckOverdue(m, rx)
    PROVE  /\ m.fsm = "WAITACK" /\ m2.fsm \notin Engaged
           /\ m2.queue = IF GivesUp(m) THEN Tail(m.queue) ELSE m.queue
<1>1. m.fsm = "WAITACK" /\ m \in MacState /\ m.queue # <<>>
  BY FiresIn DEF MacOK
<1>2. PICK fired : fired = [m EXCEPT !.endAckTimeout = NotScheduled]
  OBVIOUS
<1>3. fired \in MacState /\ fired.queue = m.queue
  BY <1>1, <1>2 DEF MacState, Timer
<1>4. CASE GivesUp(m)
  <2>1. m2 \in ToIdle(Finish(fired), rx)
    BY <1>2, <1>4 DEF AckOverdue
  <2> QED BY <1>1, <1>3, <1>4, <2>1, FinishTakes, ToIdleFree
<1>5. CASE ~GivesUp(m)
  <2>1. PICK c : c = [fired EXCEPT !.retryCounter = @ + 1]
    OBVIOUS
  <2>2. PICK b \in GenerateBackoff(c) : m2 \in ToIdle(b, rx)
    BY <1>1, <1>2, <1>5, <2>1 DEF AckOverdue
  <2>3. fired.retryCounter + 1 \in Nat
    BY <1>3 DEF MacState
  <2>4. c \in MacState /\ c.queue = m.queue
    BY <1>3, <2>1, <2>3 DEF MacState
  <2>5. PICK s \in Nat : b = [c EXCEPT !.backoffPeriod = s]
    BY <2>2, DrawsAreSlots DEF GenerateBackoff
  <2>6. b \in MacState /\ b.queue = m.queue
    BY <2>4, <2>5 DEF MacState
  <2> QED BY <1>1, <1>5, <2>2, <2>6, ToIdleFree
<1> QED BY <1>4, <1>5

LEMMA LowerFrameTakes ==
    ASSUME NEW n, NEW m, MacOK(m), NEW f, NEW bitError, NEW rx,
           NEW m2 \in LowerFrame(n, m, f, bitError, rx)
    PROVE  /\ Acknowledged(n, m, f) =>
                 m2.queue = Tail(m.queue) /\ m2.fsm \notin Engaged
           /\ PassesUp(n, m, f, bitError) /\ AckWanted(f) =>
                 /\ m2.queue = m.queue /\ m2.fsm = "WAITSIFS"
                 /\ m2.endSifs = SifsTime /\ m2.frameToAck = f
           /\ ~Acknowledged(n, m, f) /\ ~(PassesUp(n, m, f, bitError) /\ AckWanted(f)) =>
                 Stays(m, m2)
<1>1. m \in MacState
  BY DEF MacOK
<1>2. CASE Acknowledged(n, m, f)
  <2>1. m.fsm = "WAITACK" /\ m.queue # <<>>
    BY <1>2 DEF Acknowledged, MacOK
  <2>2. PICK g : g = [Finish(m) EXCEPT !.endAckTimeout = NotScheduled]
    OBVIOUS
  <2>3. Finish(m) \in MacState /\ Finish(m).queue = Tail(m.queue)
    BY <1>1, <2>1, FinishTakes
  <2>4. g \in MacState /\ g.queue = Tail(m.queue)
    BY <2>2, <2>3 DEF MacState, Timer
  <2>5. m2 \in ToIdle(g, rx)
    BY <1>2, <2>2 DEF LowerFrame
  <2>6. ~PassesUp(n, m, f, bitError)
    BY <2>1 DEF PassesUp
  <2> QED BY <1>2, <2>4, <2>5, <2>6, ToIdleFree
<1>3. CASE ~Acknowledged(n, m, f) /\ PassesUp(n, m, f, bitError) /\ AckWanted(f)
  <2>1. m2 = [m EXCEPT !.fsm = "WAITSIFS", !.endSifs = SifsTime, !.frameToAck = f]
    BY <1>3 DEF LowerFrame, AckWanted
  <2> QED BY <1>1, <1>3, <2>1 DEF MacState
<1>4. CASE ~Acknowledged(n, m, f) /\ ~(PassesUp(n, m, f, bitError) /\ AckWanted(f))
  <2>1. CASE m.fsm = "RECEIVE"
    <3>1. m2 \in ToIdle(Reset(m), rx)
      BY <1>4, <2>1 DEF LowerFrame, AckWanted
    <3>2. Reset(m) \in MacState /\ Reset(m).queue = m.queue
      BY <1>1 DEF Reset, MacState
    <3>3. m2.queue = m.queue /\ m2.fsm \notin Engaged
      BY <3>1, <3>2, ToIdleFree
    <3> QED BY <1>4, <2>1, <3>3 DEF Stays, Engaged
  <2>2. CASE m.fsm # "RECEIVE"
    <3>1. m2 \in AfterEvent(m, rx)
      BY <1>4, <2>2 DEF LowerFrame, AckWanted
    <3> QED BY <1>1, <1>4, <3>1, AfterEventStays
  <2> QED BY <2>1, <2>2
<1> QED BY <1>2, <1>3, <1>4

LEMMA SifsOverFrees ==
    ASSUME NEW m, MacOK(m), m.endSifs = 0, NEW rx, NEW m2 \in SifsOver(m, rx)
    PROVE  /\ m.fsm = "WAITSIFS" /\ SendsAck(m) /\ m2.queue = m.queue
           /\ m2.fsm \notin Engaged
<1>1. m.fsm = "WAITSIFS" /\ m \in MacState
  BY FiresIn DEF MacOK
<1>2. PICK g : g = [[m EXCEPT !.endSifs = NotScheduled] EXCEPT !.frameToAck = NoFrame]
  OBVIOUS
<1>3. g \in MacState /\ g.queue = m.queue
  BY <1>1, <1>2 DEF MacState, Timer
<1>4. Reset(g) \in MacState /\ Reset(g).queue = m.queue
  BY <1>3 DEF Reset, MacState
<1>5. m2 \in ToIdle(Reset(g), rx)
  BY <1>1, <1>2 DEF SifsOver, SendsAck
<1> QED BY <1>1, <1>4, <1>5, ToIdleFree DEF SendsAck
-----------------------------------------------------------------------------
(* What the operators of the radio do to what it may pass up.               *)

LEMMA SwitchAborts ==
    ASSUME NEW r \in RadioState, NEW f \in AllFrames
    PROVE  /\ Coming(HandDown(r, f)) \subseteq Coming(r)
           /\ TurnOK(r) => TurnOK(HandDown(r, f))
<1>1. /\ HandDown(r, f).arriving = r.arriving /\ HandDown(r, f).up = r.up
      /\ HandDown(r, f).heard = {[s EXCEPT !.attempted = FALSE] : s \in r.heard}
  BY DEF HandDown, SwitchToTransmitter, RadioState
<1>2. Receiving(HandDown(r, f)) = {}
  BY <1>1 DEF Receiving, RadioState, Signal
<1> QED BY <1>1, <1>2 DEF Coming, TurnOK

LEMMA TransmissionQuiet ==
    ASSUME NEW r \in RadioState
    PROVE  /\ Coming(Transmission(r)) = Coming(r) /\ (TurnOK(r) => TurnOK(Transmission(r)))
           /\ Coming(TransmissionOver(r)) = Coming(r)
           /\ TurnOK(r) => TurnOK(TransmissionOver(r))
<1>1. /\ Transmission(r).arriving = r.arriving /\ Transmission(r).up = r.up
      /\ Transmission(r).heard = r.heard
      /\ TransmissionOver(r).arriving = r.arriving /\ TransmissionOver(r).up = r.up
      /\ TransmissionOver(r).heard = r.heard
  BY DEF Transmission, TransmissionOver, RadioState
<1> QED BY <1>1 DEF Coming, TurnOK, Receiving

(* A signal that begins comes as long as announced, or is not followed.     *)
LEMMA ReceptionStartedComes ==
    ASSUME NEW r \in RadioState, NEW a \in r.arriving, NEW receivable \in BOOLEAN
    PROVE  /\ Coming(ReceptionStarted(r, a, receivable)) \subseteq Coming(r)
           /\ TurnOK(r) => TurnOK(ReceptionStarted(r, a, receivable))
<1> DEFINE d == ReceptionStarted(r, a, receivable)
           new == [src |-> a.src, frame |-> a.frame, clean |-> r.heard = {},
                   left |-> Duration(a.frame), attempted |-> Attempts(r, receivable)]
<1>1. /\ d.arriving = r.arriving \ {a} /\ d.up = r.up
      /\ d.heard = {[s EXCEPT !.clean = FALSE] : s \in r.heard} \cup {new}
  BY DEF ReceptionStarted, RadioState
<1>2. \A s \in r.heard : LET t == [s EXCEPT !.clean = FALSE] IN
         t.attempted = s.attempted /\ t.frame = s.frame /\ t.left = s.left
  BY DEF RadioState, Signal
<1>3. /\ new.frame = a.frame /\ new.left = Duration(a.frame)
      /\ new.attempted => Receiving(r) = {}
  BY DEF Attempts
<1> HIDE DEF d, new
<1>4. ASSUME NEW s \in Receiving(d)
      PROVE  \/ s = new
             \/ \E t \in Receiving(r) : /\ s.frame = t.frame /\ s.left = t.left
                                        /\ s = [t EXCEPT !.clean = FALSE]
  BY <1>1, <1>2 DEF Receiving
<1>5. new \in Receiving(d) => Receiving(r) = {}
  BY <1>3 DEF Receiving
<1>6. Coming(d) \subseteq Coming(r)
  BY <1>1, <1>3, <1>4 DEF Coming
<1>7. TurnOK(r) => TurnOK(d)
  <2>1. Duration(a.frame) > 0
    BY DurationIsPositive
  <2> QED BY <1>1, <1>3, <1>4, <1>5, <2>1 DEF TurnOK
<1> QED BY <1>6, <1>7 DEF d

(* A signal that ends goes up at the time that was announced.               *)
LEMMA ReceptionOverComes ==
    ASSUME NEW r \in RadioState, NEW s \in r.heard, s.left = 0, TurnOK(r)
    PROVE  Coming(ReceptionOver(r, s)) \subseteq Coming(r) /\ TurnOK(ReceptionOver(r, s))
<1>1. PICK d : d = ReceptionOver(r, s)
  OBVIOUS
<1> DEFINE x == [frame |-> s.frame, bitError |-> ~s.clean]
<1>2. /\ d.arriving = r.arriving /\ d.heard = r.heard \ {s}
      /\ d.up = IF s.attempted THEN Append(r.up, x) ELSE r.up
  BY <1>1 DEF ReceptionOver, RadioState
<1>3. Receiving(d) = Receiving(r) \ {s}
  BY <1>2 DEF Receiving
<1>4. CASE s.attempted
  <2>1. s \in Receiving(r) /\ r.up = <<>>
    BY <1>4 DEF TurnOK, Receiving
  <2>2. Receiving(d) = {}
    BY <1>3, <2>1 DEF TurnOK
  <2>3. d.up = <<x>>
    BY <1>2, <1>4, <2>1
  <2>4. Len(d.up) <= 1 /\ \A i \in DOMAIN d.up : d.up[i].frame = s.frame
    BY <2>3
  <2> QED BY <1>1, <1>2, <2>1, <2>2, <2>4 DEF Coming, TurnOK
<1>5. CASE ~s.attempted
  BY <1>1, <1>2, <1>3, <1>5 DEF Coming, TurnOK
<1> QED BY <1>4, <1>5

(* A frame that is handed up was announced; no other one comes with it.     *)
LEMMA UpTakenComes ==
    ASSUME NEW r \in RadioState, r.up # <<>>, TurnOK(r),
           NEW r2, r2 = [r EXCEPT !.up = Tail(@)]
    PROVE  /\ Coming(r2) \subseteq Coming(r) /\ TurnOK(r2)
           /\ [frame |-> Head(r.up).frame, left |-> 0] \in Coming(r)
           /\ \A c \in Coming(r2) : c.left > 0
<1>1. r.up \in Seq([frame : AllFrames, bitError : BOOLEAN]) /\ Len(r.up) = 1
  <2>1. r.up \in Seq([frame : AllFrames, bitError : BOOLEAN]) /\ Len(r.up) <= 1
    BY DEF TurnOK, RadioState
  <2>2. Len(r.up) \in Nat /\ Len(r.up) # 0
    BY <2>1, EmptySeq, LenProperties
  <2>3. PICK k \in Nat : k = Len(r.up)
    BY <2>2
  <2>4. k <= 1 /\ k # 0
    BY <2>1, <2>2, <2>3
  <2>5. k = 1
    BY <2>4
  <2> QED BY <2>1, <2>3, <2>5
<1>2. Tail(r.up) = <<>>
  <2>1. Tail(r.up) \in Seq([frame : AllFrames, bitError : BOOLEAN]) /\ Len(Tail(r.up)) = 0
    BY <1>1
  <2> QED BY <2>1, EmptySeq
<1>3. r2.up = <<>> /\ r2.heard = r.heard /\ r2.arriving = r.arriving
  BY <1>2 DEF RadioState
<1>4. 1 \in DOMAIN r.up /\ Head(r.up) = r.up[1]
  BY <1>1
<1>5. Receiving(r2) = Receiving(r)
  BY <1>3 DEF Receiving
<1>6. Len(r2.up) = 0 /\ DOMAIN r2.up = {}
  <2>1. \A u : u = <<>> => Len(u) = 0 /\ DOMAIN u = {}
    OBVIOUS
  <2> QED BY <1>3, <2>1
<1>7. \A f : Duration(f) > 0
  BY DurationIsPositive
<1>8. \A c \in Coming(r2) : c.left > 0
  BY <1>3, <1>5, <1>6, <1>7 DEF Coming, TurnOK
<1> QED BY <1>3, <1>4, <1>5, <1>6, <1>8 DEF Coming, TurnOK

(* A signal that sets out for a host.                                       *)
LEMMA ArrivingComes ==
    ASSUME NEW r \in RadioState, TurnOK(r), NEW a,
           NEW r2, r2 = [r EXCEPT !.arriving = @ \cup {a}]
    PROVE  /\ Coming(r2) = Coming(r) \cup {[frame |-> a.frame, left |-> Duration(a.frame)]}
           /\ TurnOK(r2) /\ r2.down = r.down
           /\ r2.transmissionTimer = r.transmissionTimer
<1>1. /\ r2.arriving = r.arriving \cup {a} /\ r2.heard = r.heard /\ r2.up = r.up
      /\ r2.down = r.down /\ r2.transmissionTimer = r.transmissionTimer
  BY DEF RadioState
<1>2. Receiving(r2) = Receiving(r)
  BY <1>1 DEF Receiving
<1> QED BY <1>1, <1>2 DEF Coming, TurnOK

(* A tick brings every signal nearer.                                       *)
LEMMA RadioTickComes ==
    ASSUME NEW r \in RadioState, RadioWaits(r), TurnOK(r)
    PROVE  /\ TurnOK(RadioTick(r)) /\ RadioTick(r).down = r.down
           /\ RadioTick(r).transmissionTimer = Left(r.transmissionTimer)
           /\ \A c \in Coming(RadioTick(r)) :
                 /\ [frame |-> c.frame, left |-> c.left + 1] \in Coming(r)
                 /\ c.left \in Nat
<1>1. PICK d : d = RadioTick(r)
  OBVIOUS
<1>2. /\ d.heard = {[s EXCEPT !.left = @ - 1] : s \in r.heard} /\ d.up = <<>>
      /\ d.arriving = {} /\ d.down = r.down
      /\ d.transmissionTimer = Left(r.transmissionTimer)
  BY <1>1 DEF RadioTick, RadioWaits, RadioState, Left
<1>3. ASSUME NEW t \in Receiving(d)
      PROVE  \E s \in Receiving(r) : /\ t = [s EXCEPT !.left = @ - 1]
                                     /\ t.frame = s.frame /\ t.left + 1 = s.left
                                     /\ t.left \in Nat
  <2>1. PICK s \in r.heard : t = [s EXCEPT !.left = @ - 1]
    BY <1>2 DEF Receiving
  <2>2. s \in Signal /\ s.left \in Nat /\ s.left # 0
    BY DEF RadioState, Signal, RadioWaits
  <2>3. t.frame = s.frame /\ t.left = s.left - 1 /\ t.attempted = s.attempted
    BY <2>1, <2>2 DEF Signal
  <2>4. s \in Receiving(r)
    BY <2>3 DEF Receiving
  <2>5. t.frame = s.frame /\ t.left + 1 = s.left /\ t.left \in Nat
    BY <2>2, <2>3
  <2> QED BY <2>1, <2>4, <2>5
<1>4. DOMAIN d.up = {} /\ Len(d.up) = 0
  BY <1>2
<1>5. TurnOK(d)
  BY <1>2, <1>3, <1>4 DEF TurnOK
<1>6. ASSUME NEW c \in Coming(d)
      PROVE  [frame |-> c.frame, left |-> c.left + 1] \in Coming(r) /\ c.left \in Nat
  <2>1. PICK t \in Receiving(d) : c = [frame |-> t.frame, left |-> t.left]
    BY <1>2, <1>4 DEF Coming
  <2>2. PICK s \in Receiving(r) : t.frame = s.frame /\ t.left + 1 = s.left /\ t.left \in Nat
    BY <1>3
  <2> QED BY <2>1, <2>2 DEF Coming
<1> QED BY <1>1, <1>2, <1>5, <1>6
-----------------------------------------------------------------------------
(* The events, one host after the other.                                    *)

(* An event at n leaves the other hosts alone, but for what n sends them.   *)
Alone(n) ==
    /\ \A k \in Nodes \ {n} :
          /\ mac'[k] = mac[k] /\ radio'[k].down = radio[k].down
          /\ radio'[k].transmissionTimer = radio[k].transmissionTimer
    /\ \A f \in Frames : /\ delivered[f] \subseteq delivered'[f]
                         /\ f.src # n => fate'[f] = fate[f]

(* Nothing that is under way from n, or back to it, is forgotten.           *)
Carried(n) ==
    /\ \A f \in Frames : \A left \in Nat :
          f.src = n /\ FliesNow(f, left) => FliesNow(f, left)'
    /\ \A t \in 0..AckTrip - 1 : AnsweredNow(n, t) => AnsweredNow(n, t)'

LEMMA TripTimes ==
    /\ SifsTime \in Nat /\ AckTime \in Nat \ {0} /\ AckTrip \in Nat
    /\ AckTrip = SifsTime + AckTime
    /\ \A n : Duration(Ack(n)) = AckTime
  BY MacAssumption, RadioAssumption DEF AckTrip, Duration, Ack

LEMMA CarriedByAll ==
    ASSUME NicInv, NEW n \in Nodes, Alone(n), Carried(n)
    PROVE  /\ \A f \in Frames : \A left \in Nat : FliesNow(f, left) => FliesNow(f, left)'
           /\ \A k \in Nodes : \A t \in 0..AckTrip :
                 AnsweredNow(k, t) /\ (k = n => t < AckTrip) => AnsweredNow(k, t)'
<1>1. ASSUME NEW f \in Frames, NEW left \in Nat, FliesNow(f, left)
      PROVE  FliesNow(f, left)'
  <2>1. CASE f.src = n
    BY <1>1, <2>1 DEF Carried
  <2>2. CASE f.src # n
    <3>1. f.src \in Nodes \ {n}
      BY <2>2, MacAssumption
    <3>2. /\ mac'[f.src] = mac[f.src] /\ fate'[f] = fate[f]
          /\ radio'[f.src].transmissionTimer = radio[f.src].transmissionTimer
      BY <2>2, <3>1 DEF Alone
    <3> QED BY <1>1, <3>2 DEF FliesNow
  <2> QED BY <2>1, <2>2
<1>2. ASSUME NEW k \in Nodes, NEW t \in 0..AckTrip, AnsweredNow(k, t), k = n => t < AckTrip
      PROVE  AnsweredNow(k, t)'
  <2>1. CASE k = n
    <3>1. t \in 0..AckTrip - 1
      BY <1>2, <2>1, TripTimes
    <3> QED BY <1>2, <2>1, <3>1 DEF Carried
  <2>2. CASE k # n
    <3>1. /\ mac'[k] = mac[k]
          /\ radio'[k].transmissionTimer = radio[k].transmissionTimer
      BY <2>2 DEF Alone
    <3>2. mac[k].queue # <<>> /\ Current(mac[k]).dst \in delivered[Current(mac[k])]
      BY <1>2 DEF AnsweredNow, Answered
    <3>3. Current(mac[k]) \in Frames
      <4>1. mac[k].queue \in Seq(Frames)
        BY DEF NicInv, MacState
      <4> QED BY <3>2, <4>1, HeadTailProperties DEF Current
    <3>4. Current(mac[k]).dst \in delivered'[Current(mac[k])]
      BY <3>2, <3>3 DEF Alone
    <3> QED BY <1>2, <3>1, <3>4 DEF AnsweredNow, Answered
  <2> QED BY <2>1, <2>2
<1> QED BY <1>1, <1>2

LEMMA LinkStep ==
    ASSUME NicInv, NicInv', LinkInv, NEW n \in Nodes, Alone(n), Carried(n), QueueOK(n)',
           mac'[n].fsm = "WAITACK" => AckWanted(Current(mac'[n])),
           mac'[n].fsm = "WAITSIFS" =>
              \/ /\ mac[n].fsm = "WAITSIFS" /\ mac'[n].endSifs = mac[n].endSifs
                 /\ mac'[n].frameToAck = mac[n].frameToAck
              \/ /\ mac'[n].endSifs = SifsTime
                 /\ \E f \in Frames : mac'[n].frameToAck = f /\ AnsweredNow(f.src, 0)',
           radio'[n].down \in Frames =>
              mac'[n].fsm = "TRANSMIT" /\ Working(mac'[n], radio'[n].down),
           \A k \in Nodes :
              radio'[n].down = Ack(k) => radio[n].down = Ack(k) \/ AnsweredNow(k, SifsTime)',
           \A k \in Nodes : /\ TurnOK(radio'[k])
                            /\ \A c \in Coming(radio'[k]) :
                                  c \in Coming(radio[k]) \/ ComingOK(k, c)',
           \A c \in Coming(radio'[n]) : c.left = 0 /\ c.frame = Ack(n) =>
              (AnsweredNow(n, AckTrip) => AnsweredNow(n, AckTrip)')
    PROVE  LinkInv'
<1>1. /\ \A f \in Frames : \A left \in Nat : FliesNow(f, left) => FliesNow(f, left)'
      /\ \A k \in Nodes : \A t \in 0..AckTrip :
            AnsweredNow(k, t) /\ (k = n => t < AckTrip) => AnsweredNow(k, t)'
  BY CarriedByAll
<1>2. ASSUME NEW k \in Nodes
      PROVE  QueueOK(k) /\ AwaitsOK(k) /\ DownOK(k) /\ \A c \in Coming(radio[k]) : ComingOK(k, c)
  BY DEF LinkInv
<1>3. ASSUME NEW k \in Nodes
      PROVE  QueueOK(k)'
  <2>1. CASE k # n
    <3>1. mac'[k] = mac[k]
      BY <2>1 DEF Alone
    <3>2. \A i \in DOMAIN mac[k].queue : mac[k].queue[i] \in Frames
      <4>1. mac[k].queue \in Seq(Frames)
        BY DEF NicInv, MacState
      <4> QED BY <4>1, ElementOfSeq, LenProperties
    <3>3. \A i \in DOMAIN mac[k].queue : fate'[mac[k].queue[i]] = fate[mac[k].queue[i]]
      BY <1>2, <2>1, <3>2 DEF QueueOK, QueueFine, Alone
    <3> QED BY <1>2, <3>1, <3>3 DEF QueueOK, QueueFine
  <2> QED BY <2>1
<1>4. ASSUME NEW k \in Nodes
      PROVE  AwaitsOK(k)'
  <2>1. mac'[k].fsm = "WAITACK" => AckWanted(Current(mac'[k]))
    BY <1>2 DEF Alone, AwaitsOK
  <2>2. ASSUME mac'[k].fsm = "WAITSIFS"
        PROVE  \E j \in Nodes : \E e \in 0..SifsTime :
                  /\ mac'[k].endSifs = e /\ mac'[k].frameToAck.src = j
                  /\ AnsweredNow(j, SifsTime - e)'
    <3>1. CASE /\ mac[k].fsm = "WAITSIFS" /\ mac'[k].endSifs = mac[k].endSifs
               /\ mac'[k].frameToAck = mac[k].frameToAck
      <4>1. PICK e \in 0..SifsTime : e = mac[k].endSifs
        BY <1>2, <3>1 DEF AwaitsOK
      <4>2. PICK j \in Nodes : j = mac[k].frameToAck.src
        <5>1. HostInv(mac[k], radio[k])
          BY DEF NicInv
        <5>2. mac[k].frameToAck \in Frames
          BY <3>1, <5>1 DEF HostInv, MacOK, TimersOK, MacState
        <5> QED BY <5>2, MacAssumption
      <4>3. AnsweredNow(j, SifsTime - e)
        BY <1>2, <3>1, <4>1, <4>2 DEF AwaitsOK
      <4>4. SifsTime - e \in 0..AckTrip /\ SifsTime - e < AckTrip
        BY <4>1, TripTimes
      <4>5. AnsweredNow(j, SifsTime - e)'
        BY <1>1, <4>3, <4>4
      <4> QED BY <3>1, <4>1, <4>2, <4>5
    <3>2. CASE /\ mac'[k].endSifs = SifsTime
               /\ \E f \in Frames : mac'[k].frameToAck = f /\ AnsweredNow(f.src, 0)'
      <4>1. PICK f \in Frames : mac'[k].frameToAck = f /\ AnsweredNow(f.src, 0)'
        BY <3>2
      <4>2. PICK j \in Nodes : j = f.src
        BY MacAssumption
      <4>3. PICK e \in 0..SifsTime : e = SifsTime /\ SifsTime - e = 0
        BY TripTimes
      <4>4. AnsweredNow(j, 0)'
        BY <4>1, <4>2
      <4> QED BY <3>2, <4>1, <4>2, <4>3, <4>4
    <3> QED BY <2>2, <3>1, <3>2 DEF Alone
  <2>3. ASSUME NEW j \in Nodes, NEW e \in 0..SifsTime,
               mac'[k].endSifs = e, mac'[k].frameToAck.src = j,
               AnsweredNow(j, SifsTime - e)'
        PROVE  /\ mac'[k].endSifs \in 0..SifsTime
               /\ AnsweredNow(mac[k].frameToAck.src, SifsTime - mac[k].endSifs)'
    BY <2>3 DEF AnsweredNow
  <2> QED BY <2>1, <2>2, <2>3 DEF AwaitsOK
<1>5. ASSUME NEW k \in Nodes
      PROVE  DownOK(k)'
  <2>1. radio'[k].down \in Frames =>
           mac'[k].fsm = "TRANSMIT" /\ Working(mac'[k], radio'[k].down)
    BY <1>2 DEF DownOK, Alone
  <2>2. ASSUME NEW j \in Nodes, radio'[k].down = Ack(j)
        PROVE  AnsweredNow(j, SifsTime)'
    <3>1. radio[k].down = Ack(j) \/ AnsweredNow(j, SifsTime)'
      BY <2>2 DEF Alone
    <3>2. SifsTime \in 0..AckTrip /\ SifsTime < AckTrip
      BY TripTimes
    <3> QED BY <1>1, <1>2, <3>1, <3>2 DEF DownOK
  <2> QED BY <2>1, <2>2 DEF DownOK
<1>6. ASSUME NEW k \in Nodes, NEW c \in Coming(radio'[k]), ComingOK(k, c), c \in Coming(radio[k])
      PROVE  ComingOK(k, c)'
  <2>1. c.left \in 0..Duration(c.frame) /\ Duration(c.frame) \in Nat
    BY <1>6, DurationIsPositive DEF ComingOK
  <2>2. ASSUME c.frame \in Frames
        PROVE  c.frame.src # k /\ FliesNow(c.frame, c.left)'
    BY <1>1, <1>6, <2>1, <2>2 DEF ComingOK
  <2>3. ASSUME c.frame = Ack(k)
        PROVE  AnsweredNow(k, AckTrip - c.left)'
    <3>1. PICK t \in 0..AckTrip : t = AckTrip - c.left /\ (c.left # 0 => t < AckTrip)
      BY <2>1, <2>3, TripTimes
    <3>2. AnsweredNow(k, t)
      BY <1>6, <2>3, <3>1 DEF ComingOK
    <3>3. CASE k = n /\ c.left = 0
      <4>1. AckTrip - c.left = AckTrip
        BY <3>3, TripTimes
      <4> QED BY <1>6, <2>3, <3>1, <3>2, <3>3, <4>1
    <3>4. CASE k # n \/ c.left # 0
      BY <1>1, <3>1, <3>2, <3>4
    <3> QED BY <3>3, <3>4
  <2> QED BY <2>1, <2>2, <2>3 DEF ComingOK
<1>7. ASSUME NEW k \in Nodes, NEW c \in Coming(radio'[k])
      PROVE  ComingOK(k, c)'
  BY <1>2, <1>6
<1> QED BY <1>3, <1>4, <1>5, <1>7 DEF LinkInv

(* The frames in a queue.                                                   *)
LEMMA QueuedFrames ==
    ASSUME NicInv, LinkInv, NEW n \in Nodes
    PROVE  /\ mac[n] \in MacState /\ MacOK(mac[n]) /\ mac[n].queue \in Seq(Frames)
           /\ radio[n] \in RadioState /\ RadioOK(radio[n])
           /\ HostInv(mac[n], radio[n])
           /\ QueueOK(n) /\ AwaitsOK(n) /\ DownOK(n) /\ TurnOK(radio[n])
           /\ \A c \in Coming(radio[n]) : ComingOK(n, c)
           /\ mac[n].queue # <<>> =>
                 /\ Current(mac[n]) \in Frames /\ Current(mac[n]).src = n
                 /\ fate[Current(mac[n])] = "queued"
<1>1. /\ mac[n] \in MacState /\ MacOK(mac[n]) /\ radio[n] \in RadioState
      /\ RadioOK(radio[n]) /\ HostInv(mac[n], radio[n])
  BY DEF NicInv, HostInv
<1>2. mac[n].queue \in Seq(Frames)
  BY <1>1 DEF MacState
<1>3. /\ QueueOK(n) /\ AwaitsOK(n) /\ DownOK(n) /\ TurnOK(radio[n])
      /\ \A c \in Coming(radio[n]) : ComingOK(n, c)
  BY DEF LinkInv
<1>4. ASSUME mac[n].queue # <<>>
      PROVE  /\ Current(mac[n]) \in Frames /\ Current(mac[n]).src = n
             /\ fate[Current(mac[n])] = "queued"
  <2>1. 1 \in DOMAIN mac[n].queue /\ Current(mac[n]) = mac[n].queue[1]
    BY <1>2, <1>4, HeadTailProperties, LenProperties, EmptySeq DEF Current
  <2>2. mac[n].queue[1] \in Frames
    BY <1>2, <2>1, ElementOfSeq, LenProperties
  <2> QED BY <1>3, <2>1, <2>2 DEF QueueOK, QueueFine
<1> QED BY <1>1, <1>2, <1>3, <1>4

LEMMA HostAlone ==
    ASSUME NicInv, NEW n \in Nodes, NEW m2, NEW r2,
           mac' = [mac EXCEPT ![n] = m2], radio' = [radio EXCEPT ![n] = r2],
           \A f \in Frames : /\ delivered[f] \subseteq delivered'[f]
                             /\ f.src # n => fate'[f] = fate[f]
    PROVE  /\ Alone(n) /\ mac'[n] = m2 /\ radio'[n] = r2
           /\ \A k \in Nodes \ {n} : radio'[k] = radio[k]
<1>1. /\ mac'[n] = m2 /\ radio'[n] = r2
      /\ \A k \in Nodes \ {n} : mac'[k] = mac[k] /\ radio'[k] = radio[k]
  BY DEF NicInv
<1> QED BY <1>1 DEF Alone

(* An event that changes neither the queue nor a state in which the MAC     *)
(* sends or waits, and nothing that is on its way.                          *)
LEMMA StayingKeepsLink ==
    ASSUME NicInv, NicInv', LinkInv, NEW n \in Nodes, NEW m2, NEW r2,
           mac' = [mac EXCEPT ![n] = m2], radio' = [radio EXCEPT ![n] = r2],
           Stays(mac[n], m2), fate' = fate,
           \A f \in Frames : delivered[f] \subseteq delivered'[f],
           r2.down = radio[n].down,
           \/ mac[n].fsm # "TRANSMIT"
           \/ r2.transmissionTimer = radio[n].transmissionTimer,
           Coming(r2) \subseteq Coming(radio[n]), TurnOK(r2)
    PROVE  LinkInv'
<1>1. /\ mac[n].queue \in Seq(Frames) /\ QueueOK(n) /\ AwaitsOK(n) /\ DownOK(n)
      /\ mac[n].queue # <<>> => Current(mac[n]) \in Frames
  BY QueuedFrames
<1>2. /\ Alone(n) /\ mac'[n] = m2 /\ radio'[n] = r2
      /\ \A k \in Nodes \ {n} : radio'[k] = radio[k]
  BY HostAlone
<1>3. m2.queue = mac[n].queue /\ (mac[n].fsm \in Engaged \/ m2.fsm \in Engaged => m2 = mac[n])
  BY DEF Stays
<1>4. ASSUME NEW t \in Int, AnsweredNow(n, t)
      PROVE  AnsweredNow(n, t)'
  <2>1. mac[n].fsm \in Engaged
    BY <1>4 DEF AnsweredNow, Answered, Engaged
  <2>2. m2 = mac[n]
    BY <1>3, <2>1
  <2>3. Current(mac[n]).dst \in delivered'[Current(mac[n])]
    BY <1>1, <1>4 DEF AnsweredNow, Answered
  <2> QED BY <1>2, <1>4, <2>2, <2>3 DEF AnsweredNow, Answered
<1>5. ASSUME NEW f \in Frames, NEW left \in Nat, f.src = n, FliesNow(f, left)
      PROVE  FliesNow(f, left)'
  <2>1. CASE mac[n].fsm \in Engaged
    <3>1. m2 = mac[n]
      BY <1>3, <2>1
    <3> QED BY <1>2, <1>5, <3>1 DEF FliesNow, Flies
  <2>2. CASE mac[n].fsm \notin Engaged
    BY <1>5, <2>2 DEF FliesNow, Flies, Engaged
  <2> QED BY <2>1, <2>2
<1>6. Carried(n) /\ (AnsweredNow(n, AckTrip) => AnsweredNow(n, AckTrip)')
  BY <1>4, <1>5, TripTimes DEF Carried
<1>7. QueueOK(n)'
  BY <1>1, <1>2, <1>3 DEF QueueOK, QueueFine
<1>8. mac'[n].fsm \in Engaged => mac'[n] = mac[n]
  BY <1>2, <1>3
<1>9. mac'[n].fsm = "WAITACK" => AckWanted(Current(mac'[n]))
  BY <1>1, <1>8 DEF AwaitsOK, Engaged
<1>10. radio'[n].down \in Frames =>
          mac'[n].fsm = "TRANSMIT" /\ Working(mac'[n], radio'[n].down)
  BY <1>1, <1>2, <1>3 DEF DownOK, Engaged
<1>11. \A k \in Nodes : TurnOK(radio'[k]) /\ Coming(radio'[k]) \subseteq Coming(radio[k])
  BY <1>2 DEF LinkInv
<1>12. mac'[n].fsm = "WAITSIFS" =>
          /\ mac[n].fsm = "WAITSIFS" /\ mac'[n].endSifs = mac[n].endSifs
          /\ mac'[n].frameToAck = mac[n].frameToAck
  BY <1>8 DEF Engaged
<1>13. \A k \in Nodes : radio'[n].down = Ack(k) => radio[n].down = Ack(k)
  BY <1>2
<1> QED BY <1>2, <1>6, <1>7, <1>9, <1>10, <1>11, <1>12, <1>13, LinkStep

LEMMA EndDifsLink ==
    ASSUME NicInv, NicInv', LinkInv, NEW n \in Nodes, EndDifs(n)
    PROVE  LinkInv'
<1>1. PICK m2 \in DifsOver(mac[n], Rx(n)) : mac' = [mac EXCEPT ![n] = m2]
  BY DEF EndDifs
<1>2. mac[n] \in MacState /\ mac[n].fsm = "WAITDIFS" /\ TurnOK(radio[n])
  BY QueuedFrames, FiresIn DEF EndDifs
<1>3. Stays(mac[n], m2)
  BY <1>1, <1>2, DifsOverStays
<1>4. /\ radio' = [radio EXCEPT ![n] = radio[n]] /\ fate' = fate
      /\ delivered' = delivered
  BY SameRadio DEF EndDifs
<1> QED BY <1>1, <1>2, <1>3, <1>4, StayingKeepsLink

LEMMA NotifyLink ==
    ASSUME NicInv, NicInv', LinkInv, NEW n \in Nodes, NEW r2, Notify(n, r2),
           fate' = fate, delivered' = delivered, r2.down = radio[n].down,
           r2.transmissionTimer = radio[n].transmissionTimer,
           Coming(r2) \subseteq Coming(radio[n]), TurnOK(r2)
    PROVE  LinkInv'
<1>1. radio' = [radio EXCEPT ![n] = r2] /\ mac[n] \in MacState
  BY QueuedFrames DEF Notify
<1>2. PICK m2 : mac' = [mac EXCEPT ![n] = m2] /\ Stays(mac[n], m2)
  <2>1. CASE ReceptionState(r2) # Rx(n)
    <3>1. PICK m2 \in MediumChange(mac[n], ReceptionState(r2)) : mac' = [mac EXCEPT ![n] = m2]
      BY <2>1 DEF Notify
    <3> QED BY <1>1, <3>1, MediumChangeStays
  <2>2. CASE ReceptionState(r2) = Rx(n)
    <3>1. mac' = [mac EXCEPT ![n] = mac[n]]
      BY <2>2 DEF Notify, NicInv
    <3> QED BY <3>1 DEF Stays
  <2> QED BY <2>1, <2>2
<1> QED BY <1>1, <1>2, StayingKeepsLink

LEMMA ReceptionLink ==
    ASSUME NicInv, NicInv', LinkInv, NEW n \in Nodes,
           \/ \E a \in radio[n].arriving : \E receivable \in BOOLEAN :
                 StartReception(n, a, receivable)
           \/ \E s \in radio[n].heard : EndReception(n, s)
    PROVE  LinkInv'
<1>1. radio[n] \in RadioState /\ TurnOK(radio[n])
  BY QueuedFrames
<1>2. ASSUME NEW a \in radio[n].arriving, NEW receivable \in BOOLEAN,
             StartReception(n, a, receivable)
      PROVE  LinkInv'
  <2>1. PICK r2 : r2 = ReceptionStarted(radio[n], a, receivable)
    OBVIOUS
  <2>2. r2.down = radio[n].down /\ r2.transmissionTimer = radio[n].transmissionTimer
    BY <1>1, <2>1 DEF ReceptionStarted, RadioState
  <2>3. Coming(r2) \subseteq Coming(radio[n]) /\ TurnOK(r2)
    BY <1>1, <2>1, ReceptionStartedComes
  <2>4. Notify(n, r2) /\ fate' = fate /\ delivered' = delivered
    BY <1>2, <2>1 DEF StartReception
  <2> QED BY <2>2, <2>3, <2>4, NotifyLink
<1>3. ASSUME NEW s \in radio[n].heard, EndReception(n, s)
      PROVE  LinkInv'
  <2>1. PICK r2 : r2 = ReceptionOver(radio[n], s)
    OBVIOUS
  <2>2. r2.down = radio[n].down /\ r2.transmissionTimer = radio[n].transmissionTimer
    BY <1>1, <2>1 DEF ReceptionOver, RadioState
  <2>3. Coming(r2) \subseteq Coming(radio[n]) /\ TurnOK(r2)
    BY <1>1, <1>3, <2>1, ReceptionOverComes DEF EndReception
  <2>4. Notify(n, r2) /\ fate' = fate /\ delivered' = delivered
    BY <1>3, <2>1 DEF EndReception
  <2> QED BY <2>2, <2>3, <2>4, NotifyLink
<1> QED BY <1>2, <1>3

(* A host that neither sends a frame of its own nor waits for its answer.   *)
LEMMA QuietCarries ==
    ASSUME NEW n \in Nodes, mac[n].fsm \notin {"TRANSMIT", "WAITACK"},
           \A f \in Frames : f.src = n /\ fate[f] = "sent" => fate'[f] = "sent"
    PROVE  /\ Carried(n)
           /\ AnsweredNow(n, AckTrip) => AnsweredNow(n, AckTrip)'
<1>1. \A t : ~AnsweredNow(n, t)
  BY DEF AnsweredNow, Answered
<1>2. ASSUME NEW f \in Frames, NEW left \in Nat, f.src = n, FliesNow(f, left)
      PROVE  FliesNow(f, left)'
  BY <1>2 DEF FliesNow, Flies
<1> QED BY <1>1, <1>2 DEF Carried

LEMMA AcksAreNotData == \A k : Ack(k) \notin Frames
  BY NoFrameIsNoFrame DEF Ack

LEMMA QueueFrameLink ==
    ASSUME ~PrioritizeByUP, NicInv, NicInv', LinkInv,
           NEW n \in Nodes, NEW f \in Frames, QueueFrame(n, f)
    PROVE  LinkInv'
<1> DEFINE q == mac[n].queue
<1>1. PICK m2 \in UpperFrame(mac[n], f, Rx(n)) : mac' = [mac EXCEPT ![n] = m2]
  BY DEF QueueFrame
<1>2. /\ mac[n] \in MacState /\ q \in Seq(Frames) /\ TurnOK(radio[n])
      /\ QueueOK(n) /\ AwaitsOK(n) /\ DownOK(n)
      /\ mac[n].fsm \in Contending \cup {"TRANSMIT", "WAITACK"} => q # <<>>
  BY QueuedFrames DEF MacOK
<1>3. /\ m2.queue = Append(q, f)
      /\ mac[n].fsm \in Engaged \/ m2.fsm \in Engaged =>
            m2 = [mac[n] EXCEPT !.queue = Append(q, f)]
  BY <1>1, <1>2, UpperFrameJoins
<1>4. mac[n].fsm \in Engaged \/ m2.fsm \in Engaged =>
         /\ m2.fsm = mac[n].fsm /\ m2.endAckTimeout = mac[n].endAckTimeout
         /\ m2.endSifs = mac[n].endSifs /\ m2.frameToAck = mac[n].frameToAck
  BY <1>2, <1>3 DEF MacState
<1>5. /\ radio' = [radio EXCEPT ![n] = radio[n]] /\ delivered' = delivered
      /\ fate[f] = "to come" /\ f.src = n /\ fate' = [fate EXCEPT ![f] = "queued"]
      /\ fate'[f] = "queued" /\ \A g \in Frames : g # f => fate'[g] = fate[g]
  BY SameRadio DEF QueueFrame, NicInv, HistoryOK
<1>6. /\ Alone(n) /\ mac'[n] = m2 /\ radio'[n] = radio[n]
      /\ \A k \in Nodes \ {n} : radio'[k] = radio[k]
  <2>1. \A g \in Frames : delivered[g] \subseteq delivered'[g] /\ (g.src # n => fate'[g] = fate[g])
    BY <1>5
  <2> QED BY <1>1, <1>5, <2>1, HostAlone
<1>7. q # <<>> => Append(q, f) # <<>> /\ Head(Append(q, f)) = Head(q)
  BY <1>2, AppendProperties, HeadTailProperties
<1>8. mac[n].fsm \in Contending \cup {"TRANSMIT", "WAITACK"} =>
         m2.queue # <<>> /\ Current(m2) = Current(mac[n])
  BY <1>2, <1>3, <1>7 DEF Current
<1>9. Carried(n) /\ (AnsweredNow(n, AckTrip) => AnsweredNow(n, AckTrip)')
  <2>1. CASE mac[n].fsm \notin {"TRANSMIT", "WAITACK"}
    BY <1>5, <2>1, QuietCarries
  <2>2. CASE mac[n].fsm \in {"TRANSMIT", "WAITACK"}
    <3>1. /\ m2.fsm = mac[n].fsm /\ m2.endAckTimeout = mac[n].endAckTimeout
          /\ m2.queue # <<>> /\ Current(m2) = Current(mac[n])
      BY <1>4, <1>8, <2>2 DEF Engaged
    <3>2. \A t : AnsweredNow(n, t) => AnsweredNow(n, t)'
      BY <1>5, <1>6, <3>1 DEF AnsweredNow, Answered
    <3>3. ASSUME NEW g \in Frames, NEW left \in Nat, g.src = n, FliesNow(g, left)
          PROVE  FliesNow(g, left)'
      <4>1. fate[g] = "sent" => fate'[g] = "sent"
        BY <1>5
      <4> QED BY <1>6, <3>1, <3>3, <4>1 DEF FliesNow, Flies, Working
    <3> QED BY <3>2, <3>3 DEF Carried
  <2> QED BY <2>1, <2>2
<1>10. QueueOK(n)'
  <2>1. QueueFine(q, fate, f.src) /\ fate[f] # "queued" /\ fate'[f] = "queued"
    BY <1>2, <1>5 DEF QueueOK
  <2>2. \A g \in Frames : fate[g] = "queued" => fate'[g] = "queued"
    BY <1>5
  <2>3. QueueFine(Append(q, f), fate', f.src)
    BY <1>2, <2>1, <2>2, QueueAppended
  <2> QED BY <1>3, <1>5, <1>6, <2>3 DEF QueueOK
<1>11. mac'[n].fsm = "WAITACK" => AckWanted(Current(mac'[n]))
  BY <1>2, <1>4, <1>6, <1>8 DEF AwaitsOK, Engaged
<1>12. mac'[n].fsm = "WAITSIFS" =>
          /\ mac[n].fsm = "WAITSIFS" /\ mac'[n].endSifs = mac[n].endSifs
          /\ mac'[n].frameToAck = mac[n].frameToAck
  BY <1>4, <1>6 DEF Engaged
<1>13. radio'[n].down \in Frames =>
          mac'[n].fsm = "TRANSMIT" /\ Working(mac'[n], radio'[n].down)
  BY <1>2, <1>4, <1>6, <1>8 DEF DownOK, Engaged, Working
<1>14. \A k \in Nodes : TurnOK(radio'[k]) /\ Coming(radio'[k]) \subseteq Coming(radio[k])
  BY <1>6 DEF LinkInv
<1>15. \A k \in Nodes : radio'[n].down = Ack(k) => radio[n].down = Ack(k)
  BY <1>6
<1> QED BY <1>6, <1>9, <1>10, <1>11, <1>12, <1>13, <1>14, <1>15, LinkStep

LEMMA RefuseFrameLink ==
    ASSUME NicInv, NicInv', LinkInv, NEW n \in Nodes, NEW f \in Frames, RefuseFrame(n, f)
    PROVE  LinkInv'
<1>1. /\ mac' = mac /\ radio' = radio /\ delivered' = delivered
      /\ fate[f] = "to come" /\ \A g \in Frames : g # f => fate'[g] = fate[g]
  BY DEF RefuseFrame, NicInv, HistoryOK
<1>2. \A g \in Frames : fate[g] \in {"sent", "queued"} => fate'[g] = fate[g]
  BY <1>1
<1>3. \A k \in Nodes : \A t : AnsweredNow(k, t) => AnsweredNow(k, t)'
  BY <1>1 DEF AnsweredNow
<1>4. ASSUME NEW g \in Frames, NEW left, FliesNow(g, left)
      PROVE  FliesNow(g, left)'
  BY <1>1, <1>2, <1>4 DEF FliesNow, Flies
<1>5. ASSUME NEW k \in Nodes
      PROVE  /\ QueueOK(k) /\ AwaitsOK(k) /\ DownOK(k) /\ TurnOK(radio[k])
             /\ \A c \in Coming(radio[k]) : ComingOK(k, c)
             /\ \A i \in DOMAIN mac[k].queue : mac[k].queue[i] \in Frames
  <2>1. mac[k].queue \in Seq(Frames)
    BY QueuedFrames
  <2> QED BY <2>1, QueuedFrames, ElementOfSeq, LenProperties
<1>6. ASSUME NEW k \in Nodes
      PROVE  QueueOK(k)'
  <2>1. QueueFine(mac[k].queue, fate, k) /\ mac[k].queue \in Seq(Frames)
    BY QueuedFrames DEF QueueOK
  <2>2. QueueFine(mac[k].queue, fate', k)
    BY <1>2, <2>1, QueueFateKept
  <2> QED BY <1>1, <2>2 DEF QueueOK
<1>7. ASSUME NEW k \in Nodes
      PROVE  AwaitsOK(k)' /\ DownOK(k)' /\ TurnOK(radio'[k])
  BY <1>1, <1>5 DEF AwaitsOK, DownOK, AnsweredNow
<1>8. ASSUME NEW k \in Nodes, NEW c \in Coming(radio[k])
      PROVE  ComingOK(k, c)'
  BY <1>3, <1>4, <1>5 DEF ComingOK
<1> QED BY <1>1, <1>6, <1>7, <1>8 DEF LinkInv

LEMMA EndBackoffLink ==
    ASSUME NicInv, NicInv', LinkInv, NEW n \in Nodes, EndBackoff(n)
    PROVE  LinkInv'
<1>1. PICK m2 \in BackoffOver(mac[n], Rx(n)) : mac' = [mac EXCEPT ![n] = m2]
  BY DEF EndBackoff
<1>2. /\ mac[n] \in MacState /\ MacOK(mac[n]) /\ mac[n].endBackoff = 0
      /\ mac[n].queue \in Seq(Frames) /\ QueueOK(n)
      /\ radio[n] \in RadioState /\ TurnOK(radio[n])
  BY QueuedFrames DEF EndBackoff
<1>3. mac[n].fsm = "BACKOFF" /\ mac[n].queue # <<>>
  BY <1>2, FiresIn DEF MacOK, Contending
<1>4. m2.queue = mac[n].queue /\ m2.fsm = "TRANSMIT"
  BY <1>1, <1>2, <1>3, BackoffOverSends
<1>5. PICK f \in Frames : f = Current(mac[n]) /\ f = Current(m2)
  BY <1>3, <1>4, QueuedFrames DEF Current
<1>6. PICK r2 : r2 = HandDown(radio[n], f)
  OBVIOUS
<1>7. /\ radio' = [radio EXCEPT ![n] = r2] /\ fate' = fate /\ delivered' = delivered
  BY <1>3, <1>5, <1>6 DEF EndBackoff, Transmits, NicInv
<1>8. r2.down = f /\ Coming(r2) \subseteq Coming(radio[n]) /\ TurnOK(r2)
  <2>1. f \in AllFrames
    BY DEF AllFrames
  <2> QED BY <1>2, <1>6, <2>1, SwitchAborts DEF HandDown, SwitchToTransmitter, RadioState
<1>9. /\ Alone(n) /\ mac'[n] = m2 /\ radio'[n] = r2
      /\ \A k \in Nodes \ {n} : radio'[k] = radio[k]
  BY <1>1, <1>7, HostAlone
<1>10. Carried(n) /\ (AnsweredNow(n, AckTrip) => AnsweredNow(n, AckTrip)')
  BY <1>3, <1>7, QuietCarries
<1>11. QueueOK(n)'
  BY <1>2, <1>4, <1>7, <1>9 DEF QueueOK
<1>12. mac'[n].fsm = "TRANSMIT" /\ Working(mac'[n], radio'[n].down)
  BY <1>3, <1>4, <1>5, <1>8, <1>9 DEF Working
<1>13. \A k \in Nodes : TurnOK(radio'[k]) /\ Coming(radio'[k]) \subseteq Coming(radio[k])
  BY <1>8, <1>9 DEF LinkInv
<1>14. \A k \in Nodes : radio'[n].down # Ack(k)
  BY <1>8, <1>9, AcksAreNotData
<1> QED BY <1>9, <1>10, <1>11, <1>12, <1>13, <1>14, LinkStep

LEMMA EndSifsLink ==
    ASSUME NicInv, NicInv', LinkInv, NEW n \in Nodes, EndSifs(n)
    PROVE  LinkInv'
<1>1. /\ mac[n] \in MacState /\ MacOK(mac[n]) /\ mac[n].endSifs = 0
      /\ mac[n].queue \in Seq(Frames) /\ QueueOK(n) /\ AwaitsOK(n)
      /\ radio[n] \in RadioState /\ TurnOK(radio[n])
  BY QueuedFrames DEF EndSifs
<1>2. mac[n].fsm = "WAITSIFS" /\ SendsAck(mac[n])
  BY <1>1, FiresIn DEF SendsAck
<1>3. PICK m2 \in SifsOver(mac[n], "UNDEFINED") : mac' = [mac EXCEPT ![n] = m2]
  BY <1>2 DEF EndSifs
<1>4. m2.queue = mac[n].queue /\ m2.fsm \notin Engaged
  BY <1>1, <1>3, SifsOverFrees
<1>5. PICK j \in Nodes : j = mac[n].frameToAck.src
  <2>1. mac[n].frameToAck \in Frames
    BY <1>1, <1>2 DEF MacOK, TimersOK, MacState
  <2> QED BY <2>1, MacAssumption
<1>6. PICK r2 : r2 = HandDown(radio[n], Ack(j))
  OBVIOUS
<1>7. /\ radio' = [radio EXCEPT ![n] = r2] /\ fate' = fate /\ delivered' = delivered
  BY <1>2, <1>5, <1>6 DEF EndSifs, NicInv
<1>8. r2.down = Ack(j) /\ Coming(r2) \subseteq Coming(radio[n]) /\ TurnOK(r2)
  <2>1. Ack(j) \in AllFrames
    BY DEF AllFrames
  <2> QED BY <1>1, <1>6, <2>1, SwitchAborts DEF HandDown, SwitchToTransmitter, RadioState
<1>9. /\ Alone(n) /\ mac'[n] = m2 /\ radio'[n] = r2
      /\ \A k \in Nodes \ {n} : radio'[k] = radio[k]
  BY <1>3, <1>7, HostAlone
<1>10. Carried(n) /\ (AnsweredNow(n, AckTrip) => AnsweredNow(n, AckTrip)')
  BY <1>2, <1>7, QuietCarries
<1>11. QueueOK(n)'
  BY <1>1, <1>4, <1>7, <1>9 DEF QueueOK
<1>12. AnsweredNow(j, SifsTime)'
  <2>1. SifsTime - mac[n].endSifs = SifsTime /\ SifsTime \in 0..AckTrip /\ SifsTime < AckTrip
    BY <1>1, TripTimes
  <2>2. AnsweredNow(j, SifsTime)
    BY <1>1, <1>2, <1>5, <2>1 DEF AwaitsOK
  <2> QED BY <1>9, <1>10, <2>1, <2>2, CarriedByAll
<1>13. \A k \in Nodes : radio'[n].down = Ack(k) => k = j
  BY <1>8, <1>9 DEF Ack
<1>14. \A k \in Nodes : radio'[n].down = Ack(k) => AnsweredNow(k, SifsTime)'
  <2>1. ASSUME NEW k \in Nodes, radio'[n].down = Ack(k)
        PROVE  AnsweredNow(k, SifsTime)'
    <3>1. k = j
      BY <1>13, <2>1
    <3> QED BY <1>12, <3>1
  <2> QED BY <2>1
<1>15. \A k \in Nodes : TurnOK(radio'[k]) /\ Coming(radio'[k]) \subseteq Coming(radio[k])
  BY <1>8, <1>9 DEF LinkInv
<1>16. radio'[n].down \notin Frames /\ mac'[n].fsm \notin Engaged
  BY <1>4, <1>8, <1>9, AcksAreNotData
<1> QED BY <1>9, <1>10, <1>11, <1>14, <1>15, <1>16, LinkStep DEF Engaged

(* A host that takes its current frame off the queue or tries it again.     *)
LEMMA LeavingKeepsLink ==
    ASSUME NicInv, NicInv', LinkInv, NEW n \in Nodes, NEW m2, NEW r2,
           mac' = [mac EXCEPT ![n] = m2], radio' = [radio EXCEPT ![n] = r2],
           mac[n].queue # <<>>, m2.fsm \notin Engaged,
           radio[n].down \notin Frames, Carried(n), r2.down = radio[n].down,
           \/ m2.queue = mac[n].queue /\ fate' = fate
           \/ m2.queue = Tail(mac[n].queue) /\ \E how \in Fates : Settle(n, how),
           delivered' = delivered, Coming(r2) \subseteq Coming(radio[n]), TurnOK(r2),
           \A c \in Coming(r2) : c.left = 0 /\ c.frame = Ack(n) => ~AnsweredNow(n, AckTrip)
    PROVE  LinkInv'
<1>1. PICK f \in Frames : f = Current(mac[n]) /\ f.src = n
  BY QueuedFrames
<1>2. mac[n].queue \in Seq(Frames) /\ QueueFine(mac[n].queue, fate, n)
  BY QueuedFrames DEF QueueOK
<1>3. \A g \in Frames : g # f => fate'[g] = fate[g]
  BY <1>1 DEF Settle, NicInv, HistoryOK
<1>4. /\ Alone(n) /\ mac'[n] = m2 /\ radio'[n] = r2
      /\ \A k \in Nodes \ {n} : radio'[k] = radio[k]
  <2>1. \A g \in Frames : delivered[g] \subseteq delivered'[g] /\ (g.src # n => fate'[g] = fate[g])
    BY <1>1, <1>3
  <2> QED BY <2>1, HostAlone
<1>5. QueueFine(m2.queue, fate', n)
  <2>1. CASE m2.queue = mac[n].queue /\ fate' = fate
    BY <1>2, <2>1
  <2>2. CASE m2.queue = Tail(mac[n].queue)
    <3>1. f = Head(mac[n].queue)
      BY <1>1 DEF Current
    <3>2. \A g \in Frames : g # Head(mac[n].queue) /\ fate[g] = "queued" => fate'[g] = "queued"
      BY <1>3, <3>1
    <3> QED BY <1>2, <2>2, <3>2, QueueTaken
  <2> QED BY <2>1, <2>2
<1>6. QueueOK(n)'
  BY <1>4, <1>5 DEF QueueOK
<1>7. \A k \in Nodes : TurnOK(radio'[k]) /\ Coming(radio'[k]) \subseteq Coming(radio[k])
  BY <1>4 DEF LinkInv
<1>8. /\ \A k \in Nodes : radio'[n].down = Ack(k) => radio[n].down = Ack(k)
      /\ radio'[n].down \notin Frames /\ mac'[n].fsm \notin Engaged
  BY <1>4
<1>9. \A c \in Coming(radio'[n]) : c.left = 0 /\ c.frame = Ack(n) => ~AnsweredNow(n, AckTrip)
  BY <1>4
<1> QED BY <1>4, <1>6, <1>7, <1>8, <1>9, LinkStep DEF Engaged

(* The end of a wait for an acknowledgement, when nothing is on its way.    *)
LEMMA WaitOverCarries ==
    ASSUME NEW n \in Nodes, mac[n].fsm = "WAITACK",
           \A t \in 0..AckTrip - 1 : mac[n].endAckTimeout # AckTimeout - t,
           \A f \in Frames : f.src = n /\ fate[f] = "sent" => fate'[f] = "sent"
    PROVE  Carried(n)
<1>1. \A t \in 0..AckTrip - 1 : ~AnsweredNow(n, t)
  BY DEF AnsweredNow, Answered
<1>2. mac[n].endAckTimeout # AckTimeout
  <2>1. 0 \in 0..AckTrip - 1 /\ AckTimeout - 0 = AckTimeout
    BY TripTimes, MacAssumption
  <2> QED BY <2>1
<1>3. ASSUME NEW f \in Frames, NEW left \in Nat, f.src = n, FliesNow(f, left)
      PROVE  FliesNow(f, left)'
  BY <1>2, <1>3 DEF FliesNow, Flies
<1> QED BY <1>1, <1>3 DEF Carried

(* No frame that was sent for good becomes anything else.                   *)
LEMMA SentStays ==
    ASSUME NicInv, LinkInv, NEW n \in Nodes, mac[n].queue # <<>>,
           NEW how, Settle(n, how)
    PROVE  \A f \in Frames : fate[f] = "sent" => fate'[f] = "sent"
<1>1. Current(mac[n]) \in Frames /\ fate[Current(mac[n])] = "queued"
  BY QueuedFrames
<1> QED BY <1>1 DEF Settle, NicInv, HistoryOK

LEMMA EndAckTimeoutLink ==
    ASSUME AckTimeout > AckTrip, NicInv, NicInv', LinkInv, NEW n \in Nodes, EndAckTimeout(n)
    PROVE  LinkInv'
<1>1. PICK m2 \in AckOverdue(mac[n], Rx(n)) : mac' = [mac EXCEPT ![n] = m2]
  BY DEF EndAckTimeout
<1>2. MacOK(mac[n]) /\ mac[n].endAckTimeout = 0 /\ TurnOK(radio[n]) /\ DownOK(n)
  BY QueuedFrames DEF EndAckTimeout
<1>3. /\ mac[n].fsm = "WAITACK" /\ m2.fsm \notin Engaged
      /\ m2.queue = IF GivesUp(mac[n]) THEN Tail(mac[n].queue) ELSE mac[n].queue
  BY <1>1, <1>2, AckOverdueFrees
<1>4. mac[n].queue # <<>> /\ radio[n].down \notin Frames
  BY <1>2, <1>3 DEF MacOK, DownOK
<1>5. \/ m2.queue = mac[n].queue /\ fate' = fate
      \/ /\ m2.queue = Tail(mac[n].queue)
         /\ "given up" \in Fates /\ Settle(n, "given up")
  BY <1>3 DEF EndAckTimeout, Fates
<1>6. \A f \in Frames : fate[f] = "sent" => fate'[f] = "sent"
  BY <1>4, <1>5, SentStays
<1>7. \A t \in 0..AckTrip : 0 # AckTimeout - t
  BY TripTimes, MacAssumption
<1>8. AckTrip \in 0..AckTrip /\ \A t \in 0..AckTrip - 1 : t \in 0..AckTrip
  BY TripTimes
<1>9. Carried(n)
  BY <1>2, <1>3, <1>6, <1>7, <1>8, WaitOverCarries
<1>10. ~AnsweredNow(n, AckTrip)
  BY <1>2, <1>3, <1>7, <1>8 DEF AnsweredNow, Answered
<1>11. radio' = [radio EXCEPT ![n] = radio[n]] /\ delivered' = delivered
  BY SameRadio DEF EndAckTimeout
<1> QED BY <1>1, <1>2, <1>3, <1>4, <1>5, <1>9, <1>10, <1>11, LeavingKeepsLink

(* What a host learns of a frame that its radio passes up.                  *)
LEMMA UpFrame ==
    ASSUME NicInv, LinkInv, NEW n \in Nodes, radio[n].up # <<>>,
           NEW f, f = Head(radio[n].up).frame
    PROVE  /\ f \in AllFrames
           /\ f \in Frames => f.src # n /\ FliesNow(f, 0)
           /\ f = Ack(n) => AnsweredNow(n, AckTrip)
<1>1. radio[n] \in RadioState /\ RadioOK(radio[n]) /\ TurnOK(radio[n])
  BY QueuedFrames
<1>2. PICK c : c = [frame |-> f, left |-> 0]
  OBVIOUS
<1>3. c \in Coming(radio[n]) /\ c.frame = f /\ c.left = 0
  BY <1>1, <1>2, UpTakenComes
<1>4. f \in AllFrames
  BY <1>1, UpTaken
<1>5. AckTrip - 0 = AckTrip
  BY TripTimes
<1>6. ComingOK(n, c)
  BY <1>3, QueuedFrames
<1> QED BY <1>3, <1>4, <1>5, <1>6 DEF ComingOK

(* A frame that is delivered and wants an acknowledgement is its sender's   *)
(* current one.                                                             *)
LEMMA DeliveredInTurn ==
    ASSUME NEW f, AckWanted(f), FliesNow(f, 0)
    PROVE  /\ Working(mac[f.src], f)
           /\ \/ /\ mac[f.src].fsm = "TRANSMIT"
                 /\ radio[f.src].transmissionTimer = 0
              \/ mac[f.src].fsm = "WAITACK" /\ mac[f.src].endAckTimeout = AckTimeout
  BY DEF FliesNow, Flies

LEMMA PassesUpData ==
    ASSUME NEW n, NEW m, NEW f \in AllFrames, NEW bitError, PassesUp(n, m, f, bitError)
    PROVE  f \in Frames /\ f.dst \in {n, Broadcast} /\ m.fsm = "RECEIVE"
<1>1. \A k : Ack(k).kind # "data"
  BY DEF Ack
<1> QED BY <1>1 DEF PassesUp, AllFrames

LEMMA ReceiveFrameLink ==
    ASSUME NicInv, NicInv', LinkInv, NEW n \in Nodes, ReceiveFrame(n)
    PROVE  LinkInv'
<1>1. PICK f : f = Head(radio[n].up).frame
  OBVIOUS
<1>2. PICK bitError : bitError = Head(radio[n].up).bitError
  OBVIOUS
<1>3. PICK m2 \in LowerFrame(n, mac[n], f, bitError, Rx(n)) : mac' = [mac EXCEPT ![n] = m2]
  BY <1>1, <1>2 DEF ReceiveFrame
<1>4. /\ mac[n] \in MacState /\ MacOK(mac[n]) /\ QueueOK(n) /\ DownOK(n)
      /\ radio[n] \in RadioState /\ TurnOK(radio[n]) /\ radio[n].up # <<>>
  BY QueuedFrames DEF ReceiveFrame
<1>5. PICK r2 : r2 = [radio[n] EXCEPT !.up = Tail(@)]
  OBVIOUS
<1>6. /\ Coming(r2) \subseteq Coming(radio[n]) /\ TurnOK(r2)
      /\ \A c \in Coming(r2) : c.left > 0
  BY <1>4, <1>5, UpTakenComes
<1>7. /\ r2.down = radio[n].down /\ r2.transmissionTimer = radio[n].transmissionTimer
      /\ radio' = [radio EXCEPT ![n] = r2]
  BY <1>4, <1>5 DEF RadioState, ReceiveFrame
<1>8. /\ f \in AllFrames /\ (f \in Frames => f.src # n /\ FliesNow(f, 0))
      /\ f = Ack(n) => AnsweredNow(n, AckTrip)
  BY <1>1, <1>4, UpFrame
<1>9. IF PassesUp(n, mac[n], f, bitError)
      THEN delivered' = [delivered EXCEPT ![f] = @ \cup {n}]
      ELSE delivered' = delivered
  BY <1>1, <1>2 DEF ReceiveFrame
<1>10. \A g \in Frames : delivered[g] \subseteq delivered'[g]
  <2>1. CASE PassesUp(n, mac[n], f, bitError)
    <3>1. f \in Frames
      BY <1>8, <2>1, PassesUpData
    <3> QED BY <1>9, <2>1, <3>1 DEF NicInv, HistoryOK
  <2> QED BY <1>9, <2>1
<1>11. CASE Acknowledged(n, mac[n], f)
  <2>1. /\ mac[n].fsm = "WAITACK" /\ AnsweredNow(n, AckTrip)
        /\ ~PassesUp(n, mac[n], f, bitError)
    BY <1>8, <1>11 DEF Acknowledged, PassesUp
  <2>2. m2.queue = Tail(mac[n].queue) /\ m2.fsm \notin Engaged
    BY <1>3, <1>4, <1>11, LowerFrameTakes
  <2>3. "acknowledged" \in Fates /\ Settle(n, "acknowledged")
    BY <1>1, <1>11 DEF ReceiveFrame, Fates
  <2>4. mac[n].queue # <<>> /\ radio[n].down \notin Frames
    BY <1>4, <2>1 DEF MacOK, DownOK
  <2>5. mac[n].endAckTimeout = AckTimeout - AckTrip
    BY <2>1 DEF AnsweredNow, Answered
  <2>6. \A t \in 0..AckTrip - 1 : mac[n].endAckTimeout # AckTimeout - t
    BY <2>5, TripTimes, MacAssumption
  <2>7. Carried(n)
    BY <2>1, <2>3, <2>4, <2>6, SentStays, WaitOverCarries
  <2>8. delivered' = delivered /\ \A c \in Coming(r2) : c.left # 0
    BY <1>6, <1>9, <2>1
  <2> QED BY <1>3, <1>6, <1>7, <2>2, <2>3, <2>4, <2>7, <2>8, LeavingKeepsLink
<1>12. CASE ~Acknowledged(n, mac[n], f) /\ PassesUp(n, mac[n], f, bitError) /\ AckWanted(f)
  <2>1. /\ m2.queue = mac[n].queue /\ m2.fsm = "WAITSIFS"
        /\ m2.endSifs = SifsTime /\ m2.frameToAck = f
    BY <1>3, <1>4, <1>12, LowerFrameTakes
  <2>2. f \in Frames /\ f.dst \in {n, Broadcast} /\ mac[n].fsm = "RECEIVE"
    BY <1>8, <1>12, PassesUpData
  <2>3. fate' = fate
    BY <1>1, <1>12 DEF ReceiveFrame
  <2>4. /\ Alone(n) /\ mac'[n] = m2 /\ radio'[n] = r2
        /\ \A k \in Nodes \ {n} : radio'[k] = radio[k]
    BY <1>3, <1>7, <1>10, <2>3, HostAlone
  <2>5. Carried(n) /\ (AnsweredNow(n, AckTrip) => AnsweredNow(n, AckTrip)')
    BY <2>2, <2>3, QuietCarries
  <2>6. AnsweredNow(f.src, 0)'
    <3>1. f.src \in Nodes \ {n} /\ FliesNow(f, 0)
      BY <1>8, <2>2, MacAssumption
    <3>2. /\ mac'[f.src] = mac[f.src]
          /\ radio'[f.src].transmissionTimer = radio[f.src].transmissionTimer
      BY <2>4, <3>1 DEF Alone
    <3>3. f.dst \in delivered'[f]
      BY <1>9, <1>12, <2>2 DEF AckWanted, NicInv, HistoryOK
    <3>4. AckTimeout - 0 = AckTimeout
      BY MacAssumption
    <3> QED BY <1>12, <3>1, <3>2, <3>3, <3>4, DeliveredInTurn DEF AnsweredNow, Answered, Working
  <2>7. QueueOK(n)'
    BY <1>4, <2>1, <2>3, <2>4 DEF QueueOK
  <2>8. /\ radio'[n].down \notin Frames /\ mac'[n].fsm # "WAITACK"
        /\ \A k \in Nodes : radio'[n].down = Ack(k) => radio[n].down = Ack(k)
    BY <1>4, <1>7, <2>1, <2>2, <2>4 DEF DownOK
  <2>9. mac'[n].endSifs = SifsTime /\ mac'[n].frameToAck = f
    BY <2>1, <2>4
  <2>10. \A k \in Nodes : TurnOK(radio'[k]) /\ Coming(radio'[k]) \subseteq Coming(radio[k])
    BY <1>6, <2>4 DEF LinkInv
  <2> QED BY <2>2, <2>4, <2>5, <2>6, <2>7, <2>8, <2>9, <2>10, LinkStep
<1>13. CASE /\ ~Acknowledged(n, mac[n], f)
            /\ ~(PassesUp(n, mac[n], f, bitError) /\ AckWanted(f))
  <2>1. Stays(mac[n], m2)
    BY <1>3, <1>4, <1>13, LowerFrameTakes
  <2>2. fate' = fate
    BY <1>1, <1>13 DEF ReceiveFrame
  <2> QED BY <1>3, <1>6, <1>7, <1>10, <2>1, <2>2, StayingKeepsLink
<1> QED BY <1>11, <1>12, <1>13

LEMMA StartTransmissionLink ==
    ASSUME NicInv, NicInv', LinkInv, NEW n \in Nodes, StartTransmission(n)
    PROVE  LinkInv'
<1>1. PICK f : f = radio[n].down
  OBVIOUS
<1>2. /\ radio[n] \in RadioState /\ TurnOK(radio[n]) /\ QueueOK(n) /\ AwaitsOK(n)
      /\ DownOK(n) /\ mac[n] \in MacState /\ MacOK(mac[n])
  BY QueuedFrames
<1>3. /\ f # NoFrame /\ radio[n].transmissionTimer = NotScheduled
      /\ mac' = mac /\ fate' = fate /\ delivered' = delivered
      /\ radio' = [k \in Nodes |->
                     IF k = n THEN Transmission(radio[n])
                     ELSE IF <<n, k>> \in Hears
                     THEN [radio[k] EXCEPT !.arriving = @ \cup {[src |-> n, frame |-> f]}]
                     ELSE radio[k]]
  BY <1>1 DEF StartTransmission
<1>4. PICK c : c = [frame |-> f, left |-> Duration(f)]
  OBVIOUS
<1>5. /\ radio'[n].down = NoFrame /\ radio'[n].transmissionTimer = Duration(f)
      /\ Coming(radio'[n]) = Coming(radio[n]) /\ TurnOK(radio'[n])
  <2>1. radio'[n] = Transmission(radio[n])
    BY <1>3
  <2> QED BY <1>1, <1>2, <2>1, TransmissionQuiet DEF Transmission, RadioState
<1>6. ASSUME NEW k \in Nodes \ {n}
      PROVE  /\ radio'[k].down = radio[k].down
             /\ radio'[k].transmissionTimer = radio[k].transmissionTimer
             /\ Coming(radio'[k]) \subseteq Coming(radio[k]) \cup {c} /\ TurnOK(radio'[k])
  <2>1. radio[k] \in RadioState /\ TurnOK(radio[k])
    BY QueuedFrames
  <2>2. CASE <<n, k>> \in Hears
    <3>1. PICK a : a = [src |-> n, frame |-> f]
      OBVIOUS
    <3>2. radio'[k] = [radio[k] EXCEPT !.arriving = @ \cup {a}]
      BY <1>3, <2>2, <3>1
    <3>3. c = [frame |-> a.frame, left |-> Duration(a.frame)]
      BY <1>4, <3>1
    <3> QED BY <2>1, <3>2, <3>3, ArrivingComes
  <2>3. CASE <<n, k>> \notin Hears
    BY <1>3, <2>1, <2>3
  <2> QED BY <2>2, <2>3
<1>7. Alone(n)
  BY <1>3, <1>6 DEF Alone
<1>8. \A t : AnsweredNow(n, t) => AnsweredNow(n, t)'
  BY <1>3 DEF AnsweredNow, Answered, NotScheduled
<1>9. ASSUME NEW g \in Frames, NEW left \in Nat, g.src = n, FliesNow(g, left)
      PROVE  FliesNow(g, left)'
  <2>1. radio[n].transmissionTimer # left
    BY <1>3 DEF NotScheduled
  <2> QED BY <1>3, <1>9, <2>1 DEF FliesNow, Flies
<1>10. Carried(n)
  BY <1>8, <1>9 DEF Carried
<1>11. ASSUME NEW k \in Nodes \ {n}
       PROVE  ComingOK(k, c)'
  <2>1. c.frame = f /\ c.left = Duration(f) /\ Duration(f) \in Nat \ {0}
    BY <1>4, DurationIsPositive
  <2>2. ASSUME f \in Frames
        PROVE  f.src = n /\ FliesNow(f, Duration(f))'
    <3>1. mac[n].fsm = "TRANSMIT" /\ Working(mac[n], f)
      BY <1>1, <1>2, <2>2 DEF DownOK
    <3>2. f.src = n
      BY <3>1, QueuedFrames DEF Working
    <3> QED BY <1>3, <1>5, <3>1, <3>2 DEF FliesNow, Flies
  <2>3. ASSUME f = Ack(k)
        PROVE  AnsweredNow(k, AckTrip - Duration(f))'
    <3>1. AckTrip - Duration(f) = SifsTime /\ SifsTime \in 0..AckTrip /\ SifsTime < AckTrip
      BY <2>3, TripTimes
    <3>2. AnsweredNow(k, SifsTime)
      BY <1>1, <1>2, <2>3 DEF DownOK
    <3>3. AnsweredNow(k, SifsTime)'
      BY <1>7, <1>10, <3>1, <3>2, CarriedByAll
    <3> QED BY <3>1, <3>3
  <2>4. c.left \in 0..Duration(c.frame)
    BY <2>1
  <2> QED BY <2>1, <2>2, <2>3, <2>4 DEF ComingOK
<1>12. \A k \in Nodes : /\ TurnOK(radio'[k])
                        /\ \A d \in Coming(radio'[k]) :
                              d \in Coming(radio[k]) \/ ComingOK(k, d)'
  BY <1>5, <1>6, <1>11
<1>13. QueueOK(n)' /\ (mac'[n].fsm = "WAITACK" => AckWanted(Current(mac'[n])))
  BY <1>2, <1>3 DEF QueueOK, AwaitsOK
<1>14. radio'[n].down \notin Frames /\ \A k \in Nodes : radio'[n].down # Ack(k)
  BY <1>5, NoFrameIsNoFrame
<1>15. mac'[n] = mac[n]
  BY <1>3
<1> QED BY <1>7, <1>8, <1>10, <1>12, <1>13, <1>14, <1>15, LinkStep

LEMMA EndTransmissionLink ==
    ASSUME NicInv, NicInv', LinkInv, NEW n \in Nodes, EndTransmission(n)
    PROVE  LinkInv'
<1>1. PICK r2 : r2 = TransmissionOver(radio[n])
  OBVIOUS
<1>0. PICK m2 \in DataOver(mac[n], "UNDEFINED") :
         \E m3 \in MediumChange(m2, ReceptionState(r2)) : mac' = [mac EXCEPT ![n] = m3]
  BY <1>1 DEF EndTransmission
<1>2. PICK m3 \in MediumChange(m2, ReceptionState(r2)) : mac' = [mac EXCEPT ![n] = m3]
  BY <1>0
<1>3. /\ radio' = [radio EXCEPT ![n] = r2] /\ delivered' = delivered
      /\ radio[n].transmissionTimer = 0
      /\ IF NeedsNoAck(mac[n]) THEN Settle(n, "sent") ELSE fate' = fate
  BY <1>1 DEF EndTransmission
<1>4. /\ mac[n] \in MacState /\ MacOK(mac[n]) /\ RadioOK(radio[n]) /\ QueueOK(n)
      /\ radio[n] \in RadioState /\ TurnOK(radio[n])
  BY QueuedFrames
<1>5. mac[n].fsm \in {"TRANSMIT", "IDLE", "DEFER"} /\ radio[n].down = NoFrame
  <2>1. radio[n].mode = "TRANSMITTER" /\ radio[n].down = NoFrame
    BY <1>3, <1>4 DEF RadioOK, NotScheduled
  <2>2. mac[n].fsm \in {"TRANSMIT", "IDLE", "DEFER"}
    BY <2>1, HostBefore
  <2> QED BY <2>1, <2>2
<1>6. /\ r2.down = NoFrame /\ Coming(r2) = Coming(radio[n]) /\ TurnOK(r2)
  BY <1>1, <1>4, <1>5, TransmissionQuiet DEF TransmissionOver, RadioState
<1>7. /\ mac[n].fsm # "TRANSMIT" => Stays(mac[n], m3)
      /\ NeedsNoAck(mac[n]) => m3.queue = Tail(mac[n].queue) /\ m3.fsm \notin Engaged
      /\ mac[n].fsm = "TRANSMIT" /\ ~NeedsNoAck(mac[n]) =>
            /\ m3.queue = mac[n].queue
            /\ m3.fsm = "WAITACK" /\ m3.endAckTimeout = AckTimeout
  BY <1>2, <1>4, <1>5, DataOverThen
<1>8. radio[n].down \notin Frames /\ \A k \in Nodes : radio[n].down # Ack(k)
  BY <1>5, NoFrameIsNoFrame
<1>9. CASE mac[n].fsm # "TRANSMIT"
  <2>1. fate' = fate
    BY <1>3, <1>9 DEF NeedsNoAck
  <2> QED BY <1>2, <1>3, <1>5, <1>6, <1>7, <1>9, <2>1, StayingKeepsLink
<1>10. CASE NeedsNoAck(mac[n])
  <2>1. mac[n].fsm = "TRANSMIT" /\ mac[n].queue # <<>>
    BY <1>4, <1>10 DEF NeedsNoAck, MacOK
  <2>2. ~AckWanted(Current(mac[n])) /\ Settle(n, "sent") /\ "sent" \in Fates
    BY <1>3, <1>10 DEF NeedsNoAck, AckWanted, Fates
  <2>3. \A t : ~AnsweredNow(n, t)
    BY <2>2 DEF AnsweredNow, Answered
  <2>4. ASSUME NEW f \in Frames, NEW left \in Nat, f.src = n, FliesNow(f, left)
        PROVE  FliesNow(f, left)'
    <3>1. CASE f = Current(mac[n])
      <4>1. left = 0
        BY <1>3, <2>1, <2>4 DEF FliesNow, Flies
      <4>2. fate'[f] = "sent"
        BY <2>2, <3>1 DEF Settle, NicInv, HistoryOK
      <4> QED BY <2>2, <3>1, <4>1, <4>2 DEF FliesNow, Flies
    <3>2. CASE f # Current(mac[n])
      <4>1. left = 0 /\ ~AckWanted(f) /\ fate[f] = "sent"
        BY <2>1, <2>4, <3>2 DEF FliesNow, Flies, Working
      <4>2. fate'[f] = "sent"
        BY <2>1, <2>2, <4>1, SentStays
      <4> QED BY <4>1, <4>2 DEF FliesNow, Flies
    <3> QED BY <3>1, <3>2
  <2>5. Carried(n)
    BY <2>3, <2>4 DEF Carried
  <2> QED BY <1>2, <1>3, <1>5, <1>6, <1>7, <1>8, <1>10, <2>1, <2>2, <2>3, <2>5, LeavingKeepsLink
<1>11. CASE mac[n].fsm = "TRANSMIT" /\ ~NeedsNoAck(mac[n])
  <2>1. /\ m3.queue = mac[n].queue /\ m3.fsm = "WAITACK" /\ m3.endAckTimeout = AckTimeout
        /\ fate' = fate /\ Current(m3) = Current(mac[n])
    BY <1>3, <1>7, <1>11 DEF Current
  <2>2. AckWanted(Current(mac[n]))
    BY <1>11 DEF NeedsNoAck, AckWanted
  <2>3. /\ Alone(n) /\ mac'[n] = m3 /\ radio'[n] = r2
        /\ \A k \in Nodes \ {n} : radio'[k] = radio[k]
    BY <1>2, <1>3, <2>1, HostAlone
  <2>4. ASSUME NEW t, AnsweredNow(n, t)
        PROVE  AnsweredNow(n, t)' /\ t = 0
    <3>1. t = 0 /\ AckTimeout - 0 = AckTimeout
      BY <1>11, <2>4, MacAssumption DEF AnsweredNow, Answered
    <3> QED BY <1>3, <2>1, <2>3, <2>4, <3>1 DEF AnsweredNow, Answered
  <2>5. ASSUME NEW f \in Frames, NEW left \in Nat, f.src = n, FliesNow(f, left)
        PROVE  FliesNow(f, left)'
    <3>1. CASE Working(mac[n], f)
      <4>1. left = 0 /\ AckWanted(f)
        BY <1>3, <1>11, <2>2, <2>5, <3>1 DEF FliesNow, Flies, Working
      <4> QED BY <2>1, <2>3, <2>5, <3>1, <4>1 DEF FliesNow, Flies, Working
    <3>2. CASE ~Working(mac[n], f)
      BY <2>1, <2>5, <3>2 DEF FliesNow, Flies
    <3> QED BY <3>1, <3>2
  <2>6. Carried(n) /\ (AnsweredNow(n, AckTrip) => AnsweredNow(n, AckTrip)')
    BY <2>4, <2>5 DEF Carried
  <2>7. QueueOK(n)' /\ AckWanted(Current(mac'[n])) /\ mac'[n].fsm = "WAITACK"
    BY <1>4, <2>1, <2>2, <2>3 DEF QueueOK
  <2>8. \A k \in Nodes : TurnOK(radio'[k]) /\ Coming(radio'[k]) \subseteq Coming(radio[k])
    BY <1>6, <2>3 DEF LinkInv
  <2>9. radio'[n].down = radio[n].down
    BY <1>5, <1>6, <2>3
  <2> QED BY <1>8, <2>3, <2>6, <2>7, <2>8, <2>9, LinkStep
<1> QED BY <1>9, <1>10, <1>11

(* One tick later.                                                          *)
LEMMA TickLater ==
    ASSUME AckTimeout > AckTrip, NicInv, LinkInv, NicTick
    PROVE  /\ fate' = fate /\ delivered' = delivered
           /\ \A k \in Nodes :
                 /\ mac'[k].queue = mac[k].queue /\ mac'[k].fsm = mac[k].fsm
                 /\ mac'[k].frameToAck = mac[k].frameToAck
                 /\ mac'[k].endSifs = Left(mac[k].endSifs) /\ mac[k].endSifs # 0
                 /\ radio'[k].down = NoFrame /\ TurnOK(radio'[k])
                 /\ \A c \in Coming(radio'[k]) :
                       /\ [frame |-> c.frame, left |-> c.left + 1] \in Coming(radio[k])
                       /\ c.left \in Nat
           /\ \A f \in Frames, left \in Nat : FliesNow(f, left + 1) => FliesNow(f, left)'
           /\ \A k \in Nodes, t \in 0..AckTrip - 1 :
                 AnsweredNow(k, t) => AnsweredNow(k, t + 1)'
<1>1. fate' = fate /\ delivered' = delivered
  BY DEF NicTick
<1>2. ASSUME NEW k \in Nodes
      PROVE  /\ mac'[k].queue = mac[k].queue /\ mac'[k].fsm = mac[k].fsm
             /\ mac'[k].frameToAck = mac[k].frameToAck
             /\ mac'[k].endSifs = Left(mac[k].endSifs)
             /\ mac'[k].endAckTimeout = Left(mac[k].endAckTimeout)
             /\ mac[k].endSifs # 0
  BY DEF NicTick, MacTick, MacTimers, NicInv, MacState
<1>3. ASSUME NEW k \in Nodes
      PROVE  /\ radio'[k].down = NoFrame /\ TurnOK(radio'[k])
             /\ radio'[k].transmissionTimer = Left(radio[k].transmissionTimer)
             /\ radio[k].transmissionTimer \in Timer /\ radio[k].transmissionTimer # 0
             /\ \A c \in Coming(radio'[k]) :
                   /\ [frame |-> c.frame, left |-> c.left + 1] \in Coming(radio[k])
                   /\ c.left \in Nat
  <2>1. radio[k] \in RadioState /\ TurnOK(radio[k])
    BY QueuedFrames
  <2>2. /\ radio'[k] = RadioTick(radio[k]) /\ RadioWaits(radio[k])
    BY DEF NicTick
  <2>3. /\ radio[k].down = NoFrame /\ radio[k].transmissionTimer # 0
        /\ radio[k].transmissionTimer \in Timer
    BY <2>1, <2>2 DEF RadioWaits, RadioState
  <2> QED BY <2>1, <2>2, <2>3, RadioTickComes
<1>4. ASSUME NEW f \in Frames, NEW left \in Nat, FliesNow(f, left + 1)
      PROVE  FliesNow(f, left)'
  <2>1. f.src \in Nodes
    BY MacAssumption
  <2>2. /\ mac[f.src].fsm = "TRANSMIT" /\ Working(mac[f.src], f)
        /\ radio[f.src].transmissionTimer = left + 1
    BY <1>4 DEF FliesNow, Flies
  <2>3. radio'[f.src].transmissionTimer = left
    BY <1>3, <2>1, <2>2 DEF Left
  <2> QED BY <1>2, <2>1, <2>2, <2>3 DEF FliesNow, Flies, Working, Current
<1>5. ASSUME NEW k \in Nodes, NEW t \in 0..AckTrip - 1, AnsweredNow(k, t)
      PROVE  AnsweredNow(k, t + 1)'
  <2>1. mac[k].fsm = "WAITACK" /\ mac[k].endAckTimeout = AckTimeout - t
    BY <1>3, <1>5 DEF AnsweredNow, Answered
  <2>2. mac'[k].endAckTimeout = AckTimeout - (t + 1)
    BY <1>2, <2>1, TripTimes, MacAssumption DEF Left
  <2> QED BY <1>1, <1>2, <1>5, <2>1, <2>2 DEF AnsweredNow, Answered, Current
<1> QED BY <1>1, <1>2, <1>3, <1>4, <1>5

LEMMA TickLink ==
    ASSUME AckTimeout > AckTrip, NicInv, NicInv', LinkInv, NicTick
    PROVE  LinkInv'
<1>1. fate' = fate /\ delivered' = delivered
  BY TickLater
<1>2. ASSUME NEW k \in Nodes
      PROVE  /\ mac'[k].queue = mac[k].queue /\ mac'[k].fsm = mac[k].fsm
             /\ mac'[k].frameToAck = mac[k].frameToAck
             /\ mac'[k].endSifs = Left(mac[k].endSifs) /\ mac[k].endSifs # 0
             /\ radio'[k].down = NoFrame /\ TurnOK(radio'[k])
             /\ QueueOK(k) /\ AwaitsOK(k) /\ MacOK(mac[k])
  BY TickLater, QueuedFrames
<1>3. \A k \in Nodes, t \in 0..AckTrip - 1 : AnsweredNow(k, t) => AnsweredNow(k, t + 1)'
  BY TickLater
<1>4. ASSUME NEW k \in Nodes
      PROVE  QueueOK(k)'
  BY <1>1, <1>2 DEF QueueOK
<1>5. ASSUME NEW k \in Nodes
      PROVE  AwaitsOK(k)'
  <2>1. mac'[k].fsm = "WAITACK" => AckWanted(Current(mac'[k]))
    BY <1>2 DEF AwaitsOK, Current
  <2>2. ASSUME mac'[k].fsm = "WAITSIFS"
        PROVE  \E j \in Nodes : \E e \in 0..SifsTime :
                  /\ mac'[k].endSifs = e /\ mac'[k].frameToAck.src = j
                  /\ AnsweredNow(j, SifsTime - e)'
    <3>1. PICK d \in 0..SifsTime : d = mac[k].endSifs /\ d # 0
      BY <1>2, <2>2 DEF AwaitsOK
    <3>2. PICK j \in Nodes : j = mac[k].frameToAck.src
      <4>1. mac[k].frameToAck \in Frames
        BY <1>2, <2>2 DEF MacOK, TimersOK, MacState
      <4> QED BY <4>1, MacAssumption
    <3>3. AnsweredNow(j, SifsTime - d)
      BY <1>2, <2>2, <3>1, <3>2 DEF AwaitsOK
    <3>4. PICK e \in 0..SifsTime : /\ e = d - 1 /\ SifsTime - d \in 0..AckTrip - 1
                                   /\ (SifsTime - d) + 1 = SifsTime - e
      BY <3>1, TripTimes
    <3>5. AnsweredNow(j, SifsTime - e)'
      BY <1>3, <3>3, <3>4
    <3>6. mac'[k].endSifs = e
      BY <1>2, <3>1, <3>4 DEF Left
    <3> QED BY <1>2, <3>2, <3>5, <3>6
  <2>3. ASSUME NEW j \in Nodes, NEW e \in 0..SifsTime,
               mac'[k].endSifs = e, mac'[k].frameToAck.src = j,
               AnsweredNow(j, SifsTime - e)'
        PROVE  /\ mac'[k].endSifs \in 0..SifsTime
               /\ AnsweredNow(mac[k].frameToAck.src, SifsTime - mac[k].endSifs)'
    BY <2>3 DEF AnsweredNow
  <2> QED BY <2>1, <2>2, <2>3 DEF AwaitsOK
<1>6. ASSUME NEW k \in Nodes
      PROVE  DownOK(k)'
  BY <1>2, NoFrameIsNoFrame DEF DownOK
<1>7. ASSUME NEW k \in Nodes, NEW c \in Coming(radio'[k])
      PROVE  ComingOK(k, c)'
  <2>1. PICK d : d = [frame |-> c.frame, left |-> c.left + 1]
    OBVIOUS
  <2>2. d \in Coming(radio[k]) /\ c.left \in Nat
    BY <1>7, <2>1, TickLater
  <2>3. d.frame = c.frame /\ d.left = c.left + 1 /\ ComingOK(k, d)
    BY <2>1, <2>2, QueuedFrames
  <2>4. /\ c.left + 1 \in 0..Duration(c.frame) /\ Duration(c.frame) \in Nat
        /\ c.frame \in Frames => c.frame.src # k /\ FliesNow(c.frame, c.left + 1)
        /\ c.frame = Ack(k) => AnsweredNow(k, AckTrip - (c.left + 1))
    BY <2>3, DurationIsPositive DEF ComingOK
  <2>5. c.left \in 0..Duration(c.frame)
    BY <2>2, <2>4
  <2>6. c.frame \in Frames => c.frame.src # k /\ FliesNow(c.frame, c.left)'
    BY <2>2, <2>4, TickLater
  <2>7. ASSUME c.frame = Ack(k)
        PROVE  AnsweredNow(k, AckTrip - c.left)'
    <3>1. PICK t \in 0..AckTrip - 1 :
             t = AckTrip - (c.left + 1) /\ t + 1 = AckTrip - c.left
      BY <2>2, <2>4, <2>7, TripTimes
    <3>2. AnsweredNow(k, t)
      BY <2>4, <2>7, <3>1
    <3>3. AnsweredNow(k, t + 1)'
      BY <1>3, <3>2
    <3> QED BY <3>1, <3>3
  <2> QED BY <2>5, <2>6, <2>7 DEF ComingOK
<1> QED BY <1>2, <1>4, <1>5, <1>6, <1>7 DEF LinkInv

LEMMA LinkInitOK == NicInit => LinkInv
<1> SUFFICES ASSUME NicInit, NEW n \in Nodes
             PROVE  /\ QueueOK(n) /\ AwaitsOK(n) /\ DownOK(n) /\ TurnOK(radio[n])
                    /\ \A c \in Coming(radio[n]) : ComingOK(n, c)
  BY DEF LinkInv
<1>1. /\ mac[n].queue = <<>> /\ mac[n].fsm = "IDLE" /\ radio[n].down = NoFrame
      /\ radio[n].arriving = {} /\ radio[n].heard = {} /\ radio[n].up = <<>>
  BY DEF NicInit, MacInit, RadioInit
<1>2. \A u : u = <<>> => Len(u) = 0 /\ DOMAIN u = {}
  OBVIOUS
<1>3. Receiving(radio[n]) = {} /\ Len(radio[n].up) = 0
  BY <1>1, <1>2 DEF Receiving
<1>4. Coming(radio[n]) = {} /\ TurnOK(radio[n])
  BY <1>1, <1>2, <1>3 DEF Coming, TurnOK
<1>5. QueueOK(n) /\ AwaitsOK(n) /\ DownOK(n)
  BY <1>1, <1>2, NoFrameIsNoFrame DEF QueueOK, QueueFine, AwaitsOK, DownOK
<1> QED BY <1>4, <1>5

LEMMA LinkStepKeeps ==
    ASSUME ~PrioritizeByUP, AckTimeout > AckTrip, NicInv, NicInv', LinkInv,
           [NicNext]_nicVars
    PROVE  LinkInv'
<1>1. CASE UNCHANGED nicVars
  BY <1>1 DEF nicVars, LinkInv, QueueOK, AwaitsOK, DownOK, ComingOK,
              FliesNow, AnsweredNow
<1>2. CASE NicTick
  BY <1>2, TickLink
<1>3. CASE NicEnd
  BY <1>1, <1>3 DEF NicEnd
<1>4. ASSUME NEW n \in Nodes, NicEvent(n)
      PROVE  LinkInv'
  <2>1. ASSUME NEW f \in Frames, QueueFrame(n, f)
        PROVE  LinkInv'
    BY <2>1, QueueFrameLink
  <2>2. ASSUME NEW f \in Frames, RefuseFrame(n, f)
        PROVE  LinkInv'
    BY <2>2, RefuseFrameLink
  <2>3. CASE EndDifs(n)
    BY <2>3, EndDifsLink
  <2>4. CASE EndBackoff(n)
    BY <2>4, EndBackoffLink
  <2>5. CASE EndAckTimeout(n)
    BY <2>5, EndAckTimeoutLink
  <2>6. CASE EndSifs(n)
    BY <2>6, EndSifsLink
  <2>7. CASE ReceiveFrame(n)
    BY <2>7, ReceiveFrameLink
  <2>8. CASE StartTransmission(n)
    BY <2>8, StartTransmissionLink
  <2>9. CASE EndTransmission(n)
    BY <2>9, EndTransmissionLink
  <2>10. CASE \/ \E a \in radio[n].arriving : \E receivable \in BOOLEAN :
                    StartReception(n, a, receivable)
              \/ \E s \in radio[n].heard : EndReception(n, s)
    BY <2>10, ReceptionLink
  <2> QED BY <1>4, <2>1, <2>2, <2>3, <2>4, <2>5, <2>6, <2>7, <2>8, <2>9, <2>10
          DEF NicEvent
<1> QED BY <1>1, <1>2, <1>3, <1>4 DEF NicNext
-----------------------------------------------------------------------------
(* Every event is a step of the link, or none.                              *)

LEMMA LinkStutters ==
    ASSUME \A k \in Nodes : mac'[k].queue = mac[k].queue,
           fate' = fate, delivered' = delivered
    PROVE  UNCHANGED Service!linkVars
  BY DEF Service!linkVars

LEMMA PendingAt ==
    ASSUME NicInv, NEW n \in Nodes, NEW m2, mac' = [mac EXCEPT ![n] = m2]
    PROVE  /\ [k \in Nodes |-> mac'[k].queue]
                 = [[k \in Nodes |-> mac[k].queue] EXCEPT ![n] = m2.queue]
           /\ m2.queue = mac[n].queue => \A k \in Nodes : mac'[k].queue = mac[k].queue
<1>1. mac'[n] = m2 /\ \A k \in Nodes \ {n} : mac'[k] = mac[k]
  BY DEF NicInv
<1>2. PICK p : p = [k \in Nodes |-> mac[k].queue]
  OBVIOUS
<1>3. PICK p2 : p2 = [k \in Nodes |-> mac'[k].queue]
  OBVIOUS
<1>4. PICK q : q = m2.queue
  OBVIOUS
<1>5. p2[n] = q /\ \A k \in Nodes \ {n} : p2[k] = p[k]
  BY <1>1, <1>2, <1>3, <1>4
<1>6. p2 = [k \in Nodes |-> p2[k]] /\ p = [k \in Nodes |-> p[k]]
  BY <1>2, <1>3
<1>7. p2 = [p EXCEPT ![n] = q]
  BY <1>5, <1>6
<1>8. m2.queue = mac[n].queue => \A k \in Nodes : mac'[k].queue = mac[k].queue
  BY <1>1
<1> QED BY <1>2, <1>3, <1>4, <1>7, <1>8

(* A frame that leaves the queue of its sender.                             *)
LEMMA SettledByLink ==
    ASSUME NicInv, LinkInv, NEW n \in Nodes, mac[n].queue # <<>>,
           NEW m2, mac' = [mac EXCEPT ![n] = m2], m2.queue = Tail(mac[n].queue),
           NEW f, f = Current(mac[n]),
           NEW how \in {"acknowledged", "given up", "sent"}, Settle(n, how),
           how = "sent" <=> ~AckWanted(f),
           how = "acknowledged" => f.dst \in delivered[f],
           delivered' = delivered
    PROVE  Service!LinkNext
<1>1. f \in Frames /\ f.src = n
  BY QueuedFrames
<1>2. Service!InTurn(f)
  BY <1>1 DEF Service!InTurn, Current
<1>3. (CASE how = "acknowledged" -> Service!NeedsAck(f) /\ f.dst \in delivered[f]
         [] how = "given up" -> Service!NeedsAck(f)
         [] how = "sent" -> ~Service!NeedsAck(f))
  BY DEF Service!NeedsAck, AckWanted
<1>4. [k \in Nodes |-> mac'[k].queue]
         = [[k \in Nodes |-> mac[k].queue] EXCEPT ![f.src] = Tail(@)]
  <2>1. [k \in Nodes |-> mac'[k].queue]
           = [[k \in Nodes |-> mac[k].queue] EXCEPT ![n] = m2.queue]
    BY PendingAt
  <2>2. m2.queue = Tail([k \in Nodes |-> mac[k].queue][f.src]) /\ f.src = n
    BY <1>1
  <2> QED BY <2>1, <2>2, Zenon
<1>5. Service!Settled(f, how)
  BY <1>2, <1>3, <1>4 DEF Service!Settled, Settle
<1> QED BY <1>1, <1>5 DEF Service!LinkNext

LEMMA QueueFrameAccepts ==
    ASSUME ~PrioritizeByUP, NicInv, LinkInv, NEW n \in Nodes, NEW f \in Frames,
           QueueFrame(n, f)
    PROVE  Service!LinkNext
<1>1. PICK m2 \in UpperFrame(mac[n], f, Rx(n)) : mac' = [mac EXCEPT ![n] = m2]
  BY DEF QueueFrame
<1>2. m2.queue = Append(mac[n].queue, f)
  BY <1>1, QueuedFrames, UpperFrameJoins
<1>3. [k \in Nodes |-> mac'[k].queue]
         = [[k \in Nodes |-> mac[k].queue] EXCEPT ![f.src] = Append(@, f)]
  <2>1. [k \in Nodes |-> mac'[k].queue]
           = [[k \in Nodes |-> mac[k].queue] EXCEPT ![n] = m2.queue]
    BY <1>1, PendingAt
  <2>2. m2.queue = Append([k \in Nodes |-> mac[k].queue][f.src], f) /\ f.src = n
    BY <1>2 DEF QueueFrame
  <2> QED BY <2>1, <2>2, Zenon
<1>4. Service!Accept(f)
  BY <1>3 DEF Service!Accept, QueueFrame
<1> QED BY <1>4 DEF Service!LinkNext

LEMMA RefuseFrameRefuses ==
    ASSUME NEW n \in Nodes, NEW f \in Frames, RefuseFrame(n, f)
    PROVE  Service!LinkNext
<1>1. Service!Refuse(f)
  BY DEF Service!Refuse, RefuseFrame
<1> QED BY <1>1 DEF Service!LinkNext

LEMMA EndAckTimeoutGivesUp ==
    ASSUME NicInv, LinkInv, NEW n \in Nodes, EndAckTimeout(n)
    PROVE  Service!LinkNext \/ UNCHANGED Service!linkVars
<1>1. PICK m2 \in AckOverdue(mac[n], Rx(n)) : mac' = [mac EXCEPT ![n] = m2]
  BY DEF EndAckTimeout
<1>2. MacOK(mac[n]) /\ mac[n].endAckTimeout = 0 /\ AwaitsOK(n)
  BY QueuedFrames DEF EndAckTimeout
<1>3. /\ mac[n].fsm = "WAITACK"
      /\ m2.queue = IF GivesUp(mac[n]) THEN Tail(mac[n].queue) ELSE mac[n].queue
  BY <1>1, <1>2, AckOverdueFrees
<1>4. mac[n].queue # <<>> /\ AckWanted(Current(mac[n]))
  BY <1>2, <1>3 DEF MacOK, AwaitsOK
<1>5. CASE GivesUp(mac[n])
  <2>1. Settle(n, "given up") /\ delivered' = delivered
    BY <1>5 DEF EndAckTimeout
  <2>2. m2.queue = Tail(mac[n].queue)
    BY <1>3, <1>5
  <2> QED BY <1>1, <1>4, <2>1, <2>2, SettledByLink
<1>6. CASE ~GivesUp(mac[n])
  <2>1. fate' = fate /\ delivered' = delivered /\ m2.queue = mac[n].queue
    BY <1>3, <1>6 DEF EndAckTimeout
  <2> QED BY <1>1, <2>1, PendingAt, LinkStutters
<1> QED BY <1>5, <1>6

LEMMA ReceiveFrameDelivers ==
    ASSUME NicInv, LinkInv, NEW n \in Nodes, ReceiveFrame(n)
    PROVE  Service!LinkNext \/ UNCHANGED Service!linkVars
<1>1. PICK f : f = Head(radio[n].up).frame
  OBVIOUS
<1>2. PICK bitError : bitError = Head(radio[n].up).bitError
  OBVIOUS
<1>3. PICK m2 \in LowerFrame(n, mac[n], f, bitError, Rx(n)) : mac' = [mac EXCEPT ![n] = m2]
  BY <1>1, <1>2 DEF ReceiveFrame
<1>4. mac[n] \in MacState /\ MacOK(mac[n]) /\ radio[n].up # <<>>
  BY QueuedFrames DEF ReceiveFrame
<1>5. /\ f \in AllFrames /\ (f \in Frames => f.src # n /\ FliesNow(f, 0))
      /\ f = Ack(n) => AnsweredNow(n, AckTrip)
  BY <1>1, <1>4, UpFrame
<1>6. CASE Acknowledged(n, mac[n], f)
  <2>1. mac[n].fsm = "WAITACK" /\ AnsweredNow(n, AckTrip)
    BY <1>5, <1>6 DEF Acknowledged
  <2>2. /\ mac[n].queue # <<>> /\ AckWanted(Current(mac[n]))
        /\ Current(mac[n]).dst \in delivered[Current(mac[n])]
    BY <2>1 DEF AnsweredNow, Answered
  <2>3. m2.queue = Tail(mac[n].queue)
    BY <1>3, <1>4, <1>6, LowerFrameTakes
  <2>4. Settle(n, "acknowledged") /\ delivered' = delivered
    BY <1>1, <1>2, <1>6, <2>1 DEF ReceiveFrame, PassesUp
  <2> QED BY <1>3, <2>2, <2>3, <2>4, SettledByLink
<1>7. CASE ~Acknowledged(n, mac[n], f)
  <2>1. m2.queue = mac[n].queue
    BY <1>3, <1>4, <1>7, LowerFrameTakes DEF Stays
  <2>2. /\ fate' = fate /\ \A k \in Nodes : mac'[k].queue = mac[k].queue
        /\ [k \in Nodes |-> mac'[k].queue] = [k \in Nodes |-> mac[k].queue]
    <3>1. \A k \in Nodes : mac'[k].queue = mac[k].queue
      BY <1>3, <2>1, PendingAt
    <3>2. fate' = fate
      BY <1>1, <1>7 DEF ReceiveFrame
    <3> QED BY <3>1, <3>2
  <2>3. CASE ~PassesUp(n, mac[n], f, bitError)
    <3>1. delivered' = delivered
      BY <1>1, <1>2, <2>3 DEF ReceiveFrame
    <3> QED BY <2>2, <3>1, LinkStutters
  <2>4. CASE PassesUp(n, mac[n], f, bitError)
    <3>1. f \in Frames /\ f.dst \in {n, Broadcast} /\ f.src # n /\ FliesNow(f, 0)
      BY <1>5, <2>4, PassesUpData
    <3>2. delivered' = [delivered EXCEPT ![f] = @ \cup {n}]
      BY <1>1, <1>2, <2>4 DEF ReceiveFrame
    <3>3. f.src \in Nodes
      BY <3>1, MacAssumption
    <3>4. CASE AckWanted(f)
      <4>1. Working(mac[f.src], f)
        BY <3>1, <3>4, DeliveredInTurn
      <4>2. Service!InTurn(f) /\ Service!NeedsAck(f)
        BY <3>3, <3>4, <4>1
        DEF Service!InTurn, Service!NeedsAck, Working, Current, AckWanted
      <4>3. Service!Deliver(f, n)
        BY <2>2, <3>1, <3>2, <4>2 DEF Service!Deliver
      <4> QED BY <3>1, <4>3 DEF Service!LinkNext
    <3>5. CASE ~AckWanted(f)
      <4>1. fate[f] \in {"queued", "sent"}
        <5>1. Working(mac[f.src], f) => fate[f] = "queued"
          BY <3>3, QueuedFrames DEF Working
        <5> QED BY <3>1, <5>1 DEF FliesNow, Flies
      <4>2. ~Service!NeedsAck(f)
        BY <3>5 DEF Service!NeedsAck, AckWanted
      <4>3. Service!Deliver(f, n)
        BY <2>2, <3>1, <3>2, <4>1, <4>2 DEF Service!Deliver
      <4> QED BY <3>1, <4>3 DEF Service!LinkNext
    <3> QED BY <3>4, <3>5
  <2> QED BY <2>3, <2>4
<1> QED BY <1>6, <1>7

LEMMA EndTransmissionSends ==
    ASSUME NicInv, LinkInv, NEW n \in Nodes, EndTransmission(n)
    PROVE  Service!LinkNext \/ UNCHANGED Service!linkVars
<1>0. PICK m2 \in DataOver(mac[n], "UNDEFINED") :
         \E m3 \in MediumChange(m2, ReceptionState(TransmissionOver(radio[n]))) :
           mac' = [mac EXCEPT ![n] = m3]
  BY DEF EndTransmission
<1>1. PICK m3 \in MediumChange(m2, ReceptionState(TransmissionOver(radio[n]))) :
         mac' = [mac EXCEPT ![n] = m3]
  BY <1>0
<1>2. /\ delivered' = delivered /\ radio[n].transmissionTimer = 0
      /\ IF NeedsNoAck(mac[n]) THEN Settle(n, "sent") ELSE fate' = fate
  BY DEF EndTransmission
<1>3. MacOK(mac[n]) /\ RadioOK(radio[n])
  BY QueuedFrames
<1>4. mac[n].fsm \in {"TRANSMIT", "IDLE", "DEFER"}
  <2>1. radio[n].mode = "TRANSMITTER"
    BY <1>2, <1>3 DEF RadioOK, NotScheduled
  <2> QED BY <2>1, HostBefore
<1>5. /\ mac[n].fsm # "TRANSMIT" => Stays(mac[n], m3)
      /\ NeedsNoAck(mac[n]) => m3.queue = Tail(mac[n].queue)
      /\ mac[n].fsm = "TRANSMIT" /\ ~NeedsNoAck(mac[n]) => m3.queue = mac[n].queue
  BY <1>1, <1>3, <1>4, DataOverThen
<1>6. CASE NeedsNoAck(mac[n])
  <2>1. mac[n].queue # <<>> /\ ~AckWanted(Current(mac[n]))
    BY <1>3, <1>6 DEF NeedsNoAck, MacOK, AckWanted
  <2>2. Settle(n, "sent") /\ m3.queue = Tail(mac[n].queue)
    BY <1>2, <1>5, <1>6
  <2> QED BY <1>1, <1>2, <2>1, <2>2, SettledByLink
<1>7. CASE ~NeedsNoAck(mac[n])
  <2>1. m3.queue = mac[n].queue /\ fate' = fate
    BY <1>2, <1>5, <1>7 DEF Stays
  <2> QED BY <1>1, <1>2, <2>1, PendingAt, LinkStutters
<1> QED BY <1>6, <1>7

(* The events that settle and deliver nothing.                              *)
LEMMA SilentEvents ==
    ASSUME NicInv, LinkInv, NEW n \in Nodes,
           \/ EndDifs(n) \/ EndBackoff(n) \/ EndSifs(n) \/ StartTransmission(n)
           \/ \E a \in radio[n].arriving : \E receivable \in BOOLEAN :
                 StartReception(n, a, receivable)
           \/ \E s \in radio[n].heard : EndReception(n, s)
    PROVE  UNCHANGED Service!linkVars
<1>1. mac[n] \in MacState /\ MacOK(mac[n])
  BY QueuedFrames
<1>2. fate' = fate /\ delivered' = delivered
  BY DEF EndDifs, EndBackoff, EndSifs, StartTransmission, StartReception, EndReception
<1>3. CASE EndDifs(n)
  <2>1. PICK m2 \in DifsOver(mac[n], Rx(n)) : mac' = [mac EXCEPT ![n] = m2]
    BY <1>3 DEF EndDifs
  <2>2. m2.queue = mac[n].queue
    BY <1>1, <1>3, <2>1, FiresIn, DifsOverStays DEF EndDifs, Stays
  <2> QED BY <1>2, <2>1, <2>2, PendingAt, LinkStutters
<1>4. CASE EndBackoff(n)
  <2>1. PICK m2 \in BackoffOver(mac[n], Rx(n)) : mac' = [mac EXCEPT ![n] = m2]
    BY <1>4 DEF EndBackoff
  <2>2. m2.queue = mac[n].queue
    BY <1>1, <1>4, <2>1, FiresIn, BackoffOverSends DEF EndBackoff
  <2> QED BY <1>2, <2>1, <2>2, PendingAt, LinkStutters
<1>5. CASE EndSifs(n)
  <2>1. PICK rx, m2 : m2 \in SifsOver(mac[n], rx) /\ mac' = [mac EXCEPT ![n] = m2]
    BY <1>5 DEF EndSifs
  <2>2. m2.queue = mac[n].queue
    BY <1>1, <1>5, <2>1, SifsOverFrees DEF EndSifs
  <2> QED BY <1>2, <2>1, <2>2, PendingAt, LinkStutters
<1>6. CASE StartTransmission(n)
  <2>1. mac' = mac
    BY <1>6 DEF StartTransmission
  <2> QED BY <1>2, <2>1, LinkStutters
<1>7. ASSUME NEW r2, Notify(n, r2)
      PROVE  UNCHANGED Service!linkVars
  <2>1. CASE ReceptionState(r2) # Rx(n)
    <3>1. PICK m2 \in MediumChange(mac[n], ReceptionState(r2)) : mac' = [mac EXCEPT ![n] = m2]
      BY <1>7, <2>1 DEF Notify
    <3>2. m2.queue = mac[n].queue
      BY <1>1, <3>1, MediumChangeStays DEF Stays
    <3> QED BY <1>2, <3>1, <3>2, PendingAt, LinkStutters
  <2>2. CASE ReceptionState(r2) = Rx(n)
    BY <1>2, <1>7, <2>2, LinkStutters DEF Notify
  <2> QED BY <2>1, <2>2
<1>8. CASE \/ \E a \in radio[n].arriving : \E receivable \in BOOLEAN :
                 StartReception(n, a, receivable)
           \/ \E s \in radio[n].heard : EndReception(n, s)
  <2>1. PICK r2 : Notify(n, r2)
    BY <1>8 DEF StartReception, EndReception
  <2> QED BY <1>7, <2>1
<1> QED BY <1>3, <1>4, <1>5, <1>6, <1>8

LEMMA LinkStepSimulates ==
    ASSUME ~PrioritizeByUP, NicInv, LinkInv, [NicNext]_nicVars
    PROVE  [Service!LinkNext]_(Service!linkVars)
<1>1. CASE UNCHANGED nicVars
  BY <1>1, LinkStutters DEF nicVars
<1>2. CASE NicTick
  <2>1. \A k \in Nodes : mac'[k].queue = mac[k].queue
    BY <1>2 DEF NicTick, MacTick, NicInv, MacState
  <2> QED BY <1>2, <2>1, LinkStutters DEF NicTick
<1>3. CASE NicEnd
  BY <1>1, <1>3 DEF NicEnd
<1>4. ASSUME NEW n \in Nodes, NicEvent(n)
      PROVE  Service!LinkNext \/ UNCHANGED Service!linkVars
  <2>1. CASE \E f \in Frames : QueueFrame(n, f) \/ RefuseFrame(n, f)
    BY <2>1, QueueFrameAccepts, RefuseFrameRefuses
  <2>2. CASE EndAckTimeout(n)
    BY <2>2, EndAckTimeoutGivesUp
  <2>3. CASE ReceiveFrame(n)
    BY <2>3, ReceiveFrameDelivers
  <2>4. CASE EndTransmission(n)
    BY <2>4, EndTransmissionSends
  <2>5. CASE \/ EndDifs(n) \/ EndBackoff(n) \/ EndSifs(n) \/ StartTransmission(n)
             \/ \E a \in radio[n].arriving : \E receivable \in BOOLEAN :
                   StartReception(n, a, receivable)
             \/ \E s \in radio[n].heard : EndReception(n, s)
    BY <2>5, SilentEvents
  <2> QED BY <1>4, <2>1, <2>2, <2>3, <2>4, <2>5 DEF NicEvent
<1> QED BY <1>1, <1>2, <1>3, <1>4 DEF NicNext

LEMMA LinkInitMaps == NicInit => Service!LinkInit
<1> SUFFICES ASSUME NicInit PROVE Service!LinkInit
  OBVIOUS
<1>1. \A n \in Nodes : mac[n].queue = <<>>
  BY DEF NicInit, MacInit
<1>2. [n \in Nodes |-> mac[n].queue] = [n \in Nodes |-> <<>>]
  BY <1>1
<1> QED BY <1>2 DEF Service!LinkInit, NicInit

(* The MACs and radios keep what Link promises: where queues keep the order *)
(* of arrival and an acknowledgement that is sent at once returns before    *)
(* ackTimeout, a frame whose MAC reports it acknowledged has been delivered *)
(* to its receiver, whatever collides and fades; each is delivered only in  *)
(* its turn, to whom it is addressed, and settled in the order of arrival   *)
(* (handleWithFsm() with Receive-Ack, which does not look at the sender of  *)
(* an acknowledgement nor at its bit errors).                               *)
THEOREM NicImplementsLink ==
    ASSUME ~PrioritizeByUP, AckTimeout > SifsTime + AckTime
    PROVE  NicSpec => ImplementsLink
<1>1. AckTimeout > AckTrip
  BY DEF AckTrip
<1>2. NicInit => NicInv /\ LinkInv /\ Service!LinkInit
  BY NicInitOK, LinkInitOK, LinkInitMaps
<1>3. NicInv /\ LinkInv /\ [NicNext]_nicVars => (NicInv /\ LinkInv)'
  BY <1>1, NicStepKeeps, LinkStepKeeps
<1>4. NicInv /\ LinkInv /\ [NicNext]_nicVars => [Service!LinkNext]_(Service!linkVars)
  BY LinkStepSimulates
<1> QED BY <1>2, <1>3, <1>4, PTL DEF NicSpec, ImplementsLink, Service!LinkSpec
=============================================================================
