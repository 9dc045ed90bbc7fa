------------------------------ MODULE AckProofs ------------------------------
(***************************************************************************)
(* Proof that an acknowledgement meets no other signal where every host    *)
(* hears every other.  The first invariant relates the signals at a host   *)
(* to who sends them; the second says who keeps off the medium from the    *)
(* end of a frame to the end of its acknowledgement, and for how long.     *)
(***************************************************************************)
EXTENDS LinkProofs

(* A MAC that sends nothing within so many ticks and does not start to wait *)
(* for its acknowledgement.                                                 *)
CalmMac(m, gap) ==
    \/ m.fsm \in {"IDLE", "DEFER", "RECEIVE"}
    \/ m.fsm = "WAITDIFS" /\ m.endDifs >= gap
    \/ m.fsm = "WAITACK" /\ m.endAckTimeout < AckTimeout

Calm(m, r, gap) ==
    CalmMac(m, gap) /\ r.down = NoFrame /\ r.transmissionTimer = NotScheduled

(* All hosts but the busy ones leave the medium alone.                      *)
Still(busy, gap) ==
    /\ UseAck /\ gap \in 1..DifsTime
    /\ \A k \in Nodes \ busy : Calm(mac[k], radio[k], gap)

Hushed(r) == r.arriving = {} /\ r.heard = {}

Exchange(to, busy, gap) == Hushed(radio[to]) /\ Still(busy, gap)

(* Host d answers f, if it is whole.                                        *)
Answers(d, f) == UseAck /\ f \in Frames /\ f.dst = d

(* From the end of a frame to the start of its acknowledgement the host     *)
(* that waits for it hears nothing, and nobody else is about to send.       *)
Protects(d, m, r) ==
    /\ \A s \in Receiving(r) :
          s.clean /\ s.left < DataTime /\ Answers(d, s.frame) =>
             Exchange(s.frame.src, {s.frame.src}, DifsTime)
    /\ \A i \in DOMAIN r.up :
          ~r.up[i].bitError /\ Answers(d, r.up[i].frame) =>
             Exchange(r.up[i].frame.src, {r.up[i].frame.src}, DifsTime)
    /\ m.fsm = "WAITSIFS" =>
          Exchange(m.frameToAck.src, {m.frameToAck.src, d},
                   (DifsTime - SifsTime) + m.endSifs)
    /\ \A k \in Nodes :
          r.down = Ack(k) => Exchange(k, {k, d}, DifsTime - SifsTime)

(* The host that sends an acknowledgement to n, until it has finished.      *)
Ends(k, n) == radio[k].sending = Ack(n) \/ Calm(mac[k], radio[k], 1)

Undisturbed(n, r) ==
    /\ \A a \in r.arriving :
          a.frame = Ack(n) =>
             r.heard = {} /\ r.arriving = {a} /\ Still({n, a.src}, 1)
    /\ \A s \in r.heard :
          s.frame = Ack(n) =>
             s.clean /\ r.arriving = {} /\ Still({n, s.src}, 1) /\ Ends(s.src, n)

GuardInv == \A n \in Nodes : Protects(n, mac[n], radio[n]) /\ Undisturbed(n, radio[n])

(* The time-out of an acknowledgement that is waited for.                   *)
Waits(m) == m.fsm = "WAITACK" => m.endAckTimeout <= AckTimeout

(* A signal that has met no other is heard alone.                           *)
CleanAlone(r) == \A s \in r.heard : s.clean => r.heard = {s}

(* What a host knows of its own signals.                                    *)
HostAir(m, r) ==
    /\ Receiving(r) # {} => r.mode = "RECEIVER"
    /\ r.transmissionTimer = NotScheduled => r.sending = NoFrame
    /\ m.fsm = "TRANSMIT" => \A k \in Nodes : r.down # Ack(k) /\ r.sending # Ack(k)
    /\ Waits(m) /\ CleanAlone(r)

(* A signal lasts as long as its sender sends it.                           *)
SentBy(k, f, left) ==
    radio[k].sending = f /\ radio[k].transmissionTimer = left

SignalsOK(n, r) ==
    /\ \A a \in r.arriving :
          /\ a.src # n /\ (a.frame \in Frames => a.frame.src = a.src)
          /\ SentBy(a.src, a.frame, Duration(a.frame))
    /\ \A s \in r.heard :
          /\ s.src # n /\ (s.frame \in Frames => s.frame.src = s.src)
          /\ s.left > 0 => SentBy(s.src, s.frame, s.left)

(* and every other host hears it.                                           *)
Reaches(k, r) ==
    radio[k].transmissionTimer > 0 =>
       \/ \E a \in r.arriving : a.src = k
       \/ \E s \in r.heard : s.src = k /\ s.left = radio[k].transmissionTimer

AirInv ==
    \A n \in Nodes :
        /\ HostAir(mac[n], radio[n]) /\ SignalsOK(n, radio[n])
        /\ \A k \in Nodes \ {n} : Reaches(k, radio[n])
-----------------------------------------------------------------------------
(* The MAC: what it does keeps it calm, unless it is to acknowledge.        *)

LEMMA ContendCalm ==
    ASSUME UseAck, NEW m \in MacState, NEW rx, NEW m2 \in Contend(m, rx),
           NEW gap \in 1..DifsTime
    PROVE  CalmMac(m2, gap)
<1>1. CASE rx # "IDLE"
  <2>1. m2.fsm = "DEFER"
    BY <1>1 DEF Contend, Enter, MacState
  <2> QED BY <2>1 DEF CalmMac
<1>2. CASE rx = "IDLE"
  <2>1. m2.fsm = "WAITDIFS" /\ m2.endDifs = DifsTime
    BY <1>2 DEF Contend, EnterWaitDifs, MacState
  <2> QED BY <2>1, MacAssumption DEF CalmMac
<1> QED BY <1>1, <1>2

LEMMA AfterEventCalm ==
    ASSUME UseAck, NEW m \in MacState, NEW rx, NEW m2 \in AfterEvent(m, rx),
           NEW gap \in 1..DifsTime, CalmMac(m, gap)
    PROVE  CalmMac(m2, gap)
<1>1. CASE m.fsm = "IDLE" /\ rx = "RECEIVING"
  <2>1. m2.fsm = "RECEIVE"
    BY <1>1 DEF AfterEvent, Enter, MacState
  <2> QED BY <2>1 DEF CalmMac
<1>2. CASE m.fsm = "IDLE" /\ rx # "RECEIVING" /\ m.queue # <<>>
  BY <1>2, ContendCalm DEF AfterEvent
<1>3. CASE ~(m.fsm = "IDLE" /\ rx = "RECEIVING")
           /\ ~(m.fsm = "IDLE" /\ rx # "RECEIVING" /\ m.queue # <<>>)
  <2>1. m2 = m
    BY <1>3 DEF AfterEvent
  <2> QED BY <2>1
<1> QED BY <1>1, <1>2, <1>3

LEMMA ToIdleCalm ==
    ASSUME UseAck, NEW m \in MacState, NEW rx, NEW m2 \in ToIdle(m, rx),
           NEW gap \in 1..DifsTime
    PROVE  CalmMac(m2, gap)
<1>1. Enter(m, "IDLE") \in MacState /\ Enter(m, "IDLE").fsm = "IDLE"
  BY DEF Enter, MacState, States
<1> QED BY <1>1, AfterEventCalm DEF ToIdle, CalmMac

LEMMA MediumChangeCalm ==
    ASSUME UseAck, NEW m \in MacState, NEW rx, NEW m2 \in MediumChange(m, rx),
           NEW gap \in 1..DifsTime, CalmMac(m, gap)
    PROVE  CalmMac(m2, gap)
<1>2. \A s : Enter(Paused(m), s).fsm = s
  BY DEF Enter, Paused, MacState
<1>3. CASE rx = "RECEIVING" /\ m.fsm \in {"IDLE", "DEFER", "WAITDIFS", "BACKOFF"}
  <2>1. m2 = Enter(Paused(m), "RECEIVE")
    BY <1>3 DEF MediumChange
  <2> QED BY <1>2, <2>1 DEF CalmMac
<1>4. CASE rx = "IDLE" /\ m.fsm = "DEFER"
  <2>1. m2 \in Contend(m, rx)
    BY <1>4 DEF MediumChange
  <2> QED BY <2>1, ContendCalm
<1>5. CASE rx \notin {"RECEIVING", "IDLE"} /\ m.fsm \in {"WAITDIFS", "BACKOFF"}
  <2>1. m2 = Enter(Paused(m), "DEFER")
    BY <1>5 DEF MediumChange
  <2> QED BY <1>2, <2>1 DEF CalmMac
<1>6. CASE ~(rx = "RECEIVING" /\ m.fsm \in {"IDLE", "DEFER", "WAITDIFS", "BACKOFF"})
           /\ ~(rx = "IDLE" /\ m.fsm = "DEFER")
           /\ ~(rx \notin {"RECEIVING", "IDLE"} /\ m.fsm \in {"WAITDIFS", "BACKOFF"})
  <2>1. m2 \in AfterEvent(m, rx)
    BY <1>6 DEF MediumChange
  <2> QED BY <2>1, AfterEventCalm
<1> QED BY <1>3, <1>4, <1>5, <1>6

LEMMA UpperFrameCalm ==
    ASSUME UseAck, NEW m \in MacState, NEW f \in Frames, NEW rx,
           NEW m2 \in UpperFrame(m, f, rx), NEW gap \in 1..DifsTime, CalmMac(m, gap)
    PROVE  CalmMac(m2, gap)
<1> DEFINE queued == [m EXCEPT !.queue = Insert(@, f)]
<1>1. queued \in MacState
  BY InsertOK DEF MacState
<1>2. CASE m.fsm = "IDLE"
  BY <1>1, <1>2, ContendCalm DEF UpperFrame
<1>3. CASE m.fsm # "IDLE"
  <2>1. m2 = queued
    BY <1>3 DEF UpperFrame
  <2> QED BY <2>1 DEF CalmMac, MacState
<1> QED BY <1>2, <1>3

LEMMA AckOverdueCalm ==
    ASSUME UseAck, NEW m, MacOK(m), m.endAckTimeout = 0, NEW rx,
           NEW m2 \in AckOverdue(m, rx), NEW gap \in 1..DifsTime
    PROVE  CalmMac(m2, gap)
<1>1. m.fsm = "WAITACK" /\ m \in MacState /\ m.queue # <<>>
  BY FiresIn DEF MacOK
<1>2. PICK fired : fired = [m EXCEPT !.endAckTimeout = NotScheduled]
  OBVIOUS
<1>3. fired \in MacState /\ fired.queue = m.queue
  BY <1>1, <1>2 DEF MacState, Timer
<1>4. CASE GivesUp(m)
  <2>1. m2 \in ToIdle(Finish(fired), rx)
    BY <1>2, <1>4 DEF AckOverdue
  <2> QED BY <1>1, <1>3, <2>1, FinishTakes, ToIdleCalm
<1>5. CASE ~GivesUp(m)
  <2>1. PICK c : c = [fired EXCEPT !.retryCounter = @ + 1]
    OBVIOUS
  <2>2. PICK b \in GenerateBackoff(c) : m2 \in ToIdle(b, rx)
    BY <1>1, <1>2, <1>5, <2>1 DEF AckOverdue
  <2>3. fired.retryCounter + 1 \in Nat
    BY <1>3 DEF MacState
  <2>4. c \in MacState
    BY <1>3, <2>1, <2>3 DEF MacState
  <2>5. PICK s \in Nat : b = [c EXCEPT !.backoffPeriod = s]
    BY <2>2, DrawsAreSlots DEF GenerateBackoff
  <2>6. b \in MacState
    BY <2>4, <2>5 DEF MacState
  <2> QED BY <2>2, <2>6, ToIdleCalm
<1> QED BY <1>4, <1>5

LEMMA LowerFrameCalm ==
    ASSUME UseAck, NEW n, NEW m, MacOK(m), NEW f, NEW bitError, NEW rx,
           NEW m2 \in LowerFrame(n, m, f, bitError, rx),
           ~(PassesUp(n, m, f, bitError) /\ AckWanted(f)),
           NEW gap \in 1..DifsTime, CalmMac(m, gap)
    PROVE  CalmMac(m2, gap)
<1>1. m \in MacState
  BY DEF MacOK
<1>2. CASE Acknowledged(n, m, f)
  <2>1. m.fsm = "WAITACK" /\ m.queue # <<>>
    BY <1>2 DEF Acknowledged, MacOK
  <2>2. PICK g : g = [Finish(m) EXCEPT !.endAckTimeout = NotScheduled]
    OBVIOUS
  <2>3. g \in MacState
    BY <1>1, <2>1, <2>2, FinishTakes DEF MacState, Timer
  <2>4. m2 \in ToIdle(g, rx)
    BY <1>2, <2>2 DEF LowerFrame
  <2> QED BY <2>3, <2>4, ToIdleCalm
<1>3. CASE ~Acknowledged(n, m, f) /\ m.fsm = "RECEIVE"
  <2>1. m2 \in ToIdle(Reset(m), rx)
    BY <1>3 DEF LowerFrame, AckWanted
  <2>2. Reset(m) \in MacState
    BY <1>1 DEF Reset, MacState
  <2> QED BY <2>1, <2>2, ToIdleCalm
<1>4. CASE ~Acknowledged(n, m, f) /\ m.fsm # "RECEIVE"
  <2>1. m2 \in AfterEvent(m, rx)
    BY <1>4 DEF LowerFrame, AckWanted, PassesUp
  <2> QED BY <1>1, <2>1, AfterEventCalm
<1> QED BY <1>2, <1>3, <1>4

(* The MAC whose radio has sent an acknowledgement.                         *)
LEMMA AckSentCalm ==
    ASSUME UseAck, NEW m, MacOK(m), m.fsm \in {"IDLE", "DEFER"},
           NEW m2 \in DataOver(m, "UNDEFINED"), NEW rx, NEW m3 \in MediumChange(m2, rx),
           NEW gap \in 1..DifsTime
    PROVE  CalmMac(m3, gap)
<1>1. m2 \in AfterEvent(m, "UNDEFINED")
  BY DEF DataOver, NeedsNoAck
<1>2. m2 \in MacState
  BY DataOverOK DEF MacOK
<1>3. CalmMac(m2, gap)
  BY <1>1, AfterEventCalm DEF CalmMac, MacOK
<1> QED BY <1>2, <1>3, MediumChangeCalm

(* No event starts to wait or to send by the way.                           *)
LEMMA EngagedStays ==
    ASSUME NEW m, NEW m2, Waits(m), Stays(m, m2) \/ m2.fsm \notin Engaged
    PROVE  /\ Waits(m2)
           /\ m2.fsm = "TRANSMIT" => m.fsm = "TRANSMIT"
  BY DEF Waits, Stays, Engaged
-----------------------------------------------------------------------------
(* The radio: the signals that its operators leave.                         *)

LEMMA SwitchSignals ==
    ASSUME NEW r \in RadioState, NEW f, NEW d, d = HandDown(r, f)
    PROVE  /\ d.arriving = r.arriving /\ d.up = r.up /\ d.down = f
           /\ d.sending = r.sending /\ d.transmissionTimer = r.transmissionTimer
           /\ d.mode = "TRANSMITTER" /\ Receiving(d) = {}
           /\ r.heard = {} => d.heard = {}
           /\ \A t \in d.heard : \E s \in r.heard :
                 /\ t.src = s.src /\ t.frame = s.frame /\ t.left = s.left
                 /\ t.clean = s.clean
           /\ \A s \in r.heard : \E t \in d.heard : t.src = s.src /\ t.left = s.left
           /\ CleanAlone(r) => CleanAlone(d)
<1>1. /\ d.arriving = r.arriving /\ d.up = r.up /\ d.down = f
      /\ d.sending = r.sending /\ d.transmissionTimer = r.transmissionTimer
      /\ d.mode = "TRANSMITTER"
      /\ d.heard = {[s EXCEPT !.attempted = FALSE] : s \in r.heard}
  BY DEF HandDown, SwitchToTransmitter, RadioState
<1>2. ASSUME NEW s \in r.heard, NEW t, t = [s EXCEPT !.attempted = FALSE]
      PROVE  /\ t.src = s.src /\ t.frame = s.frame /\ t.left = s.left
             /\ t.clean = s.clean /\ t.attempted = FALSE /\ t \in d.heard
  BY <1>1, <1>2 DEF RadioState, Signal
<1>3. ASSUME NEW t \in d.heard
      PROVE  \E s \in r.heard : t = [s EXCEPT !.attempted = FALSE]
  BY <1>1
<1>4. Receiving(d) = {}
  BY <1>2, <1>3 DEF Receiving
<1>5. \A t \in d.heard : \E s \in r.heard :
         /\ t.src = s.src /\ t.frame = s.frame /\ t.left = s.left
         /\ t.clean = s.clean
  <2> TAKE t \in d.heard
  <2>1. PICK s \in r.heard : t = [s EXCEPT !.attempted = FALSE]
    BY <1>3
  <2>2. /\ t.src = s.src /\ t.frame = s.frame /\ t.left = s.left
        /\ t.clean = s.clean
    BY <1>2, <2>1, Zenon
  <2> QED BY <2>2
<1>6. \A s \in r.heard : \E t \in d.heard : t.src = s.src /\ t.left = s.left
  BY <1>2
<1>7. ASSUME CleanAlone(r), NEW t \in d.heard, t.clean
      PROVE  d.heard = {t}
  <2>1. PICK s \in r.heard : t = [s EXCEPT !.attempted = FALSE]
    BY <1>3
  <2>2. r.heard = {s}
    BY <1>2, <1>7, <2>1 DEF CleanAlone
  <2> QED BY <1>1, <2>1, <2>2
<1>8. r.heard = {} => d.heard = {}
  BY <1>1
<1>9. CleanAlone(r) => CleanAlone(d)
  BY <1>7 DEF CleanAlone
<1> QED BY <1>1, <1>4, <1>5, <1>6, <1>8, <1>9

LEMMA StartedSignals ==
    ASSUME NEW r \in RadioState, NEW a \in r.arriving, NEW receivable \in BOOLEAN,
           NEW d, d = ReceptionStarted(r, a, receivable),
           NEW new, new = [src |-> a.src, frame |-> a.frame, clean |-> r.heard = {},
                           left |-> Duration(a.frame),
                           attempted |-> Attempts(r, receivable)]
    PROVE  /\ d.arriving = r.arriving \ {a} /\ d.up = r.up /\ d.down = r.down
           /\ d.sending = r.sending /\ d.transmissionTimer = r.transmissionTimer
           /\ d.mode = r.mode
           /\ new \in d.heard
           /\ \A t \in d.heard : t # new =>
                 /\ ~t.clean
                 /\ \E s \in r.heard : /\ t.src = s.src /\ t.frame = s.frame
                                       /\ t.left = s.left
                                       /\ t.attempted = s.attempted
           /\ \A s \in r.heard : \E t \in d.heard : t.src = s.src /\ t.left = s.left
           /\ CleanAlone(d) /\ (r.heard = {} => d.heard = {new})
           /\ (Receiving(r) # {} => r.mode = "RECEIVER") =>
                 (Receiving(d) # {} => d.mode = "RECEIVER")
<1>1. /\ d.arriving = r.arriving \ {a} /\ d.up = r.up /\ d.down = r.down
      /\ d.sending = r.sending /\ d.transmissionTimer = r.transmissionTimer
      /\ d.mode = r.mode
      /\ d.heard = {[s EXCEPT !.clean = FALSE] : s \in r.heard} \cup {new}
  BY DEF ReceptionStarted, RadioState
<1>2. ASSUME NEW s \in r.heard, NEW t, t = [s EXCEPT !.clean = FALSE]
      PROVE  /\ t.src = s.src /\ t.frame = s.frame /\ t.left = s.left
             /\ t.attempted = s.attempted /\ t.clean = FALSE /\ t \in d.heard
  BY <1>1, <1>2 DEF RadioState, Signal
<1>3. ASSUME NEW t \in d.heard, t # new
      PROVE  \E s \in r.heard : t = [s EXCEPT !.clean = FALSE]
  BY <1>1, <1>3
<1>4. \A t \in d.heard : t # new =>
         /\ ~t.clean
         /\ \E s \in r.heard : /\ t.src = s.src /\ t.frame = s.frame
                               /\ t.left = s.left /\ t.attempted = s.attempted
  <2> SUFFICES ASSUME NEW t \in d.heard, t # new
               PROVE  /\ ~t.clean
                      /\ \E s \in r.heard : /\ t.src = s.src /\ t.frame = s.frame
                                            /\ t.left = s.left
                                            /\ t.attempted = s.attempted
    OBVIOUS
  <2>1. PICK s \in r.heard : t = [s EXCEPT !.clean = FALSE]
    BY <1>3
  <2>2. /\ t.src = s.src /\ t.frame = s.frame /\ t.left = s.left
        /\ t.attempted = s.attempted /\ t.clean = FALSE
    BY <1>2, <2>1, Zenon
  <2> QED BY <2>2
<1>5. \A s \in r.heard : \E t \in d.heard : t.src = s.src /\ t.left = s.left
  BY <1>2
<1>6. r.heard = {} => d.heard = {new}
  BY <1>1
<1>7. new.clean <=> r.heard = {}
  OBVIOUS
<1>8. CleanAlone(d)
  BY <1>4, <1>6, <1>7 DEF CleanAlone
<1>9. new.attempted => r.mode = "RECEIVER"
  BY DEF Attempts
<1>10. (Receiving(r) # {} => r.mode = "RECEIVER") =>
          (Receiving(d) # {} => d.mode = "RECEIVER")
  <2> SUFFICES ASSUME Receiving(r) # {} => r.mode = "RECEIVER", NEW t \in Receiving(d)
               PROVE  d.mode = "RECEIVER"
    OBVIOUS
  <2>1. t \in d.heard /\ t.attempted
    BY DEF Receiving
  <2>2. CASE t = new
    BY <1>1, <1>9, <2>1, <2>2
  <2>3. CASE t # new
    <3>1. \E s \in r.heard : s.attempted
      BY <1>4, <2>1, <2>3
    <3> QED BY <1>1, <3>1 DEF Receiving
  <2> QED BY <2>2, <2>3
<1> QED BY <1>1, <1>4, <1>5, <1>6, <1>8, <1>10

LEMMA OverSignals ==
    ASSUME NEW r \in RadioState, NEW s \in r.heard, NEW d, d = ReceptionOver(r, s)
    PROVE  /\ d.arriving = r.arriving /\ d.down = r.down
           /\ d.sending = r.sending /\ d.transmissionTimer = r.transmissionTimer
           /\ d.mode = r.mode /\ d.heard = r.heard \ {s}
           /\ CleanAlone(r) => CleanAlone(d)
           /\ Receiving(d) \subseteq Receiving(r)
           /\ \/ d.up = r.up
              \/ /\ s.attempted
                 /\ \E x : /\ d.up = Append(r.up, x) /\ x.frame = s.frame
                           /\ x.bitError \/ s.clean
<1>1. /\ d.arriving = r.arriving /\ d.down = r.down
      /\ d.sending = r.sending /\ d.transmissionTimer = r.transmissionTimer
      /\ d.mode = r.mode /\ d.heard = r.heard \ {s}
      /\ d.up = IF s.attempted
                THEN Append(r.up, [frame |-> s.frame, bitError |-> ~s.clean])
                ELSE r.up
  BY DEF ReceptionOver, RadioState
<1>2. CleanAlone(r) => CleanAlone(d)
  BY <1>1 DEF CleanAlone
<1>3. Receiving(d) \subseteq Receiving(r)
  BY <1>1 DEF Receiving
<1>4. \/ d.up = r.up
      \/ /\ s.attempted
         /\ \E x : /\ d.up = Append(r.up, x) /\ x.frame = s.frame
                   /\ x.bitError \/ s.clean
  <2>1. PICK x : x = [frame |-> s.frame, bitError |-> ~s.clean]
    OBVIOUS
  <2>2. x.frame = s.frame /\ (x.bitError \/ s.clean)
    BY <2>1
  <2> QED BY <1>1, <2>1, <2>2
<1> QED BY <1>1, <1>2, <1>3, <1>4

LEMMA TickSignals ==
    ASSUME NEW r \in RadioState, RadioWaits(r), NEW d, d = RadioTick(r)
    PROVE  /\ d.arriving = {} /\ d.up = <<>> /\ d.down = NoFrame
           /\ d.sending = r.sending /\ d.mode = r.mode
           /\ d.transmissionTimer = Left(r.transmissionTimer)
           /\ r.arriving = {}
           /\ r.heard = {} => d.heard = {}
           /\ \A t \in d.heard : \E s \in r.heard :
                 /\ t.src = s.src /\ t.frame = s.frame /\ t.clean = s.clean
                 /\ t.attempted = s.attempted /\ s.left > 0 /\ t.left = s.left - 1
                 /\ s.left \in Nat
           /\ \A s \in r.heard : \E t \in d.heard : t.src = s.src /\ t.left = s.left - 1
           /\ CleanAlone(r) => CleanAlone(d)
<1>1. /\ d.heard = {[s EXCEPT !.left = @ - 1] : s \in r.heard} /\ d.up = <<>>
      /\ d.arriving = {} /\ r.arriving = {} /\ d.down = NoFrame
      /\ d.sending = r.sending /\ d.mode = r.mode
      /\ d.transmissionTimer = Left(r.transmissionTimer)
  BY DEF RadioTick, RadioWaits, RadioState, Left
<1>2. ASSUME NEW s \in r.heard, NEW t, t = [s EXCEPT !.left = @ - 1]
      PROVE  /\ t.src = s.src /\ t.frame = s.frame /\ t.clean = s.clean
             /\ t.attempted = s.attempted /\ t.left = s.left - 1
             /\ s.left \in Nat /\ s.left > 0 /\ t \in d.heard
  <2>1. s.left \in Nat /\ s.left # 0
    BY DEF RadioState, Signal, RadioWaits
  <2>2. /\ t.src = s.src /\ t.frame = s.frame /\ t.clean = s.clean
        /\ t.attempted = s.attempted /\ t.left = s.left - 1 /\ t \in d.heard
    BY <1>1, <1>2 DEF RadioState, Signal
  <2> QED BY <2>1, <2>2
<1>3. ASSUME NEW t \in d.heard
      PROVE  \E s \in r.heard : t = [s EXCEPT !.left = @ - 1]
  BY <1>1
<1>4. \A t \in d.heard : \E s \in r.heard :
         /\ t.src = s.src /\ t.frame = s.frame /\ t.clean = s.clean
         /\ t.attempted = s.attempted /\ s.left > 0 /\ t.left = s.left - 1
         /\ s.left \in Nat
  BY <1>2, <1>3
<1>5. \A s \in r.heard : \E t \in d.heard : t.src = s.src /\ t.left = s.left - 1
  BY <1>2
<1>6. ASSUME CleanAlone(r), NEW t \in d.heard, t.clean
      PROVE  d.heard = {t}
  <2>1. PICK s \in r.heard : t = [s EXCEPT !.left = @ - 1]
    BY <1>3
  <2>2. r.heard = {s}
    BY <1>2, <1>6, <2>1 DEF CleanAlone
  <2> QED BY <1>1, <2>1, <2>2
<1>7. r.heard = {} => d.heard = {}
  BY <1>1
<1>8. CleanAlone(r) => CleanAlone(d)
  BY <1>6 DEF CleanAlone
<1> QED BY <1>1, <1>4, <1>5, <1>7, <1>8
-----------------------------------------------------------------------------
(* Signals last as long as they are sent, and reach every other host.       *)

LEMMA HostsTyped ==
    ASSUME NicInv, NEW n \in Nodes
    PROVE  /\ mac[n] \in MacState /\ MacOK(mac[n])
           /\ radio[n] \in RadioState /\ RadioOK(radio[n])
           /\ HostInv(mac[n], radio[n])
           /\ radio[n].transmissionTimer \in Nat \cup {-1}
           /\ \A a \in radio[n].arriving : a \in Arrival /\ a.src \in Nodes
           /\ \A s \in radio[n].heard :
                 s \in Signal /\ s.src \in Nodes /\ s.left \in Nat
<1>1. /\ MacOK(mac[n]) /\ RadioOK(radio[n]) /\ HostInv(mac[n], radio[n])
      /\ mac[n] \in MacState /\ radio[n] \in RadioState
  BY DEF NicInv, HostInv, MacOK, RadioOK
<1>2. /\ radio[n].transmissionTimer \in Nat \cup {-1}
      /\ radio[n].arriving \subseteq Arrival /\ radio[n].heard \subseteq Signal
  BY <1>1 DEF RadioState, Timer, NotScheduled
<1> QED BY <1>1, <1>2 DEF Arrival, Signal

(* An event at n that does not change what its radio sends.                 *)
LEMMA AirStep ==
    ASSUME NicInv, AirInv, NEW n \in Nodes, NEW m2, NEW r2,
           mac' = [mac EXCEPT ![n] = m2], radio' = [radio EXCEPT ![n] = r2],
           r2.sending = radio[n].sending,
           r2.transmissionTimer = radio[n].transmissionTimer,
           HostAir(m2, r2), SignalsOK(n, r2),
           \A a \in r2.arriving : a.src \in Nodes,
           \A s \in r2.heard : s.src \in Nodes,
           \A k \in Nodes \ {n} : Reaches(k, r2)
    PROVE  AirInv'
<1>1. /\ mac'[n] = m2 /\ radio'[n] = r2
      /\ \A k \in Nodes \ {n} : mac'[k] = mac[k] /\ radio'[k] = radio[k]
  BY DEF NicInv
<1>2. \A k \in Nodes : /\ radio'[k].sending = radio[k].sending
                       /\ radio'[k].transmissionTimer = radio[k].transmissionTimer
  BY <1>1
<1>3. ASSUME NEW k \in Nodes
      PROVE  HostAir(mac'[k], radio'[k])
  BY <1>1 DEF AirInv
<1>4. ASSUME NEW k \in Nodes, NEW r, SignalsOK(k, r),
             \A a \in r.arriving : a.src \in Nodes, \A s \in r.heard : s.src \in Nodes
      PROVE  SignalsOK(k, r)'
  BY <1>2, <1>4 DEF SignalsOK, SentBy
<1>5. ASSUME NEW k \in Nodes, NEW r, Reaches(k, r)
      PROVE  Reaches(k, r)'
  BY <1>2, <1>5 DEF Reaches
<1>6. ASSUME NEW k \in Nodes
      PROVE  SignalsOK(k, radio[k])' /\ \A j \in Nodes \ {k} : Reaches(j, radio[k])'
  <2>1. PICK r : r = radio'[k]
    OBVIOUS
  <2>2. /\ SignalsOK(k, r) /\ \A j \in Nodes \ {k} : Reaches(j, r)
        /\ \A a \in r.arriving : a.src \in Nodes
        /\ \A s \in r.heard : s.src \in Nodes
    <3>1. CASE k = n
      BY <1>1, <2>1, <3>1
    <3>2. CASE k # n
      <4>1. r = radio[k]
        BY <1>1, <2>1, <3>2
      <4> QED BY <4>1, HostsTyped DEF AirInv
    <3> QED BY <3>1, <3>2
  <2>3. SignalsOK(k, r)' /\ \A j \in Nodes \ {k} : Reaches(j, r)'
    BY <1>4, <1>5, <2>2
  <2> QED BY <2>1, <2>3 DEF SignalsOK, SentBy, Reaches
<1> QED BY <1>3, <1>6 DEF AirInv

LEMMA AirHost ==
    ASSUME NicInv, AirInv, NEW n \in Nodes
    PROVE  /\ HostAir(mac[n], radio[n]) /\ SignalsOK(n, radio[n])
           /\ \A a \in radio[n].arriving : a.src \in Nodes
           /\ \A s \in radio[n].heard : s.src \in Nodes
           /\ \A k \in Nodes \ {n} : Reaches(k, radio[n])
  BY HostsTyped DEF AirInv

(* An event of the MAC alone.                                               *)
LEMMA MacAir ==
    ASSUME NicInv, AirInv, NEW n \in Nodes, NEW m2, radio' = radio,
           mac' = [mac EXCEPT ![n] = m2], Stays(mac[n], m2) \/ m2.fsm \notin Engaged
    PROVE  AirInv'
<1>1. radio' = [radio EXCEPT ![n] = radio[n]]
  BY SameRadio
<1>2. HostAir(m2, radio[n])
  BY AirHost, EngagedStays DEF HostAir
<1> QED BY <1>1, <1>2, AirHost, AirStep

LEMMA QueueFrameAir ==
    ASSUME ~PrioritizeByUP, NicInv, AirInv, NEW n \in Nodes, NEW f \in Frames,
           QueueFrame(n, f)
    PROVE  AirInv'
<1>1. PICK m2 \in UpperFrame(mac[n], f, Rx(n)) : mac' = [mac EXCEPT ![n] = m2]
  BY DEF QueueFrame
<1>2. radio' = radio /\ radio' = [radio EXCEPT ![n] = radio[n]]
  BY SameRadio DEF QueueFrame
<1>3. m2.fsm \in Engaged => m2 = [mac[n] EXCEPT !.queue = Append(mac[n].queue, f)]
  BY <1>1, UpperFrameJoins, HostsTyped
<1>4. Waits(m2) /\ (m2.fsm = "TRANSMIT" => mac[n].fsm = "TRANSMIT")
  BY <1>3, AirHost, HostsTyped DEF HostAir, Waits, MacState, Engaged
<1>5. HostAir(m2, radio[n])
  BY <1>4, AirHost DEF HostAir
<1> QED BY <1>1, <1>2, <1>5, AirHost, AirStep

LEMMA MacEventAir ==
    ASSUME NicInv, AirInv, NEW n \in Nodes,
           EndDifs(n) \/ EndAckTimeout(n) \/ \E f \in Frames : RefuseFrame(n, f)
    PROVE  AirInv'
<1>1. radio' = radio
  BY DEF EndDifs, EndAckTimeout, RefuseFrame
<1>2. PICK m2 : /\ mac' = [mac EXCEPT ![n] = m2]
                /\ Stays(mac[n], m2) \/ m2.fsm \notin Engaged
  <2>1. CASE EndDifs(n)
    <3>1. PICK m2 \in DifsOver(mac[n], Rx(n)) : mac' = [mac EXCEPT ![n] = m2]
      BY <2>1 DEF EndDifs
    <3>2. mac[n].endDifs = 0 /\ mac[n] \in MacState /\ mac[n].fsm = "WAITDIFS"
      BY <2>1, HostsTyped, FiresIn DEF EndDifs
    <3>3. Stays(mac[n], m2)
      BY <3>1, <3>2, DifsOverStays
    <3> QED BY <3>1, <3>3
  <2>2. CASE EndAckTimeout(n)
    <3>1. PICK m2 \in AckOverdue(mac[n], Rx(n)) : mac' = [mac EXCEPT ![n] = m2]
      BY <2>2 DEF EndAckTimeout
    <3>2. mac[n].endAckTimeout = 0
      BY <2>2 DEF EndAckTimeout
    <3>3. m2.fsm \notin Engaged
      BY <3>1, <3>2, AckOverdueFrees, HostsTyped
    <3> QED BY <3>1, <3>3
  <2>3. CASE \E f \in Frames : RefuseFrame(n, f)
    <3>1. mac' = [mac EXCEPT ![n] = mac[n]] /\ Stays(mac[n], mac[n])
      BY <2>3 DEF RefuseFrame, NicInv, Stays
    <3> QED BY <3>1
  <2> QED BY <2>1, <2>2, <2>3
<1> QED BY <1>1, <1>2, MacAir

(* A radio that becomes a transmitter.                                      *)
LEMMA SwitchAir ==
    ASSUME NicInv, AirInv, NEW n \in Nodes, NEW m2, NEW f, NEW r2,
           r2 = HandDown(radio[n], f), HostAir(m2, r2),
           mac' = [mac EXCEPT ![n] = m2], radio' = [radio EXCEPT ![n] = r2]
    PROVE  AirInv'
<1>1. /\ r2.arriving = radio[n].arriving /\ r2.sending = radio[n].sending
      /\ r2.transmissionTimer = radio[n].transmissionTimer
      /\ \A t \in r2.heard : \E s \in radio[n].heard :
            t.src = s.src /\ t.frame = s.frame /\ t.left = s.left
      /\ \A s \in radio[n].heard : \E t \in r2.heard : t.src = s.src /\ t.left = s.left
  BY HostsTyped, SwitchSignals
<1>2. /\ SignalsOK(n, radio[n])
      /\ \A a \in radio[n].arriving : a.src \in Nodes
      /\ \A s \in radio[n].heard : s.src \in Nodes
      /\ \A k \in Nodes \ {n} : Reaches(k, radio[n])
  BY AirHost
<1>3. ASSUME NEW t \in r2.heard
      PROVE  /\ t.src \in Nodes /\ t.src # n /\ (t.frame \in Frames => t.frame.src = t.src)
             /\ t.left > 0 => SentBy(t.src, t.frame, t.left)
  <2>1. PICK s \in radio[n].heard : t.src = s.src /\ t.frame = s.frame /\ t.left = s.left
    BY <1>1
  <2> QED BY <1>2, <2>1 DEF SignalsOK
<1>4. SignalsOK(n, r2)
  BY <1>1, <1>2, <1>3 DEF SignalsOK
<1>5. ASSUME NEW k \in Nodes \ {n}
      PROVE  Reaches(k, r2)
  <2>1. Reaches(k, radio[n])
    BY <1>2
  <2>2. ASSUME NEW s \in radio[n].heard, s.src = k, s.left = radio[k].transmissionTimer
        PROVE  \E t \in r2.heard : t.src = k /\ t.left = radio[k].transmissionTimer
    BY <1>1, <2>2
  <2> QED BY <1>1, <2>1, <2>2 DEF Reaches
<1> QED BY <1>1, <1>2, <1>3, <1>4, <1>5, AirStep

LEMMA EndBackoffAir ==
    ASSUME NicInv, LinkInv, AirInv, NEW n \in Nodes, EndBackoff(n)
    PROVE  AirInv'
<1>1. PICK m2 \in BackoffOver(mac[n], Rx(n)) : mac' = [mac EXCEPT ![n] = m2]
  BY DEF EndBackoff
<1>2. /\ mac[n].endBackoff = 0 /\ mac[n].fsm = "BACKOFF" /\ mac[n].queue # <<>>
      /\ mac[n] \in MacState
  BY HostsTyped, FiresIn DEF EndBackoff, MacOK, Contending
<1>3. m2.fsm = "TRANSMIT"
  BY <1>1, <1>2, BackoffOverSends
<1>4. PICK f : f = Current(mac[n])
  OBVIOUS
<1>5. f \in Frames
  BY <1>2, <1>4, QueuedFrames
<1>6. PICK r2 : r2 = HandDown(radio[n], f)
  OBVIOUS
<1>7. radio' = [radio EXCEPT ![n] = r2]
  BY <1>2, <1>4, <1>6 DEF EndBackoff, Transmits
<1>8. radio[n].mode = "RECEIVER" /\ radio[n].transmissionTimer = NotScheduled
  BY <1>2, HostBefore DEF RadioOK
<1>9. radio[n].sending = NoFrame
  BY <1>8, AirHost DEF HostAir
<1>10. \A k \in Nodes : r2.down # Ack(k) /\ r2.sending # Ack(k)
  BY <1>5, <1>6, <1>9, HostsTyped, SwitchSignals, AcksAreNotData, NoFrameIsNoFrame
<1>11. HostAir(m2, r2)
  <2>1. /\ Receiving(r2) = {} /\ r2.sending = radio[n].sending
        /\ CleanAlone(radio[n]) => CleanAlone(r2)
    BY <1>6, HostsTyped, SwitchSignals
  <2>2. CleanAlone(radio[n])
    BY AirHost DEF HostAir
  <2> QED BY <1>3, <1>9, <1>10, <2>1, <2>2 DEF HostAir, Waits
<1> QED BY <1>1, <1>6, <1>7, <1>11, AirHost, SwitchAir

LEMMA EndSifsAir ==
    ASSUME NicInv, LinkInv, AirInv, NEW n \in Nodes, EndSifs(n)
    PROVE  AirInv'
<1>1. mac[n].endSifs = 0 /\ MacOK(mac[n])
  BY HostsTyped DEF EndSifs
<1>2. PICK rx : \E m2 \in SifsOver(mac[n], rx) : mac' = [mac EXCEPT ![n] = m2]
  BY DEF EndSifs
<1>3. PICK m2 \in SifsOver(mac[n], rx) : mac' = [mac EXCEPT ![n] = m2]
  BY <1>2
<1>4. SendsAck(mac[n]) /\ m2.fsm \notin Engaged
  BY <1>1, <1>3, SifsOverFrees
<1>5. PICK r2 : r2 = HandDown(radio[n], Ack(mac[n].frameToAck.src))
  OBVIOUS
<1>6. radio' = [radio EXCEPT ![n] = r2]
  BY <1>4, <1>5 DEF EndSifs
<1>7. HostAir(m2, r2)
  <2>1. /\ Receiving(r2) = {} /\ r2.sending = radio[n].sending
        /\ r2.transmissionTimer = radio[n].transmissionTimer
        /\ CleanAlone(radio[n]) => CleanAlone(r2)
    BY <1>5, HostsTyped, SwitchSignals
  <2> QED BY <1>4, <2>1, AirHost DEF HostAir, Waits, Engaged
<1> QED BY <1>3, <1>5, <1>6, <1>7, SwitchAir

LEMMA ReceiveFrameAir ==
    ASSUME NicInv, LinkInv, AirInv, NEW n \in Nodes, ReceiveFrame(n)
    PROVE  AirInv'
<1>1. PICK f : f = Head(radio[n].up).frame
  OBVIOUS
<1>2. PICK bitError : bitError = Head(radio[n].up).bitError
  OBVIOUS
<1>3. PICK m2 \in LowerFrame(n, mac[n], f, bitError, Rx(n)) :
         mac' = [mac EXCEPT ![n] = m2]
  BY <1>1, <1>2 DEF ReceiveFrame
<1>4. PICK r2 : r2 = [radio[n] EXCEPT !.up = Tail(@)]
  OBVIOUS
<1>5. radio' = [radio EXCEPT ![n] = r2]
  BY <1>4 DEF ReceiveFrame
<1>6. m2.fsm = "WAITSIFS" \/ m2.fsm \notin Engaged \/ Stays(mac[n], m2)
  BY <1>3, LowerFrameTakes, HostsTyped
<1>7. Waits(m2) /\ (m2.fsm = "TRANSMIT" => mac[n].fsm = "TRANSMIT")
  <2>1. Waits(mac[n])
    BY AirHost DEF HostAir
  <2> QED BY <1>6, <2>1, EngagedStays DEF Waits
<1>8. /\ r2.arriving = radio[n].arriving /\ r2.heard = radio[n].heard
      /\ r2.down = radio[n].down /\ r2.mode = radio[n].mode
      /\ r2.sending = radio[n].sending
      /\ r2.transmissionTimer = radio[n].transmissionTimer
  BY <1>4, HostsTyped DEF RadioState
<1>9. HostAir(m2, r2)
  BY <1>7, <1>8, AirHost DEF HostAir, Receiving, CleanAlone
<1>10. /\ SignalsOK(n, r2) /\ \A k \in Nodes \ {n} : Reaches(k, r2)
       /\ \A a \in r2.arriving : a.src \in Nodes
       /\ \A s \in r2.heard : s.src \in Nodes
  BY <1>8, AirHost DEF SignalsOK, Reaches
<1> QED BY <1>3, <1>5, <1>8, <1>9, <1>10, AirStep

(* What a change that the radio tells of does to the MAC.                   *)
LEMMA NotifyStays ==
    ASSUME NicInv, NEW n \in Nodes, NEW r2, Notify(n, r2)
    PROVE  /\ radio' = [radio EXCEPT ![n] = r2]
           /\ \E m2 : /\ mac' = [mac EXCEPT ![n] = m2] /\ Stays(mac[n], m2)
                      /\ UseAck => \A gap \in 1..DifsTime :
                                      CalmMac(mac[n], gap) => CalmMac(m2, gap)
<1>1. mac[n] \in MacState
  BY HostsTyped
<1>2. CASE ReceptionState(r2) # Rx(n)
  <2>1. PICK m2 \in MediumChange(mac[n], ReceptionState(r2)) :
           mac' = [mac EXCEPT ![n] = m2]
    BY <1>2 DEF Notify
  <2>2. Stays(mac[n], m2)
    BY <1>1, <2>1, MediumChangeStays
  <2>3. UseAck => \A gap \in 1..DifsTime : CalmMac(mac[n], gap) => CalmMac(m2, gap)
    BY <1>1, <2>1, MediumChangeCalm
  <2> QED BY <2>1, <2>2, <2>3 DEF Notify
<1>3. CASE ReceptionState(r2) = Rx(n)
  <2>1. mac' = [mac EXCEPT ![n] = mac[n]] /\ Stays(mac[n], mac[n])
    BY <1>3 DEF Notify, NicInv, Stays
  <2> QED BY <2>1 DEF Notify
<1> QED BY <1>2, <1>3

LEMMA StartReceptionAir ==
    ASSUME NicInv, AirInv, NEW n \in Nodes, NEW a \in radio[n].arriving,
           NEW receivable \in BOOLEAN, StartReception(n, a, receivable)
    PROVE  AirInv'
<1>1. PICK r2 : r2 = ReceptionStarted(radio[n], a, receivable)
  OBVIOUS
<1>2. PICK new : new = [src |-> a.src, frame |-> a.frame,
                        clean |-> radio[n].heard = {}, left |-> Duration(a.frame),
                        attempted |-> Attempts(radio[n], receivable)]
  OBVIOUS
<1>3. Notify(n, r2)
  BY <1>1 DEF StartReception
<1>4. PICK m2 : mac' = [mac EXCEPT ![n] = m2] /\ Stays(mac[n], m2)
  BY <1>3, NotifyStays
<1>5. /\ r2.arriving = radio[n].arriving \ {a} /\ r2.down = radio[n].down
      /\ r2.sending = radio[n].sending
      /\ r2.transmissionTimer = radio[n].transmissionTimer
      /\ r2.mode = radio[n].mode /\ new \in r2.heard
      /\ \A t \in r2.heard : t # new =>
            \E s \in radio[n].heard : t.src = s.src /\ t.frame = s.frame /\ t.left = s.left
      /\ \A s \in radio[n].heard : \E t \in r2.heard : t.src = s.src /\ t.left = s.left
      /\ CleanAlone(r2)
      /\ (Receiving(radio[n]) # {} => radio[n].mode = "RECEIVER") =>
            (Receiving(r2) # {} => r2.mode = "RECEIVER")
  BY <1>1, <1>2, HostsTyped, StartedSignals
<1>6. /\ HostAir(mac[n], radio[n]) /\ SignalsOK(n, radio[n])
      /\ \A s \in radio[n].arriving : s.src \in Nodes
      /\ \A s \in radio[n].heard : s.src \in Nodes
      /\ \A k \in Nodes \ {n} : Reaches(k, radio[n])
  BY AirHost
<1>7. HostAir(m2, r2)
  BY <1>4, <1>5, <1>6, EngagedStays DEF HostAir
<1>8. /\ new.src = a.src /\ new.frame = a.frame /\ new.left = Duration(a.frame)
      /\ a.src # n /\ (a.frame \in Frames => a.frame.src = a.src)
      /\ SentBy(a.src, a.frame, Duration(a.frame))
  BY <1>2, <1>6 DEF SignalsOK
<1>9. ASSUME NEW t \in r2.heard
      PROVE  /\ t.src \in Nodes /\ t.src # n /\ (t.frame \in Frames => t.frame.src = t.src)
             /\ t.left > 0 => SentBy(t.src, t.frame, t.left)
  <2>1. CASE t = new
    BY <1>6, <1>8, <2>1
  <2>2. CASE t # new
    <3>1. PICK s \in radio[n].heard : t.src = s.src /\ t.frame = s.frame /\ t.left = s.left
      BY <1>5, <2>2
    <3> QED BY <1>6, <3>1 DEF SignalsOK
  <2> QED BY <2>1, <2>2
<1>10. SignalsOK(n, r2) /\ \A s \in r2.arriving : s.src \in Nodes
  BY <1>5, <1>6, <1>9 DEF SignalsOK
<1>11. ASSUME NEW k \in Nodes \ {n}, radio[k].transmissionTimer > 0
       PROVE  Reaches(k, r2)
  <2>1. CASE \E b \in radio[n].arriving : b.src = k
    <3>1. PICK b \in radio[n].arriving : b.src = k
      BY <2>1
    <3>2. CASE b = a
      <4>1. new.src = k /\ new.left = radio[k].transmissionTimer
        BY <1>8, <3>1, <3>2 DEF SentBy
      <4> QED BY <1>5, <4>1 DEF Reaches
    <3>3. CASE b # a
      BY <1>5, <3>1, <3>3 DEF Reaches
    <3> QED BY <3>2, <3>3
  <2>2. CASE \E s \in radio[n].heard : s.src = k /\ s.left = radio[k].transmissionTimer
    <3>1. PICK s \in radio[n].heard : s.src = k /\ s.left = radio[k].transmissionTimer
      BY <2>2
    <3>2. PICK t \in r2.heard : t.src = s.src /\ t.left = s.left
      BY <1>5
    <3> QED BY <3>1, <3>2 DEF Reaches
  <2> QED BY <1>6, <1>11, <2>1, <2>2 DEF Reaches
<1>12. \A k \in Nodes \ {n} : Reaches(k, r2)
  BY <1>11 DEF Reaches
<1> QED BY <1>3, <1>4, <1>5, <1>7, <1>9, <1>10, <1>12, NotifyStays, AirStep

LEMMA EndReceptionAir ==
    ASSUME NicInv, AirInv, NEW n \in Nodes, NEW s \in radio[n].heard, EndReception(n, s)
    PROVE  AirInv'
<1>1. PICK r2 : r2 = ReceptionOver(radio[n], s)
  OBVIOUS
<1>2. Notify(n, r2) /\ s.left = 0
  BY <1>1 DEF EndReception
<1>3. PICK m2 : mac' = [mac EXCEPT ![n] = m2] /\ Stays(mac[n], m2)
  BY <1>2, NotifyStays
<1>4. /\ r2.arriving = radio[n].arriving /\ r2.down = radio[n].down
      /\ r2.sending = radio[n].sending
      /\ r2.transmissionTimer = radio[n].transmissionTimer
      /\ r2.mode = radio[n].mode /\ r2.heard = radio[n].heard \ {s}
      /\ CleanAlone(radio[n]) => CleanAlone(r2)
      /\ Receiving(r2) \subseteq Receiving(radio[n])
  <2>1. radio[n] \in RadioState
    BY HostsTyped
  <2> QED BY <1>1, <2>1, OverSignals
<1>5. HostAir(m2, r2)
  BY <1>3, <1>4, AirHost, EngagedStays DEF HostAir
<1>6. /\ SignalsOK(n, r2) /\ \A a \in r2.arriving : a.src \in Nodes
      /\ \A t \in r2.heard : t.src \in Nodes
  BY <1>4, AirHost DEF SignalsOK
<1>7. \A k \in Nodes \ {n} : Reaches(k, r2)
  <2> TAKE k \in Nodes \ {n}
  <2>1. Reaches(k, radio[n])
    BY AirHost
  <2> QED BY <1>2, <1>4, <2>1 DEF Reaches
<1> QED BY <1>2, <1>3, <1>4, <1>5, <1>6, <1>7, NotifyStays, AirStep

LEMMA StartTransmissionAir ==
    ASSUME \A x, y \in Nodes : x # y => <<x, y>> \in Hears,
           NicInv, LinkInv, AirInv, NEW n \in Nodes, StartTransmission(n)
    PROVE  AirInv'
<1>1. PICK f : f = radio[n].down
  OBVIOUS
<1>2. PICK a : a = [src |-> n, frame |-> f]
  OBVIOUS
<1>3. /\ f # NoFrame /\ radio[n].transmissionTimer = NotScheduled /\ mac' = mac
      /\ radio'[n] = Transmission(radio[n])
      /\ \A k \in Nodes \ {n} : radio'[k] = [radio[k] EXCEPT !.arriving = @ \cup {a}]
  BY <1>1, <1>2 DEF StartTransmission
<1>4. /\ radio'[n].down = NoFrame /\ radio'[n].sending = f
      /\ radio'[n].transmissionTimer = Duration(f) /\ radio'[n].mode = radio[n].mode
      /\ radio'[n].arriving = radio[n].arriving /\ radio'[n].heard = radio[n].heard
  BY <1>1, <1>3, HostsTyped DEF Transmission, RadioState
<1>5. \A k \in Nodes \ {n} :
         /\ radio'[k].down = radio[k].down /\ radio'[k].sending = radio[k].sending
         /\ radio'[k].transmissionTimer = radio[k].transmissionTimer
         /\ radio'[k].mode = radio[k].mode /\ radio'[k].heard = radio[k].heard
         /\ radio'[k].arriving = radio[k].arriving \cup {a}
  BY <1>3, HostsTyped DEF RadioState
<1>6. f \in Frames => f.src = n
  BY <1>1, QueuedFrames DEF DownOK, Working
<1>7. Duration(f) \in Nat /\ Duration(f) > 0 /\ Duration(f) # NotScheduled
  BY DurationIsPositive DEF NotScheduled
<1>8. ASSUME NEW k \in Nodes
      PROVE  HostAir(mac'[k], radio'[k])
  <2>1. HostAir(mac[k], radio[k]) /\ mac'[k] = mac[k]
    BY <1>3, AirHost
  <2>2. CASE k = n
    <3>1. \A j \in Nodes : NoFrame # Ack(j)
      BY NoFrameIsNoFrame
    <3> QED BY <1>1, <1>4, <1>7, <2>1, <2>2, <3>1 DEF HostAir, Receiving, CleanAlone
  <2>3. CASE k # n
    BY <1>5, <2>1, <2>3 DEF HostAir, Receiving, CleanAlone
  <2> QED BY <2>2, <2>3
<1>9. ASSUME NEW k \in Nodes, NEW g, NEW left \in Nat, left > 0, SentBy(k, g, left)
      PROVE  k # n /\ SentBy(k, g, left)'
  <2>1. k # n
    BY <1>3, <1>9 DEF SentBy, NotScheduled
  <2> QED BY <1>5, <1>9, <2>1 DEF SentBy
<1>10. SentBy(n, f, Duration(f))'
  BY <1>4 DEF SentBy
<1>11. ASSUME NEW k \in Nodes
       PROVE  SignalsOK(k, radio[k])'
  <2>1. /\ SignalsOK(k, radio[k])
        /\ \A b \in radio[k].arriving : b.src \in Nodes
        /\ \A s \in radio[k].heard : s.src \in Nodes /\ s.left \in Nat
    BY AirHost, HostsTyped
  <2>2. radio'[k].heard = radio[k].heard
    BY <1>4, <1>5
  <2>3. ASSUME NEW b \in radio'[k].arriving
        PROVE  /\ b.src # k /\ (b.frame \in Frames => b.frame.src = b.src)
               /\ SentBy(b.src, b.frame, Duration(b.frame))'
    <3>1. CASE b \in radio[k].arriving
      <4>1. SentBy(b.src, b.frame, Duration(b.frame)) /\ b.src \in Nodes
        BY <2>1, <3>1 DEF SignalsOK
      <4>2. Duration(b.frame) \in Nat /\ Duration(b.frame) > 0
        BY DurationIsPositive
      <4>3. PICK g : g = b.frame
        OBVIOUS
      <4>4. PICK j \in Nodes : j = b.src
        BY <4>1
      <4>5. SentBy(j, g, Duration(g))'
        BY <1>9, <4>1, <4>2, <4>3, <4>4
      <4> QED BY <2>1, <3>1, <4>3, <4>4, <4>5 DEF SignalsOK
    <3>2. CASE b \notin radio[k].arriving
      <4>1. k # n /\ b = a
        BY <1>4, <1>5, <3>2
      <4>2. b.src = n /\ b.frame = f
        BY <1>2, <4>1
      <4> QED BY <1>6, <1>10, <4>1, <4>2
    <3> QED BY <3>1, <3>2
  <2>4. ASSUME NEW s \in radio[k].heard, s.left > 0
        PROVE  SentBy(s.src, s.frame, s.left)'
    <3>1. SentBy(s.src, s.frame, s.left) /\ s.src \in Nodes /\ s.left \in Nat
      BY <2>1, <2>4 DEF SignalsOK
    <3> QED BY <1>9, <2>4, <3>1
  <2> QED BY <2>1, <2>2, <2>3, <2>4 DEF SignalsOK
<1>12. ASSUME NEW k \in Nodes, NEW j \in Nodes \ {k}
       PROVE  Reaches(j, radio[k])'
  <2>1. CASE j = n
    <3>1. a \in radio'[k].arriving /\ a.src = n
      BY <1>2, <1>5, <2>1
    <3> QED BY <2>1, <3>1 DEF Reaches
  <2>2. CASE j # n
    <3>1. /\ radio'[j].transmissionTimer = radio[j].transmissionTimer
          /\ radio'[k].heard = radio[k].heard
          /\ radio[k].arriving \subseteq radio'[k].arriving
      BY <1>4, <1>5, <2>2
    <3>2. Reaches(j, radio[k])
      BY AirHost
    <3> QED BY <3>1, <3>2 DEF Reaches
  <2> QED BY <2>1, <2>2
<1> QED BY <1>8, <1>11, <1>12 DEF AirInv

LEMMA EndTransmissionAir ==
    ASSUME NicInv, LinkInv, AirInv, NEW n \in Nodes, EndTransmission(n)
    PROVE  AirInv'
<1>1. PICK r2 : r2 = TransmissionOver(radio[n])
  OBVIOUS
<1>2. PICK m2 \in DataOver(mac[n], "UNDEFINED") :
         \E m3 \in MediumChange(m2, ReceptionState(r2)) : mac' = [mac EXCEPT ![n] = m3]
  BY <1>1 DEF EndTransmission
<1>3. PICK m3 \in MediumChange(m2, ReceptionState(r2)) : mac' = [mac EXCEPT ![n] = m3]
  BY <1>2
<1>4. /\ radio[n].transmissionTimer = 0
      /\ mac'[n] = m3 /\ radio'[n] = r2
      /\ \A k \in Nodes \ {n} : mac'[k] = mac[k] /\ radio'[k] = radio[k]
  BY <1>1, <1>3 DEF EndTransmission, NicInv
<1>5. /\ r2.down = radio[n].down /\ r2.sending = NoFrame
      /\ r2.transmissionTimer = NotScheduled /\ r2.mode = "RECEIVER"
      /\ r2.arriving = radio[n].arriving /\ r2.heard = radio[n].heard
  BY <1>1, HostsTyped DEF TransmissionOver, RadioState
<1>6. mac[n].fsm \in {"TRANSMIT", "IDLE", "DEFER"} /\ MacOK(mac[n])
  <2>1. radio[n].mode = "TRANSMITTER"
    BY <1>4, HostsTyped DEF RadioOK, NotScheduled
  <2> QED BY <2>1, HostBefore
<1>7. m3.fsm # "TRANSMIT" /\ Waits(m3)
  <2>1. Waits(mac[n]) /\ AckTimeout \in Nat
    BY AirHost, MacAssumption DEF HostAir
  <2>2. /\ mac[n].fsm # "TRANSMIT" => Stays(mac[n], m3)
        /\ NeedsNoAck(mac[n]) => m3.fsm \notin Engaged
        /\ mac[n].fsm = "TRANSMIT" /\ ~NeedsNoAck(mac[n]) =>
              m3.fsm = "WAITACK" /\ m3.endAckTimeout = AckTimeout
    BY <1>2, <1>3, <1>6, DataOverThen
  <2>3. CASE mac[n].fsm # "TRANSMIT"
    BY <2>1, <2>2, <2>3, EngagedStays
  <2>4. CASE NeedsNoAck(mac[n])
    BY <2>2, <2>4 DEF Waits, Engaged
  <2>5. CASE mac[n].fsm = "TRANSMIT" /\ ~NeedsNoAck(mac[n])
    BY <2>1, <2>2, <2>5 DEF Waits
  <2> QED BY <2>3, <2>4, <2>5
<1>8. HostAir(m3, r2)
  <2>1. CleanAlone(radio[n])
    BY AirHost DEF HostAir
  <2> QED BY <1>5, <1>7, <2>1 DEF HostAir, CleanAlone
<1>9. ASSUME NEW k \in Nodes
      PROVE  HostAir(mac'[k], radio'[k])
  BY <1>4, <1>8, AirHost
<1>10. ASSUME NEW k \in Nodes, NEW g, NEW left \in Nat, left > 0, SentBy(k, g, left)
       PROVE  SentBy(k, g, left)'
  BY <1>4, <1>10 DEF SentBy
<1>11. ASSUME NEW k \in Nodes
       PROVE  SignalsOK(k, radio[k])'
  <2>1. /\ SignalsOK(k, radio[k])
        /\ \A b \in radio[k].arriving : b.src \in Nodes
        /\ \A s \in radio[k].heard : s.src \in Nodes /\ s.left \in Nat
    BY AirHost, HostsTyped
  <2>2. radio'[k].heard = radio[k].heard /\ radio'[k].arriving = radio[k].arriving
    BY <1>4, <1>5
  <2>3. ASSUME NEW b \in radio[k].arriving
        PROVE  SentBy(b.src, b.frame, Duration(b.frame))'
    <3>1. SentBy(b.src, b.frame, Duration(b.frame)) /\ b.src \in Nodes
      BY <2>1 DEF SignalsOK
    <3>2. Duration(b.frame) \in Nat /\ Duration(b.frame) > 0
      BY DurationIsPositive
    <3> QED BY <1>10, <3>1, <3>2
  <2>4. ASSUME NEW s \in radio[k].heard, s.left > 0
        PROVE  SentBy(s.src, s.frame, s.left)'
    <3>1. SentBy(s.src, s.frame, s.left) /\ s.src \in Nodes /\ s.left \in Nat
      BY <2>1, <2>4 DEF SignalsOK
    <3> QED BY <1>10, <2>4, <3>1
  <2> QED BY <2>1, <2>2, <2>3, <2>4 DEF SignalsOK
<1>12. ASSUME NEW k \in Nodes, NEW j \in Nodes \ {k}
       PROVE  Reaches(j, radio[k])'
  <2>1. CASE j = n
    BY <1>4, <1>5, <2>1 DEF Reaches, NotScheduled
  <2>2. CASE j # n
    <3>1. /\ radio'[j].transmissionTimer = radio[j].transmissionTimer
          /\ radio'[k].heard = radio[k].heard
          /\ radio[k].arriving = radio'[k].arriving
      BY <1>4, <1>5, <2>2
    <3>2. Reaches(j, radio[k])
      BY AirHost
    <3> QED BY <3>1, <3>2 DEF Reaches
  <2> QED BY <2>1, <2>2
<1> QED BY <1>9, <1>11, <1>12 DEF AirInv

(* Time passes for every MAC and every signal alike.                        *)
LEMMA TickHost ==
    ASSUME NicInv, NicTick, NEW k \in Nodes
    PROVE  /\ mac'[k] = MacTick(mac[k]) /\ radio'[k] = RadioTick(radio[k])
           /\ RadioWaits(radio[k]) /\ 0 \notin MacTimers(mac[k])
           /\ mac'[k].fsm = mac[k].fsm
           /\ mac'[k].frameToAck = mac[k].frameToAck
           /\ mac'[k].endDifs = Left(mac[k].endDifs)
           /\ mac'[k].endAckTimeout = Left(mac[k].endAckTimeout)
           /\ mac'[k].endSifs = Left(mac[k].endSifs)
<1>1. /\ mac'[k] = MacTick(mac[k]) /\ radio'[k] = RadioTick(radio[k])
      /\ RadioWaits(radio[k]) /\ 0 \notin MacTimers(mac[k])
  BY DEF NicTick
<1>2. mac[k] \in MacState
  BY HostsTyped
<1> QED BY <1>1, <1>2 DEF MacTick, MacState

LEMMA TickAir ==
    ASSUME NicInv, AirInv, NicTick
    PROVE  AirInv'
<1>1. ASSUME NEW k \in Nodes
      PROVE  /\ mac'[k].fsm = mac[k].fsm
             /\ mac'[k].endAckTimeout = Left(mac[k].endAckTimeout)
             /\ radio'[k].arriving = {} /\ radio'[k].down = NoFrame
             /\ radio'[k].sending = radio[k].sending /\ radio'[k].mode = radio[k].mode
             /\ radio'[k].transmissionTimer = Left(radio[k].transmissionTimer)
             /\ radio[k].arriving = {}
             /\ \A t \in radio'[k].heard : \E s \in radio[k].heard :
                   /\ t.src = s.src /\ t.frame = s.frame /\ t.clean = s.clean
                   /\ t.attempted = s.attempted /\ s.left > 0 /\ t.left = s.left - 1
                   /\ s.left \in Nat
             /\ \A s \in radio[k].heard : \E t \in radio'[k].heard :
                   t.src = s.src /\ t.left = s.left - 1
             /\ CleanAlone(radio[k]) => CleanAlone(radio'[k])
  <2>1. /\ radio[k] \in RadioState /\ RadioWaits(radio[k])
        /\ radio'[k] = RadioTick(radio[k])
    BY TickHost, HostsTyped
  <2>2. PICK d : d = radio'[k]
    OBVIOUS
  <2>3. /\ d.arriving = {} /\ d.down = NoFrame
        /\ d.sending = radio[k].sending /\ d.mode = radio[k].mode
        /\ d.transmissionTimer = Left(radio[k].transmissionTimer)
        /\ radio[k].arriving = {}
        /\ \A t \in d.heard : \E s \in radio[k].heard :
              /\ t.src = s.src /\ t.frame = s.frame /\ t.clean = s.clean
              /\ t.attempted = s.attempted /\ s.left > 0 /\ t.left = s.left - 1
              /\ s.left \in Nat
        /\ \A s \in radio[k].heard : \E t \in d.heard : t.src = s.src /\ t.left = s.left - 1
        /\ CleanAlone(radio[k]) => CleanAlone(d)
    BY <2>1, <2>2, TickSignals
  <2> QED BY <2>2, <2>3, TickHost
<1>2. ASSUME NEW k \in Nodes
      PROVE  HostAir(mac'[k], radio'[k])
  <2>1. HostAir(mac[k], radio[k])
    BY AirHost
  <2>2. Receiving(radio'[k]) # {} => Receiving(radio[k]) # {}
    BY <1>1 DEF Receiving
  <2>3. /\ radio[k].transmissionTimer \in Nat \cup {-1}
        /\ mac[k].endAckTimeout \in Nat \cup {-1}
    BY HostsTyped DEF MacState, Timer, NotScheduled
  <2>4. /\ radio'[k].transmissionTimer = NotScheduled =>
              radio[k].transmissionTimer = NotScheduled
        /\ mac'[k].endAckTimeout <= mac[k].endAckTimeout
        /\ mac'[k].endAckTimeout \in Int
    BY <1>1, <2>3 DEF Left, NotScheduled
  <2>5. Waits(mac'[k])
    BY <1>1, <2>1, <2>3, <2>4, MacAssumption DEF HostAir, Waits
  <2>6. \A j \in Nodes : NoFrame # Ack(j)
    BY NoFrameIsNoFrame
  <2> QED BY <1>1, <2>1, <2>2, <2>4, <2>5, <2>6 DEF HostAir
<1>3. ASSUME NEW k \in Nodes, NEW f, NEW left \in Nat, left > 0, SentBy(k, f, left)
      PROVE  SentBy(k, f, left - 1)'
  BY <1>1, <1>3 DEF SentBy, Left
<1>4. ASSUME NEW k \in Nodes
      PROVE  SignalsOK(k, radio[k])'
  <2>1. ASSUME NEW t \in radio'[k].heard
        PROVE  /\ t.src # k /\ (t.frame \in Frames => t.frame.src = t.src)
               /\ t.left > 0 => SentBy(t.src, t.frame, t.left)'
    <3>1. PICK s \in radio[k].heard :
             /\ t.src = s.src /\ t.frame = s.frame /\ s.left > 0
             /\ t.left = s.left - 1 /\ s.left \in Nat
      BY <1>1
    <3>2. /\ s.src \in Nodes /\ s.src # k /\ (s.frame \in Frames => s.frame.src = s.src)
          /\ SentBy(s.src, s.frame, s.left)
      BY <3>1, AirHost DEF SignalsOK
    <3>3. SentBy(s.src, s.frame, s.left - 1)'
      BY <1>3, <3>1, <3>2
    <3> QED BY <3>1, <3>2, <3>3
  <2> QED BY <1>1, <2>1 DEF SignalsOK
<1>5. ASSUME NEW k \in Nodes, NEW j \in Nodes \ {k}
      PROVE  Reaches(j, radio[k])'
  <2>1. /\ radio[j].transmissionTimer \in Nat \cup {-1}
        /\ radio'[j].transmissionTimer = Left(radio[j].transmissionTimer)
        /\ radio[k].arriving = {}
    BY <1>1, HostsTyped
  <2>2. Reaches(j, radio[k])
    BY AirHost
  <2>3. CASE radio'[j].transmissionTimer > 0
    <3>1. /\ radio[j].transmissionTimer > 0
          /\ radio'[j].transmissionTimer = radio[j].transmissionTimer - 1
      BY <2>1, <2>3 DEF Left
    <3>2. PICK s \in radio[k].heard : s.src = j /\ s.left = radio[j].transmissionTimer
      BY <2>1, <2>2, <3>1 DEF Reaches
    <3>3. PICK t \in radio'[k].heard : t.src = s.src /\ t.left = s.left - 1
      BY <1>1
    <3> QED BY <3>1, <3>2, <3>3 DEF Reaches
  <2> QED BY <2>3 DEF Reaches
<1> QED BY <1>2, <1>4, <1>5 DEF AirInv

LEMMA AirInit == NicInit => AirInv
<1> SUFFICES ASSUME NicInit PROVE AirInv
  OBVIOUS
<1>1. \A n \in Nodes : mac[n] = MacInit /\ radio[n] = RadioInit
  BY DEF NicInit
<1>2. HostAir(MacInit, RadioInit)
  BY DEF HostAir, Waits, CleanAlone, Receiving, MacInit, RadioInit
<1>3. ASSUME NEW n \in Nodes
      PROVE  SignalsOK(n, radio[n]) /\ \A k \in Nodes : Reaches(k, radio[n])
  BY <1>1, <1>3 DEF SignalsOK, Reaches, RadioInit, NotScheduled
<1> QED BY <1>1, <1>2, <1>3 DEF AirInv

LEMMA AirStepKeeps ==
    ASSUME \A x, y \in Nodes : x # y => <<x, y>> \in Hears, ~PrioritizeByUP,
           NicInv, LinkInv, AirInv, [NicNext]_nicVars
    PROVE  AirInv'
<1>1. CASE UNCHANGED nicVars
  BY <1>1 DEF nicVars, AirInv, SignalsOK, SentBy, Reaches
<1>2. CASE NicTick
  BY <1>2, TickAir
<1>3. CASE NicEnd
  BY <1>1, <1>3 DEF NicEnd
<1>4. ASSUME NEW n \in Nodes, NicEvent(n)
      PROVE  AirInv'
  <2>1. ASSUME NEW f \in Frames, QueueFrame(n, f) PROVE AirInv'
    BY <2>1, QueueFrameAir
  <2>2. CASE EndDifs(n) \/ EndAckTimeout(n) \/ \E f \in Frames : RefuseFrame(n, f)
    BY <2>2, MacEventAir
  <2>3. CASE EndBackoff(n)
    BY <2>3, EndBackoffAir
  <2>4. CASE EndSifs(n)
    BY <2>4, EndSifsAir
  <2>5. CASE ReceiveFrame(n)
    BY <2>5, ReceiveFrameAir
  <2>6. CASE StartTransmission(n)
    BY <2>6, StartTransmissionAir
  <2>7. CASE EndTransmission(n)
    BY <2>7, EndTransmissionAir
  <2>8. ASSUME NEW a \in radio[n].arriving, NEW receivable \in BOOLEAN,
               StartReception(n, a, receivable)
        PROVE  AirInv'
    BY <2>8, StartReceptionAir
  <2>9. ASSUME NEW s \in radio[n].heard, EndReception(n, s) PROVE AirInv'
    BY <2>9, EndReceptionAir
  <2> QED BY <1>4, <2>1, <2>2, <2>3, <2>4, <2>5, <2>6, <2>7, <2>8, <2>9 DEF NicEvent
<1> QED BY <1>1, <1>2, <1>3, <1>4 DEF NicNext
-----------------------------------------------------------------------------
(* From a frame to its acknowledgement nobody else sends.                   *)

LEMMA Answerer ==
    ASSUME NicInv, NEW k \in Nodes, mac[k].fsm = "WAITSIFS"
    PROVE  mac[k].frameToAck \in Frames /\ mac[k].frameToAck.src \in Nodes
<1>1. mac[k].frameToAck \in Frames
  BY HostsTyped DEF MacOK, TimersOK, MacState
<1> QED BY <1>1, MacAssumption

(* An event at n that leaves the hosts calm that are.                       *)
LEMMA GuardStep ==
    ASSUME NicInv, NicInv', GuardInv, NEW n \in Nodes, NEW m2, NEW r2,
           mac' = [mac EXCEPT ![n] = m2], radio' = [radio EXCEPT ![n] = r2],
           UseAck => \A gap \in 1..DifsTime :
                        Calm(mac[n], radio[n], gap) => Calm(m2, r2, gap),
           Hushed(radio[n]) => Hushed(r2),
           Protects(n, m2, r2), Undisturbed(n, r2),
           \A k \in Nodes : UseAck /\ radio[n].sending = Ack(k) =>
                               r2.sending = Ack(k) \/ Calm(m2, r2, 1)
    PROVE  GuardInv'
<1>1. /\ mac'[n] = m2 /\ radio'[n] = r2
      /\ \A k \in Nodes \ {n} : mac'[k] = mac[k] /\ radio'[k] = radio[k]
  BY DEF NicInv
<1>2. ASSUME NEW busy, NEW gap, Still(busy, gap)
      PROVE  Still(busy, gap)'
  <2>1. UseAck /\ gap \in 1..DifsTime
    BY <1>2 DEF Still
  <2>2. ASSUME NEW k \in Nodes \ busy
        PROVE  Calm(mac'[k], radio'[k], gap)
    <3>1. Calm(mac[k], radio[k], gap)
      BY <1>2 DEF Still
    <3> QED BY <1>1, <2>1, <3>1
  <2> QED BY <2>1, <2>2 DEF Still
<1>3. ASSUME NEW to \in Nodes, NEW busy, NEW gap, Exchange(to, busy, gap)
      PROVE  Exchange(to, busy, gap)'
  <2>1. Hushed(radio[to]) /\ Still(busy, gap)
    BY <1>3 DEF Exchange
  <2>2. Hushed(radio'[to])
    BY <1>1, <2>1
  <2> QED BY <1>2, <2>1, <2>2 DEF Exchange
<1>4. ASSUME NEW k \in Nodes, NEW j \in Nodes, UseAck, 1 \in 1..DifsTime, Ends(k, j)
      PROVE  Ends(k, j)'
  <2>1. CASE k = n
    BY <1>1, <1>4, <2>1 DEF Ends
  <2>2. CASE k # n
    BY <1>1, <1>4, <2>2 DEF Ends
  <2> QED BY <2>1, <2>2
<1>5. \A f \in Frames : f.src \in Nodes
  BY MacAssumption
<1>6. ASSUME NEW d \in Nodes, NEW m, NEW r, Protects(d, m, r),
             m.fsm = "WAITSIFS" => m.frameToAck.src \in Nodes
      PROVE  Protects(d, m, r)'
  BY <1>3, <1>5, <1>6 DEF Protects, Answers
<1>7. ASSUME NEW d \in Nodes, NEW r, Undisturbed(d, r), \A s \in r.heard : s.src \in Nodes
      PROVE  Undisturbed(d, r)'
  <2>1. ASSUME NEW a \in r.arriving, a.frame = Ack(d)
        PROVE  r.heard = {} /\ r.arriving = {a} /\ Still({d, a.src}, 1)'
    BY <1>2, <1>7, <2>1 DEF Undisturbed
  <2>2. ASSUME NEW s \in r.heard, s.frame = Ack(d)
        PROVE  s.clean /\ r.arriving = {} /\ Still({d, s.src}, 1)' /\ Ends(s.src, d)'
    <3>1. s.clean /\ r.arriving = {} /\ Still({d, s.src}, 1) /\ Ends(s.src, d)
      BY <1>7, <2>2 DEF Undisturbed
    <3>2. UseAck /\ 1 \in 1..DifsTime /\ s.src \in Nodes
      BY <1>7, <3>1 DEF Still
    <3> QED BY <1>2, <1>4, <3>1, <3>2
  <2> QED BY <2>1, <2>2 DEF Undisturbed
<1>8. ASSUME NEW d \in Nodes
      PROVE  Protects(d, mac[d], radio[d])' /\ Undisturbed(d, radio[d])'
  <2>1. PICK m : m = mac'[d]
    OBVIOUS
  <2>2. PICK r : r = radio'[d]
    OBVIOUS
  <2>3. Protects(d, m, r) /\ Undisturbed(d, r)
    <3>1. CASE d = n
      BY <1>1, <2>1, <2>2, <3>1
    <3>2. CASE d # n
      <4>1. m = mac[d] /\ r = radio[d]
        BY <1>1, <2>1, <2>2, <3>2
      <4> QED BY <4>1 DEF GuardInv
    <3> QED BY <3>1, <3>2
  <2>4. /\ m.fsm = "WAITSIFS" => m.frameToAck.src \in Nodes
        /\ \A s \in r.heard : s.src \in Nodes
    <3>1. /\ MacOK(mac'[d]) /\ radio'[d] \in RadioState
      BY DEF NicInv, HostInv
    <3>2. m.fsm = "WAITSIFS" => m.frameToAck \in Frames
      BY <2>1, <3>1 DEF MacOK, TimersOK, MacState
    <3>3. \A s \in r.heard : s.src \in Nodes
      BY <2>2, <3>1 DEF RadioState, Signal
    <3> QED BY <1>5, <3>2, <3>3
  <2>5. Protects(d, m, r)' /\ Undisturbed(d, r)'
    BY <1>6, <1>7, <2>3, <2>4
  <2> QED BY <2>1, <2>2, <2>5 DEF Protects, Undisturbed
<1> QED BY <1>8 DEF GuardInv

LEMMA GuardHost ==
    ASSUME GuardInv, NEW n \in Nodes
    PROVE  Protects(n, mac[n], radio[n]) /\ Undisturbed(n, radio[n])
  BY DEF GuardInv

(* An event of the MAC alone.                                               *)
LEMMA MacGuard ==
    ASSUME NicInv, NicInv', GuardInv, NEW n \in Nodes, NEW m2,
           radio' = radio, mac' = [mac EXCEPT ![n] = m2],
           UseAck => \A gap \in 1..DifsTime :
                        CalmMac(mac[n], gap) => CalmMac(m2, gap),
           m2.fsm = "WAITSIFS" => /\ mac[n].fsm = "WAITSIFS"
                                  /\ m2.endSifs = mac[n].endSifs
                                  /\ m2.frameToAck = mac[n].frameToAck
    PROVE  GuardInv'
<1>1. radio' = [radio EXCEPT ![n] = radio[n]]
  BY SameRadio
<1>2. Protects(n, m2, radio[n]) /\ Undisturbed(n, radio[n])
  BY GuardHost DEF Protects
<1>3. UseAck => \A gap \in 1..DifsTime :
                   Calm(mac[n], radio[n], gap) => Calm(m2, radio[n], gap)
  BY DEF Calm
<1> QED BY <1>1, <1>2, <1>3, GuardStep

LEMMA QueueFrameGuard ==
    ASSUME ~PrioritizeByUP, NicInv, NicInv', GuardInv, NEW n \in Nodes,
           NEW f \in Frames, QueueFrame(n, f)
    PROVE  GuardInv'
<1>1. PICK m2 \in UpperFrame(mac[n], f, Rx(n)) : mac' = [mac EXCEPT ![n] = m2]
  BY DEF QueueFrame
<1>2. radio' = radio /\ mac[n] \in MacState
  BY HostsTyped DEF QueueFrame
<1>3. m2.fsm \in Engaged => m2 = [mac[n] EXCEPT !.queue = Append(mac[n].queue, f)]
  BY <1>1, <1>2, UpperFrameJoins
<1>4. m2.fsm = "WAITSIFS" => /\ mac[n].fsm = "WAITSIFS"
                             /\ m2.endSifs = mac[n].endSifs
                             /\ m2.frameToAck = mac[n].frameToAck
  BY <1>2, <1>3 DEF Engaged, MacState
<1>5. UseAck => \A gap \in 1..DifsTime : CalmMac(mac[n], gap) => CalmMac(m2, gap)
  BY <1>1, <1>2, UpperFrameCalm
<1> QED BY <1>1, <1>2, <1>4, <1>5, MacGuard

LEMMA MacEventGuard ==
    ASSUME NicInv, NicInv', GuardInv, NEW n \in Nodes,
           EndDifs(n) \/ EndAckTimeout(n) \/ \E f \in Frames : RefuseFrame(n, f)
    PROVE  GuardInv'
<1>1. radio' = radio
  BY DEF EndDifs, EndAckTimeout, RefuseFrame
<1>2. CASE EndDifs(n)
  <2>1. PICK m2 \in DifsOver(mac[n], Rx(n)) : mac' = [mac EXCEPT ![n] = m2]
    BY <1>2 DEF EndDifs
  <2>2. mac[n].endDifs = 0 /\ mac[n] \in MacState /\ mac[n].fsm = "WAITDIFS"
    BY <1>2, HostsTyped, FiresIn DEF EndDifs
  <2>3. Stays(mac[n], m2)
    BY <2>1, <2>2, DifsOverStays
  <2>4. m2.fsm # "WAITSIFS"
    BY <2>2, <2>3 DEF Stays, Engaged
  <2>5. \A gap \in 1..DifsTime : ~CalmMac(mac[n], gap)
    BY <2>2 DEF CalmMac
  <2> QED BY <1>1, <2>1, <2>4, <2>5, MacGuard
<1>3. CASE EndAckTimeout(n)
  <2>1. PICK m2 \in AckOverdue(mac[n], Rx(n)) : mac' = [mac EXCEPT ![n] = m2]
    BY <1>3 DEF EndAckTimeout
  <2>2. mac[n].endAckTimeout = 0 /\ MacOK(mac[n])
    BY <1>3, HostsTyped DEF EndAckTimeout
  <2>3. m2.fsm # "WAITSIFS"
    BY <2>1, <2>2, AckOverdueFrees DEF Engaged
  <2>4. UseAck => \A gap \in 1..DifsTime : CalmMac(m2, gap)
    BY <2>1, <2>2, AckOverdueCalm
  <2> QED BY <1>1, <2>1, <2>3, <2>4, MacGuard
<1>4. CASE \E f \in Frames : RefuseFrame(n, f)
  <2>1. mac' = [mac EXCEPT ![n] = mac[n]]
    BY <1>4 DEF RefuseFrame, NicInv
  <2> QED BY <1>1, <2>1, MacGuard
<1> QED BY <1>2, <1>3, <1>4

(* A host that becomes a transmitter was not calm.                          *)
Uncalm(m) == m.fsm \in {"BACKOFF", "WAITSIFS"}

MaySend(n, f) ==
    \A k \in Nodes : f = Ack(k) => Exchange(k, {k, n}, DifsTime - SifsTime)

LEMMA SwitchGuard ==
    ASSUME NicInv, NicInv', GuardInv, NEW n \in Nodes, NEW m2, NEW f, NEW r2,
           Uncalm(mac[n]), r2 = HandDown(radio[n], f), MaySend(n, f),
           mac' = [mac EXCEPT ![n] = m2], radio' = [radio EXCEPT ![n] = r2],
           m2.fsm # "WAITSIFS"
    PROVE  GuardInv'
<1>1. /\ r2.arriving = radio[n].arriving /\ r2.up = radio[n].up /\ r2.down = f
      /\ r2.sending = radio[n].sending /\ Receiving(r2) = {}
      /\ radio[n].heard = {} => r2.heard = {}
      /\ \A t \in r2.heard : \E s \in radio[n].heard :
            t.src = s.src /\ t.frame = s.frame /\ t.left = s.left /\ t.clean = s.clean
  BY HostsTyped, SwitchSignals
<1>2. Protects(n, mac[n], radio[n]) /\ Undisturbed(n, radio[n])
  BY GuardHost
<1>3. Protects(n, m2, r2)
  BY <1>1, <1>2 DEF Protects, MaySend
<1>4. ASSUME NEW t \in r2.heard, t.frame = Ack(n)
      PROVE  t.clean /\ r2.arriving = {} /\ Still({n, t.src}, 1) /\ Ends(t.src, n)
  <2>1. PICK s \in radio[n].heard :
           t.src = s.src /\ t.frame = s.frame /\ t.clean = s.clean
    BY <1>1
  <2> QED BY <1>1, <1>2, <1>4, <2>1 DEF Undisturbed
<1>5. Undisturbed(n, r2)
  BY <1>1, <1>2, <1>4 DEF Undisturbed
<1>6. UseAck => \A gap \in 1..DifsTime :
                   Calm(mac[n], radio[n], gap) => Calm(m2, r2, gap)
  BY DEF Calm, CalmMac, Uncalm
<1>7. Hushed(radio[n]) => Hushed(r2)
  BY <1>1 DEF Hushed
<1>8. \A k \in Nodes : UseAck /\ radio[n].sending = Ack(k) =>
                         r2.sending = Ack(k) \/ Calm(m2, r2, 1)
  BY <1>1
<1>9. mac' = [mac EXCEPT ![n] = m2] /\ radio' = [radio EXCEPT ![n] = r2]
  OBVIOUS
<1>10. NicInv /\ NicInv' /\ GuardInv
  OBVIOUS
<1> QED BY ONLY n \in Nodes, <1>3, <1>5, <1>6, <1>7, <1>8, <1>9, <1>10, GuardStep

LEMMA EndBackoffGuard ==
    ASSUME NicInv, NicInv', LinkInv, GuardInv, NEW n \in Nodes, EndBackoff(n)
    PROVE  GuardInv'
<1>1. PICK m2 \in BackoffOver(mac[n], Rx(n)) : mac' = [mac EXCEPT ![n] = m2]
  BY DEF EndBackoff
<1>2. /\ mac[n].fsm = "BACKOFF" /\ mac[n].queue # <<>> /\ mac[n] \in MacState
  BY HostsTyped, FiresIn DEF EndBackoff, MacOK, Contending
<1>3. m2.fsm = "TRANSMIT"
  BY <1>1, <1>2, BackoffOverSends
<1>4. PICK f : f = Current(mac[n])
  OBVIOUS
<1>5. \A k \in Nodes : f # Ack(k)
  BY <1>2, <1>4, QueuedFrames, AcksAreNotData
<1>6. PICK r2 : r2 = HandDown(radio[n], f)
  OBVIOUS
<1>7. radio' = [radio EXCEPT ![n] = r2]
  BY <1>2, <1>4, <1>6 DEF EndBackoff, Transmits
<1>8. m2.fsm # "WAITSIFS" /\ Uncalm(mac[n]) /\ MaySend(n, f)
  BY <1>2, <1>3, <1>5 DEF Uncalm, MaySend
<1> QED BY <1>1, <1>6, <1>7, <1>8, SwitchGuard

LEMMA EndSifsGuard ==
    ASSUME NicInv, NicInv', GuardInv, NEW n \in Nodes, EndSifs(n)
    PROVE  GuardInv'
<1>1. mac[n].endSifs = 0 /\ MacOK(mac[n])
  BY HostsTyped DEF EndSifs
<1>2. PICK rx : \E m2 \in SifsOver(mac[n], rx) : mac' = [mac EXCEPT ![n] = m2]
  BY DEF EndSifs
<1>3. PICK m2 \in SifsOver(mac[n], rx) : mac' = [mac EXCEPT ![n] = m2]
  BY <1>2
<1>4. SendsAck(mac[n]) /\ mac[n].fsm = "WAITSIFS" /\ m2.fsm # "WAITSIFS"
  BY <1>1, <1>3, SifsOverFrees DEF Engaged
<1>5. PICK j \in Nodes : j = mac[n].frameToAck.src
  BY <1>4, Answerer
<1>6. PICK f : f = Ack(j)
  OBVIOUS
<1>7. PICK r2 : r2 = HandDown(radio[n], f)
  OBVIOUS
<1>8. radio' = [radio EXCEPT ![n] = r2]
  BY <1>4, <1>5, <1>6, <1>7 DEF EndSifs
<1>9. Exchange(j, {j, n}, DifsTime - SifsTime)
  <2>1. Exchange(j, {j, n}, (DifsTime - SifsTime) + 0)
    BY <1>1, <1>4, <1>5, GuardHost DEF Protects
  <2>2. (DifsTime - SifsTime) + 0 = DifsTime - SifsTime
    BY MacAssumption
  <2> QED BY <2>1, <2>2
<1>10. \A k \in Nodes : f = Ack(k) => k = j
  BY <1>6 DEF Ack
<1>11. Uncalm(mac[n]) /\ MaySend(n, f)
  BY <1>4, <1>9, <1>10 DEF Uncalm, MaySend
<1> QED BY <1>3, <1>4, <1>7, <1>8, <1>11, SwitchGuard

LEMMA StartReceptionGuard ==
    ASSUME NicInv, NicInv', AirInv, GuardInv, NEW n \in Nodes,
           NEW a \in radio[n].arriving, NEW receivable \in BOOLEAN,
           StartReception(n, a, receivable)
    PROVE  GuardInv'
<1>1. PICK r2 : r2 = ReceptionStarted(radio[n], a, receivable)
  OBVIOUS
<1>2. PICK new : new = [src |-> a.src, frame |-> a.frame,
                        clean |-> radio[n].heard = {}, left |-> Duration(a.frame),
                        attempted |-> Attempts(radio[n], receivable)]
  OBVIOUS
<1>3. Notify(n, r2)
  BY <1>1 DEF StartReception
<1>4. PICK m2 : /\ mac' = [mac EXCEPT ![n] = m2] /\ Stays(mac[n], m2)
                /\ UseAck => \A gap \in 1..DifsTime :
                                CalmMac(mac[n], gap) => CalmMac(m2, gap)
  BY <1>3, NotifyStays
<1>5. /\ r2.arriving = radio[n].arriving \ {a} /\ r2.up = radio[n].up
      /\ r2.down = radio[n].down /\ r2.sending = radio[n].sending
      /\ r2.transmissionTimer = radio[n].transmissionTimer
      /\ \A t \in r2.heard : t # new =>
            /\ ~t.clean
            /\ \E s \in radio[n].heard : t.src = s.src /\ t.frame = s.frame
      /\ radio[n].heard = {} => r2.heard = {new}
  BY <1>1, <1>2, HostsTyped, StartedSignals
<1>6. /\ new.src = a.src /\ new.frame = a.frame /\ new.left = Duration(a.frame)
      /\ new.clean <=> radio[n].heard = {}
  BY <1>2
<1>7. Protects(n, mac[n], radio[n]) /\ Undisturbed(n, radio[n])
  BY GuardHost
<1>8. ASSUME NEW s \in Receiving(r2), s.clean, s.left < DataTime, Answers(n, s.frame)
      PROVE  FALSE
  <2>1. s = new
    BY <1>5, <1>8 DEF Receiving
  <2>2. s.left = DataTime
    BY <1>6, <1>8, <2>1, MacAssumption DEF Answers, Duration
  <2> QED BY <1>8, <2>2, RadioAssumption
<1>9. Protects(n, m2, r2)
  <2>1. m2.fsm = "WAITSIFS" => m2 = mac[n]
    BY <1>4 DEF Stays, Engaged
  <2>2. /\ m2.fsm = "WAITSIFS" =>
              Exchange(m2.frameToAck.src, {m2.frameToAck.src, n},
                       (DifsTime - SifsTime) + m2.endSifs)
        /\ \A k \in Nodes : r2.down = Ack(k) => Exchange(k, {k, n}, DifsTime - SifsTime)
    BY <1>5, <1>7, <2>1 DEF Protects
  <2>3. \A i \in DOMAIN r2.up :
           ~r2.up[i].bitError /\ Answers(n, r2.up[i].frame) =>
              Exchange(r2.up[i].frame.src, {r2.up[i].frame.src}, DifsTime)
    BY <1>5, <1>7 DEF Protects
  <2> QED BY <1>8, <2>2, <2>3 DEF Protects
<1>10. ASSUME NEW b \in r2.arriving, b.frame = Ack(n)
       PROVE  FALSE
  <2>1. b \in radio[n].arriving /\ b # a
    BY <1>5
  <2>2. radio[n].arriving = {b}
    BY <1>7, <1>10, <2>1 DEF Undisturbed
  <2> QED BY <2>1, <2>2
<1>11. ASSUME NEW t \in r2.heard, t.frame = Ack(n)
       PROVE  t.clean /\ r2.arriving = {} /\ Still({n, t.src}, 1) /\ Ends(t.src, n)
  <2>1. CASE t # new
    <3>1. PICK s \in radio[n].heard : s.frame = Ack(n)
      BY <1>5, <1>11, <2>1
    <3>2. radio[n].arriving = {}
      BY <1>7, <3>1 DEF Undisturbed
    <3> QED BY <3>2
  <2>2. CASE t = new
    <3>1. a.frame = Ack(n)
      BY <1>6, <1>11, <2>2
    <3>2. radio[n].heard = {} /\ radio[n].arriving = {a} /\ Still({n, a.src}, 1)
      BY <1>7, <3>1 DEF Undisturbed
    <3>3. Ends(a.src, n)
      BY <3>1, AirHost DEF SignalsOK, SentBy, Ends
    <3> QED BY <1>5, <1>6, <2>2, <3>2, <3>3
  <2> QED BY <2>1, <2>2
<1>12. Undisturbed(n, r2)
  BY <1>10, <1>11 DEF Undisturbed
<1>13. UseAck => \A gap \in 1..DifsTime :
                    Calm(mac[n], radio[n], gap) => Calm(m2, r2, gap)
  BY <1>4, <1>5 DEF Calm
<1>14. Hushed(radio[n]) => Hushed(r2)
  BY DEF Hushed
<1>15. \A k \in Nodes : UseAck /\ radio[n].sending = Ack(k) =>
                          r2.sending = Ack(k) \/ Calm(m2, r2, 1)
  BY <1>5
<1>16. mac' = [mac EXCEPT ![n] = m2] /\ radio' = [radio EXCEPT ![n] = r2]
  BY <1>3, <1>4, NotifyStays
<1> QED BY <1>9, <1>12, <1>13, <1>14, <1>15, <1>16, GuardStep

LEMMA EndReceptionGuard ==
    ASSUME NicInv, NicInv', LinkInv, AirInv, GuardInv, NEW n \in Nodes,
           NEW s \in radio[n].heard, EndReception(n, s)
    PROVE  GuardInv'
<1>1. PICK r2 : r2 = ReceptionOver(radio[n], s)
  OBVIOUS
<1>2. Notify(n, r2) /\ s.left = 0
  BY <1>1 DEF EndReception
<1>3. PICK m2 : /\ mac' = [mac EXCEPT ![n] = m2] /\ Stays(mac[n], m2)
                /\ UseAck => \A gap \in 1..DifsTime :
                                CalmMac(mac[n], gap) => CalmMac(m2, gap)
  BY <1>2, NotifyStays
<1>4. /\ r2.arriving = radio[n].arriving /\ r2.down = radio[n].down
      /\ r2.sending = radio[n].sending
      /\ r2.transmissionTimer = radio[n].transmissionTimer
      /\ r2.heard = radio[n].heard \ {s}
      /\ Receiving(r2) \subseteq Receiving(radio[n])
      /\ \/ r2.up = radio[n].up
         \/ /\ s.attempted
            /\ \E x : /\ r2.up = Append(radio[n].up, x) /\ x.frame = s.frame
                      /\ x.bitError \/ s.clean
  <2>1. radio[n] \in RadioState
    BY HostsTyped
  <2> QED BY <1>1, <2>1, OverSignals
<1>5. Protects(n, mac[n], radio[n]) /\ Undisturbed(n, radio[n])
  BY GuardHost
<1>6. ASSUME NEW i \in DOMAIN r2.up, ~r2.up[i].bitError, Answers(n, r2.up[i].frame)
      PROVE  Exchange(r2.up[i].frame.src, {r2.up[i].frame.src}, DifsTime)
  <2>1. CASE r2.up = radio[n].up
    BY <1>5, <1>6, <2>1 DEF Protects
  <2>2. CASE /\ s.attempted
             /\ \E x : /\ r2.up = Append(radio[n].up, x) /\ x.frame = s.frame
                       /\ x.bitError \/ s.clean
    <3>1. PICK x : /\ r2.up = Append(radio[n].up, x) /\ x.frame = s.frame
                   /\ x.bitError \/ s.clean
      BY <2>2
    <3>2. s \in Receiving(radio[n]) /\ radio[n].up = <<>>
      BY <1>2, <2>2, QueuedFrames DEF Receiving, TurnOK
    <3>3. r2.up = <<x>>
      BY <3>1, <3>2
    <3>4. i = 1 /\ r2.up[i] = x
      BY <3>3
    <3>5. s.clean /\ Answers(n, s.frame) /\ s.left < DataTime
      BY <1>2, <1>6, <3>1, <3>4, RadioAssumption
    <3> QED BY <1>5, <3>1, <3>2, <3>4, <3>5 DEF Protects
  <2> QED BY <1>4, <2>1, <2>2
<1>7. Protects(n, m2, r2)
  <2>1. m2.fsm = "WAITSIFS" => m2 = mac[n]
    BY <1>3 DEF Stays, Engaged
  <2>2. /\ m2.fsm = "WAITSIFS" =>
              Exchange(m2.frameToAck.src, {m2.frameToAck.src, n},
                       (DifsTime - SifsTime) + m2.endSifs)
        /\ \A k \in Nodes : r2.down = Ack(k) => Exchange(k, {k, n}, DifsTime - SifsTime)
    BY <1>4, <1>5, <2>1 DEF Protects
  <2>3. \A t \in Receiving(r2) :
           t.clean /\ t.left < DataTime /\ Answers(n, t.frame) =>
              Exchange(t.frame.src, {t.frame.src}, DifsTime)
    BY <1>4, <1>5 DEF Protects
  <2> QED BY <1>6, <2>2, <2>3 DEF Protects
<1>8. Undisturbed(n, r2)
  BY <1>4, <1>5 DEF Undisturbed
<1>9. UseAck => \A gap \in 1..DifsTime :
                   Calm(mac[n], radio[n], gap) => Calm(m2, r2, gap)
  BY <1>3, <1>4 DEF Calm
<1>10. Hushed(radio[n]) => Hushed(r2)
  BY <1>4 DEF Hushed
<1>11. \A k \in Nodes : UseAck /\ radio[n].sending = Ack(k) =>
                          r2.sending = Ack(k) \/ Calm(m2, r2, 1)
  BY <1>4
<1>12. mac' = [mac EXCEPT ![n] = m2] /\ radio' = [radio EXCEPT ![n] = r2]
  BY <1>2, <1>3, NotifyStays
<1> QED BY <1>7, <1>8, <1>9, <1>10, <1>11, <1>12, GuardStep

(* The host p is about to send, or has just sent.                           *)
Sends(p) == \A gap \in 1..DifsTime : ~Calm(mac[p], radio[p], gap)

(* What is protected while p sends is an exchange of p.                     *)
Involves(p, d) ==
    /\ \A s \in Receiving(radio[d]) :
          s.clean /\ s.left < DataTime /\ Answers(d, s.frame) =>
             s.frame.src = p /\ AckWanted(s.frame) /\ FliesNow(s.frame, s.left)
    /\ \A i \in DOMAIN radio[d].up :
          ~radio[d].up[i].bitError /\ Answers(d, radio[d].up[i].frame) =>
             /\ radio[d].up[i].frame.src = p /\ AckWanted(radio[d].up[i].frame)
             /\ FliesNow(radio[d].up[i].frame, 0)
    /\ mac[d].fsm = "WAITSIFS" => d = p \/ mac[d].frameToAck.src = p
    /\ \A k \in Nodes : radio[d].down = Ack(k) => d = p \/ k = p
    /\ \A a \in radio[d].arriving : a.frame = Ack(d) => d = p \/ a.src = p
    /\ \A s \in radio[d].heard : s.frame = Ack(d) => d = p \/ s.src = p

LEMMA ExchangesOf ==
    ASSUME NicInv, LinkInv, GuardInv, NEW p \in Nodes, Sends(p), NEW d \in Nodes
    PROVE  Involves(p, d)
<1>1. ASSUME NEW busy, NEW gap, Still(busy, gap)
      PROVE  p \in busy
  BY <1>1 DEF Still, Sends
<1>2. ASSUME NEW to, NEW busy, NEW gap, Exchange(to, busy, gap)
      PROVE  p \in busy
  BY <1>1, <1>2 DEF Exchange
<1>3. Protects(d, mac[d], radio[d]) /\ Undisturbed(d, radio[d])
  BY GuardHost
<1>4. \A f : Answers(d, f) => f \in Frames /\ AckWanted(f)
  BY MacAssumption DEF Answers, AckWanted
<1>5. \A c \in Coming(radio[d]) : ComingOK(d, c)
  BY QueuedFrames
<1>6. ASSUME NEW s \in Receiving(radio[d]), s.clean, s.left < DataTime,
             Answers(d, s.frame)
      PROVE  s.frame.src = p /\ AckWanted(s.frame) /\ FliesNow(s.frame, s.left)
  <2>1. s.frame.src = p
    BY <1>2, <1>3, <1>6 DEF Protects
  <2>2. PICK c : c = [frame |-> s.frame, left |-> s.left]
    OBVIOUS
  <2>3. c \in Coming(radio[d]) /\ c.frame = s.frame /\ c.left = s.left
    BY <2>2 DEF Coming
  <2>4. FliesNow(s.frame, s.left)
    BY <1>4, <1>5, <1>6, <2>3 DEF ComingOK
  <2> QED BY <1>4, <1>6, <2>1, <2>4
<1>7. ASSUME NEW i \in DOMAIN radio[d].up, ~radio[d].up[i].bitError,
             Answers(d, radio[d].up[i].frame)
      PROVE  /\ radio[d].up[i].frame.src = p /\ AckWanted(radio[d].up[i].frame)
             /\ FliesNow(radio[d].up[i].frame, 0)
  <2>1. radio[d].up[i].frame.src = p
    BY <1>2, <1>3, <1>7 DEF Protects
  <2>2. PICK c : c = [frame |-> radio[d].up[i].frame, left |-> 0]
    OBVIOUS
  <2>3. c \in Coming(radio[d]) /\ c.frame = radio[d].up[i].frame /\ c.left = 0
    BY <2>2 DEF Coming
  <2>4. FliesNow(radio[d].up[i].frame, 0)
    BY <1>4, <1>5, <1>7, <2>3 DEF ComingOK
  <2> QED BY <1>4, <1>7, <2>1, <2>4
<1>8. mac[d].fsm = "WAITSIFS" => d = p \/ mac[d].frameToAck.src = p
  <2>1. ASSUME mac[d].fsm = "WAITSIFS"
        PROVE  p \in {mac[d].frameToAck.src, d}
    BY <1>2, <1>3, <2>1 DEF Protects
  <2> QED BY <2>1
<1>9. \A k \in Nodes : radio[d].down = Ack(k) => d = p \/ k = p
  <2>1. ASSUME NEW k \in Nodes, radio[d].down = Ack(k)
        PROVE  p \in {k, d}
    BY <1>2, <1>3, <2>1 DEF Protects
  <2> QED BY <2>1
<1>10. ASSUME NEW a \in radio[d].arriving, a.frame = Ack(d)
       PROVE  d = p \/ a.src = p
  <2>1. p \in {d, a.src}
    BY <1>1, <1>3, <1>10 DEF Undisturbed
  <2> QED BY <2>1
<1>11. ASSUME NEW s \in radio[d].heard, s.frame = Ack(d)
       PROVE  d = p \/ s.src = p
  <2>1. p \in {d, s.src}
    BY <1>1, <1>3, <1>11 DEF Undisturbed
  <2> QED BY <2>1
<1> QED BY <1>6, <1>7, <1>8, <1>9, <1>10, <1>11 DEF Involves

(* Nothing that d does or hears is protected.                               *)
Unguarded(d, m, r) ==
    /\ \A s \in Receiving(r) : s.clean /\ s.left < DataTime => ~Answers(d, s.frame)
    /\ \A i \in DOMAIN r.up : ~r.up[i].bitError => ~Answers(d, r.up[i].frame)
    /\ m.fsm # "WAITSIFS"
    /\ \A k \in Nodes : r.down # Ack(k)

NoAck(d, r) ==
    /\ \A a \in r.arriving : a.frame # Ack(d)
    /\ \A s \in r.heard : s.frame # Ack(d)

LEMMA UnguardedProtects ==
    ASSUME NEW d, NEW m, NEW r, Unguarded(d, m, r), NoAck(d, r)
    PROVE  Protects(d, m, r)' /\ Undisturbed(d, r)'
<1>1. Protects(d, m, r)'
  BY DEF Unguarded, Protects, Answers
<1>2. Undisturbed(d, r)'
  BY DEF NoAck, Undisturbed
<1> QED BY <1>1, <1>2

(* The host whose frame has just ended.                                     *)
LEMMA HasSent ==
    ASSUME NicInv, AirInv, NEW p \in Nodes,
           \/ mac[p].fsm = "TRANSMIT" /\ radio[p].transmissionTimer = 0
           \/ mac[p].fsm = "WAITACK" /\ mac[p].endAckTimeout = AckTimeout
    PROVE  /\ Sends(p) /\ mac[p].fsm # "WAITSIFS"
           /\ \A k \in Nodes : radio[p].down # Ack(k) /\ radio[p].sending # Ack(k)
<1>1. Sends(p)
  BY MacAssumption DEF Sends, Calm, CalmMac
<1>2. HostAir(mac[p], radio[p])
  BY AirHost
<1>3. CASE mac[p].fsm = "TRANSMIT"
  BY <1>1, <1>2, <1>3 DEF HostAir
<1>4. CASE mac[p].fsm = "WAITACK"
  <2>1. radio[p].mode = "RECEIVER"
    BY <1>4, HostBefore
  <2>2. radio[p].down = NoFrame /\ radio[p].transmissionTimer = NotScheduled
    BY <2>1, HostBefore DEF RadioOK
  <2>3. radio[p].sending = NoFrame
    BY <1>2, <2>2 DEF HostAir
  <2> QED BY <1>1, <1>4, <2>2, <2>3, NoFrameIsNoFrame
<1> QED BY <1>3, <1>4

(* A whole frame that n has received: its sender waits, and nobody else     *)
(* is about to send.                                                        *)
LEMMA AnswerAlone ==
    ASSUME NicInv, LinkInv, AirInv, GuardInv, NEW n \in Nodes, radio[n].up # <<>>,
           NEW f, f = Head(radio[n].up).frame, ~Head(radio[n].up).bitError,
           Answers(n, f), mac[n].fsm = "RECEIVE", NEW p, p = f.src,
           NEW d \in Nodes
    PROVE  /\ p \in Nodes /\ p # n /\ Exchange(p, {p}, DifsTime)
           /\ mac[d].fsm # "WAITSIFS" /\ NoAck(d, radio[d])
           /\ \A k \in Nodes : radio[d].down # Ack(k)
           /\ \A s \in Receiving(radio[d]) :
                 s.clean /\ s.left < DataTime => ~Answers(d, s.frame)
           /\ d # n => \A i \in DOMAIN radio[d].up :
                 ~radio[d].up[i].bitError => ~Answers(d, radio[d].up[i].frame)
<1>1. f \in Frames /\ f.dst = n /\ AckWanted(f) /\ p \in Nodes
  BY MacAssumption DEF Answers, AckWanted
<1>2. p # n /\ FliesNow(f, 0)
  BY <1>1, UpFrame
<1>3. /\ Working(mac[p], f)
      /\ \/ mac[p].fsm = "TRANSMIT" /\ radio[p].transmissionTimer = 0
         \/ mac[p].fsm = "WAITACK" /\ mac[p].endAckTimeout = AckTimeout
  BY <1>1, <1>2, DeliveredInTurn
<1>4. /\ Sends(p) /\ mac[p].fsm # "WAITSIFS"
      /\ \A k \in Nodes : radio[p].down # Ack(k) /\ radio[p].sending # Ack(k)
  BY <1>1, <1>3, HasSent
<1>5. Exchange(p, {p}, DifsTime)
  <2>1. radio[n].up \in Seq([frame : AllFrames, bitError : BOOLEAN])
    BY HostsTyped DEF RadioState
  <2>2. 1 \in DOMAIN radio[n].up /\ Head(radio[n].up) = radio[n].up[1]
    BY <2>1
  <2> QED BY <2>2, GuardHost DEF Protects
<1>6. /\ Hushed(radio[p]) /\ UseAck /\ 1 \in 1..DifsTime /\ DifsTime \in 1..DifsTime
      /\ \A k \in Nodes \ {p} : Calm(mac[k], radio[k], DifsTime)
  BY <1>5, MacAssumption DEF Exchange, Still
<1>7. ASSUME d # p
      PROVE  mac[d].fsm # "WAITSIFS" /\ radio[d].down = NoFrame
  BY <1>6, <1>7 DEF Calm, CalmMac
<1>8. mac[d].fsm # "WAITSIFS" /\ \A k \in Nodes : radio[d].down # Ack(k)
  BY <1>4, <1>7, NoFrameIsNoFrame
<1>9. ASSUME NEW g, g.src = p, AckWanted(g), NEW left, FliesNow(g, left)
      PROVE  g = f /\ left = 0
  <2>1. Working(mac[p], g)
    BY <1>9 DEF FliesNow, Flies
  <2>2. g = f
    BY <1>3, <2>1 DEF Working
  <2>3. left = 0
    BY <1>3, <1>9 DEF FliesNow, Flies
  <2> QED BY <2>2, <2>3
<1>10. Involves(p, d)
  BY <1>1, <1>4, ExchangesOf
<1>11. ASSUME NEW s \in Receiving(radio[d]), s.clean, s.left < DataTime,
              Answers(d, s.frame)
       PROVE  FALSE
  <2>1. s.frame.src = p /\ AckWanted(s.frame) /\ FliesNow(s.frame, s.left)
    BY <1>10, <1>11 DEF Involves
  <2>2. s.frame = f /\ s.left = 0
    BY <1>9, <2>1
  <2>3. d = n
    BY <1>1, <1>11, <2>2 DEF Answers
  <2>4. s.left > 0
    BY <2>3, QueuedFrames DEF TurnOK
  <2> QED BY <2>2, <2>4
<1>12. ASSUME d # n, NEW i \in DOMAIN radio[d].up, ~radio[d].up[i].bitError,
              Answers(d, radio[d].up[i].frame)
       PROVE  FALSE
  <2>1. PICK g : g = radio[d].up[i].frame
    OBVIOUS
  <2>2. g.src = p /\ AckWanted(g) /\ FliesNow(g, 0)
    BY <1>10, <1>12, <2>1 DEF Involves
  <2>3. g = f
    BY <1>9, <2>2
  <2> QED BY <1>1, <1>12, <2>1, <2>3 DEF Answers
<1>13. NoAck(d, radio[d])
  <2>1. ASSUME NEW a \in radio[d].arriving, a.frame = Ack(d)
        PROVE  FALSE
    <3>1. d = p \/ a.src = p
      BY <1>10, <2>1 DEF Involves
    <3>2. CASE d = p
      BY <1>6, <3>2 DEF Hushed
    <3>3. CASE a.src = p
      <4>1. SentBy(p, Ack(d), Duration(a.frame))
        BY <2>1, <3>3, AirHost DEF SignalsOK
      <4> QED BY <1>4, <4>1 DEF SentBy
    <3> QED BY <3>1, <3>2, <3>3
  <2>2. ASSUME NEW s \in radio[d].heard, s.frame = Ack(d)
        PROVE  FALSE
    <3>1. d = p \/ s.src = p
      BY <1>10, <2>2 DEF Involves
    <3>2. CASE d = p
      BY <1>6, <3>2 DEF Hushed
    <3>3. CASE s.src = p
      <4>1. Ends(p, d)
        BY <2>2, <3>3, GuardHost DEF Undisturbed
      <4> QED BY <1>4, <1>6, <4>1 DEF Ends, Sends
    <3> QED BY <3>1, <3>2, <3>3
  <2> QED BY <2>1, <2>2 DEF NoAck
<1> QED BY <1>1, <1>2, <1>5, <1>8, <1>11, <1>12, <1>13

(* The frame is taken from the radio.                                       *)
LEMMA TailOfOne ==
    ASSUME NEW S, NEW q \in Seq(S), q # <<>>, Len(q) <= 1
    PROVE  DOMAIN Tail(q) = {}
<1>1. Len(q) \in Nat /\ Len(q) # 0 /\ DOMAIN Tail(q) = 1 .. Len(Tail(q))
  OBVIOUS
<1>2. Len(q) = 1
  BY <1>1
<1>3. Len(Tail(q)) = 0
  BY <1>2
<1> QED BY <1>1, <1>3

LEMMA UpTaking ==
    ASSUME NicInv, LinkInv, NEW n \in Nodes, radio[n].up # <<>>,
           NEW r2, r2 = [radio[n] EXCEPT !.up = Tail(@)]
    PROVE  /\ r2.arriving = radio[n].arriving /\ r2.heard = radio[n].heard
           /\ r2.down = radio[n].down /\ r2.sending = radio[n].sending
           /\ r2.transmissionTimer = radio[n].transmissionTimer
           /\ Receiving(r2) = Receiving(radio[n]) /\ DOMAIN r2.up = {}
<1>1. radio[n] \in RadioState
  BY HostsTyped
<1>2. /\ r2.arriving = radio[n].arriving /\ r2.heard = radio[n].heard
      /\ r2.down = radio[n].down /\ r2.sending = radio[n].sending
      /\ r2.transmissionTimer = radio[n].transmissionTimer
      /\ r2.up = Tail(radio[n].up)
  BY <1>1 DEF RadioState
<1>3. radio[n].up \in Seq([frame : AllFrames, bitError : BOOLEAN])
  BY <1>1 DEF RadioState
<1>4. Len(radio[n].up) <= 1
  BY QueuedFrames DEF TurnOK
<1>5. DOMAIN r2.up = {}
  BY <1>2, <1>3, <1>4, TailOfOne
<1>6. Receiving(r2) = Receiving(radio[n])
  BY <1>2 DEF Receiving
<1> QED BY <1>2, <1>5, <1>6

(* A frame that is not answered.                                            *)
LEMMA NotAnsweredGuard ==
    ASSUME NicInv, NicInv', LinkInv, GuardInv, NEW n \in Nodes, ReceiveFrame(n),
           LET f == Head(radio[n].up).frame
           IN  ~(/\ PassesUp(n, mac[n], f, Head(radio[n].up).bitError)
                 /\ AckWanted(f))
    PROVE  GuardInv'
<1>1. PICK f : f = Head(radio[n].up).frame
  OBVIOUS
<1>2. PICK bitError : bitError = Head(radio[n].up).bitError
  OBVIOUS
<1>3. PICK m2 \in LowerFrame(n, mac[n], f, bitError, Rx(n)) :
         mac' = [mac EXCEPT ![n] = m2]
  BY <1>1, <1>2 DEF ReceiveFrame
<1>4. PICK r2 : r2 = [radio[n] EXCEPT !.up = Tail(@)]
  OBVIOUS
<1>5. radio' = [radio EXCEPT ![n] = r2] /\ radio[n].up # <<>>
  BY <1>4 DEF ReceiveFrame
<1>6. /\ r2.arriving = radio[n].arriving /\ r2.heard = radio[n].heard
      /\ r2.down = radio[n].down /\ r2.sending = radio[n].sending
      /\ r2.transmissionTimer = radio[n].transmissionTimer
      /\ Receiving(r2) = Receiving(radio[n]) /\ DOMAIN r2.up = {}
  BY <1>4, <1>5, UpTaking
<1>7. MacOK(mac[n]) /\ ~(PassesUp(n, mac[n], f, bitError) /\ AckWanted(f))
  BY <1>1, <1>2, HostsTyped
<1>8. m2.fsm = "WAITSIFS" => m2 = mac[n]
  <2>1. Stays(mac[n], m2) \/ m2.fsm \notin Engaged
    BY <1>3, <1>7, LowerFrameTakes
  <2> QED BY <2>1 DEF Stays, Engaged
<1>9. UseAck => \A gap \in 1..DifsTime :
                   Calm(mac[n], radio[n], gap) => Calm(m2, r2, gap)
  BY <1>3, <1>6, <1>7, LowerFrameCalm DEF Calm
<1>10. Protects(n, mac[n], radio[n]) /\ Undisturbed(n, radio[n])
  BY GuardHost
<1>11. Protects(n, m2, r2)
  <2>1. m2.fsm = "WAITSIFS" =>
           Exchange(m2.frameToAck.src, {m2.frameToAck.src, n},
                    (DifsTime - SifsTime) + m2.endSifs)
    BY <1>8, <1>10 DEF Protects
  <2> QED BY <1>6, <1>10, <2>1 DEF Protects
<1>12. Undisturbed(n, r2)
  BY <1>6, <1>10 DEF Undisturbed
<1>13. Hushed(radio[n]) => Hushed(r2)
  BY <1>6 DEF Hushed
<1>14. \A k \in Nodes : UseAck /\ radio[n].sending = Ack(k) =>
                          r2.sending = Ack(k) \/ Calm(m2, r2, 1)
  BY <1>6
<1> QED BY <1>3, <1>5, <1>9, <1>11, <1>12, <1>13, <1>14, GuardStep

(* A frame that is: from now on n waits for SIFS.                           *)
LEMMA AnsweredGuard ==
    ASSUME SifsTime < DifsTime, NicInv, LinkInv, AirInv, GuardInv, NEW n \in Nodes,
           ReceiveFrame(n), NEW f, f = Head(radio[n].up).frame,
           NEW bitError, bitError = Head(radio[n].up).bitError,
           PassesUp(n, mac[n], f, bitError), AckWanted(f)
    PROVE  GuardInv'
<1>1. PICK m2 \in LowerFrame(n, mac[n], f, bitError, Rx(n)) :
         mac' = [mac EXCEPT ![n] = m2]
  BY DEF ReceiveFrame
<1>2. PICK r2 : r2 = [radio[n] EXCEPT !.up = Tail(@)]
  OBVIOUS
<1>3. radio' = [radio EXCEPT ![n] = r2] /\ radio[n].up # <<>>
  BY <1>2 DEF ReceiveFrame
<1>4. /\ r2.arriving = radio[n].arriving /\ r2.heard = radio[n].heard
      /\ r2.down = radio[n].down /\ Receiving(r2) = Receiving(radio[n])
      /\ DOMAIN r2.up = {}
  BY <1>2, <1>3, UpTaking
<1>5. /\ mac'[n] = m2 /\ radio'[n] = r2
      /\ \A k \in Nodes \ {n} : mac'[k] = mac[k] /\ radio'[k] = radio[k]
  BY <1>1, <1>3 DEF NicInv
<1>6. m2.fsm = "WAITSIFS" /\ m2.endSifs = SifsTime /\ m2.frameToAck = f
  BY <1>1, HostsTyped, LowerFrameTakes
<1>7. Answers(n, f) /\ mac[n].fsm = "RECEIVE" /\ ~bitError
  <2>1. f \in AllFrames
    BY <1>3, UpFrame
  <2> QED BY <2>1, PassesUpData DEF PassesUp, AckWanted, Answers
<1>8. PICK p : p = f.src
  OBVIOUS
<1>9. ASSUME NEW d \in Nodes
      PROVE  /\ p \in Nodes /\ p # n /\ Exchange(p, {p}, DifsTime)
             /\ mac[d].fsm # "WAITSIFS" /\ NoAck(d, radio[d])
             /\ \A k \in Nodes : radio[d].down # Ack(k)
             /\ \A s \in Receiving(radio[d]) :
                   s.clean /\ s.left < DataTime => ~Answers(d, s.frame)
             /\ d # n => \A i \in DOMAIN radio[d].up :
                   ~radio[d].up[i].bitError => ~Answers(d, radio[d].up[i].frame)
  BY <1>3, <1>7, <1>8, AnswerAlone
<1>10. Exchange(p, {p, n}, DifsTime)'
  <2>1. p \in Nodes /\ p # n /\ Exchange(p, {p}, DifsTime)
    BY <1>9
  <2>2. radio'[p] = radio[p]
    BY <1>5, <2>1
  <2> QED BY <1>5, <2>1, <2>2 DEF Exchange, Still
<1>11. Protects(n, m2, r2)'
  <2>1. (DifsTime - SifsTime) + m2.endSifs = DifsTime
    BY <1>6, MacAssumption
  <2>2. Exchange(m2.frameToAck.src, {m2.frameToAck.src, n},
                 (DifsTime - SifsTime) + m2.endSifs)'
    BY <1>6, <1>8, <1>10, <2>1
  <2>3. \A s \in Receiving(r2) : s.clean /\ s.left < DataTime => ~Answers(n, s.frame)
    BY <1>4, <1>9
  <2>4. \A k \in Nodes : r2.down # Ack(k)
    BY <1>4, <1>9
  <2> QED BY <1>4, <2>2, <2>3, <2>4 DEF Protects, Answers
<1>12. Undisturbed(n, r2)'
  BY <1>4, <1>9 DEF NoAck, Undisturbed
<1>13. ASSUME NEW d \in Nodes \ {n}
       PROVE  Protects(d, mac[d], radio[d])' /\ Undisturbed(d, radio[d])'
  <2>1. PICK m : m = mac[d]
    OBVIOUS
  <2>2. PICK r : r = radio[d]
    OBVIOUS
  <2>3. Unguarded(d, m, r) /\ NoAck(d, r)
    BY <1>9, <2>1, <2>2 DEF Unguarded
  <2>4. Protects(d, m, r)' /\ Undisturbed(d, r)'
    BY <2>3, UnguardedProtects
  <2>5. mac'[d] = m /\ radio'[d] = r
    BY <1>5, <2>1, <2>2
  <2> QED BY <2>4, <2>5 DEF Protects, Undisturbed
<1>14. Protects(n, mac[n], radio[n])' /\ Undisturbed(n, radio[n])'
  BY <1>5, <1>11, <1>12 DEF Protects, Undisturbed
<1> QED BY <1>13, <1>14 DEF GuardInv

(* What a host that begins to send makes known.                             *)
LEMMA Launched ==
    ASSUME NicInv, LinkInv, AirInv, NEW n \in Nodes, StartTransmission(n)
    PROVE  /\ mac' = mac /\ Sends(n) /\ mac[n].fsm # "WAITSIFS"
           /\ radio[n].down # NoFrame /\ radio[n].sending = NoFrame
           /\ radio'[n].down = NoFrame
           /\ \A t : ~AnsweredNow(n, t)
           /\ \A g : \A left \in Nat : g.src = n /\ AckWanted(g) => ~FliesNow(g, left)
           /\ \A k \in Nodes :
                 /\ radio'[k].heard = radio[k].heard /\ radio'[k].up = radio[k].up
                 /\ Receiving(radio'[k]) = Receiving(radio[k])
           /\ radio'[n].arriving = radio[n].arriving
           /\ \A k \in Nodes \ {n} :
                 /\ radio'[k].down = radio[k].down
                 /\ radio'[k].sending = radio[k].sending
                 /\ radio'[k].transmissionTimer = radio[k].transmissionTimer
                 /\ radio[k].arriving \subseteq radio'[k].arriving
                 /\ \A a \in radio'[k].arriving :
                       a \in radio[k].arriving \/ a = [src |-> n, frame |-> radio[n].down]
<1>1. /\ radio[n].down # NoFrame /\ radio[n].mode = "TRANSMITTER" /\ mac' = mac
      /\ radio[n].transmissionTimer = NotScheduled
  BY DEF StartTransmission
<1>2. radio[n].sending = NoFrame
  BY <1>1, AirHost DEF HostAir
<1>3. mac[n].fsm \in {"TRANSMIT", "IDLE", "DEFER"}
  BY <1>1, HostBefore
<1>4. Sends(n)
  BY <1>1 DEF Sends, Calm
<1>5. \A t : ~AnsweredNow(n, t)
  BY <1>1, <1>3 DEF AnsweredNow, Answered, NotScheduled
<1>6. ASSUME NEW g, NEW left \in Nat, g.src = n, AckWanted(g), FliesNow(g, left)
      PROVE  FALSE
  BY <1>1, <1>3, <1>6 DEF FliesNow, Flies, NotScheduled
<1>7. radio'[n] = Transmission(radio[n])
  BY DEF StartTransmission
<1>8. radio[n] \in RadioState
  BY HostsTyped
<1>9. /\ radio'[n].heard = radio[n].heard /\ radio'[n].up = radio[n].up
      /\ radio'[n].arriving = radio[n].arriving /\ radio'[n].down = NoFrame
  BY <1>7, <1>8 DEF Transmission, RadioState
<1>10. ASSUME NEW k \in Nodes \ {n}
       PROVE  /\ radio'[k].heard = radio[k].heard /\ radio'[k].up = radio[k].up
              /\ radio'[k].down = radio[k].down
              /\ radio'[k].sending = radio[k].sending
              /\ radio'[k].transmissionTimer = radio[k].transmissionTimer
              /\ radio[k].arriving \subseteq radio'[k].arriving
              /\ \A a \in radio'[k].arriving :
                    a \in radio[k].arriving \/ a = [src |-> n, frame |-> radio[n].down]
  <2>1. radio[k] \in RadioState
    BY HostsTyped
  <2>2. PICK new : new = [src |-> n, frame |-> radio[n].down]
    OBVIOUS
  <2>3. \/ radio'[k] = radio[k]
        \/ radio'[k] = [radio[k] EXCEPT !.arriving = @ \cup {new}]
    BY <2>2 DEF StartTransmission
  <2> QED BY <2>1, <2>2, <2>3 DEF RadioState
<1>11. \A k \in Nodes : /\ radio'[k].heard = radio[k].heard
                        /\ radio'[k].up = radio[k].up
                        /\ Receiving(radio'[k]) = Receiving(radio[k])
  BY <1>9, <1>10 DEF Receiving
<1> QED BY <1>1, <1>2, <1>3, <1>4, <1>5, <1>6, <1>9, <1>10, <1>11

LEMMA StartTransmissionGuard ==
    ASSUME NicInv, LinkInv, AirInv, GuardInv, NEW n \in Nodes, StartTransmission(n)
    PROVE  GuardInv'
<1> DEFINE new == [src |-> n, frame |-> radio[n].down]
<1>1. /\ mac' = mac /\ Sends(n) /\ mac[n].fsm # "WAITSIFS"
      /\ radio[n].down # NoFrame /\ radio[n].sending = NoFrame
      /\ radio'[n].down = NoFrame
      /\ \A t : ~AnsweredNow(n, t)
      /\ \A g : \A left \in Nat : g.src = n /\ AckWanted(g) => ~FliesNow(g, left)
      /\ \A k \in Nodes :
            /\ radio'[k].heard = radio[k].heard /\ radio'[k].up = radio[k].up
            /\ Receiving(radio'[k]) = Receiving(radio[k])
      /\ radio'[n].arriving = radio[n].arriving
      /\ \A k \in Nodes \ {n} :
            /\ radio'[k].down = radio[k].down
            /\ radio'[k].sending = radio[k].sending
            /\ radio'[k].transmissionTimer = radio[k].transmissionTimer
            /\ radio[k].arriving \subseteq radio'[k].arriving
            /\ \A a \in radio'[k].arriving : a \in radio[k].arriving \/ a = new
  BY Launched
<1>2. \A d \in Nodes : Involves(n, d)
  BY <1>1, ExchangesOf
<1>3. ASSUME NEW d \in Nodes, NEW s \in Receiving(radio[d]), s.clean,
             s.left < DataTime, Answers(d, s.frame)
      PROVE  FALSE
  <2>1. s.left \in Nat
    BY HostsTyped DEF Receiving
  <2>2. s.frame.src = n /\ AckWanted(s.frame) /\ FliesNow(s.frame, s.left)
    BY <1>2, <1>3 DEF Involves
  <2> QED BY <1>1, <2>1, <2>2
<1>4. ASSUME NEW d \in Nodes, NEW i \in DOMAIN radio[d].up, ~radio[d].up[i].bitError,
             Answers(d, radio[d].up[i].frame)
      PROVE  FALSE
  <2>1. PICK g : g = radio[d].up[i].frame
    OBVIOUS
  <2>2. g.src = n /\ AckWanted(g) /\ FliesNow(g, 0)
    BY <1>2, <1>4, <2>1 DEF Involves
  <2> QED BY <1>1, <2>2
<1>5. ASSUME NEW d \in Nodes, mac[d].fsm = "WAITSIFS"
      PROVE  FALSE
  <2>1. mac[d].frameToAck.src = n
    BY <1>1, <1>2, <1>5 DEF Involves
  <2>2. AnsweredNow(n, SifsTime - mac[d].endSifs)
    BY <1>5, <2>1, QueuedFrames DEF AwaitsOK
  <2> QED BY <1>1, <2>2
<1>6. ASSUME NEW d \in Nodes \ {n}, NEW k \in Nodes, radio[d].down = Ack(k)
      PROVE  FALSE
  <2>1. k = n
    BY <1>2, <1>6 DEF Involves
  <2>2. AnsweredNow(n, SifsTime)
    BY <1>6, <2>1, QueuedFrames DEF DownOK
  <2> QED BY <1>1, <2>2
<1>7. ASSUME NEW d \in Nodes \ {n}
      PROVE  NoAck(d, radio[d])
  <2>1. ASSUME NEW a \in radio[d].arriving, a.frame = Ack(d)
        PROVE  FALSE
    <3>1. a.src = n
      BY <1>2, <1>7, <2>1 DEF Involves
    <3>2. SentBy(n, Ack(d), Duration(a.frame))
      BY <2>1, <3>1, AirHost DEF SignalsOK
    <3> QED BY <1>1, <3>2, NoFrameIsNoFrame DEF SentBy
  <2>2. ASSUME NEW s \in radio[d].heard, s.frame = Ack(d)
        PROVE  FALSE
    <3>1. s.src = n
      BY <1>2, <1>7, <2>2 DEF Involves
    <3>2. Ends(n, d) /\ Still({d, s.src}, 1)
      BY <2>2, <3>1, GuardHost DEF Undisturbed
    <3> QED BY <1>1, <3>2, NoFrameIsNoFrame DEF Ends, Sends, Still
  <2> QED BY <2>1, <2>2 DEF NoAck
<1>8. ASSUME NEW busy, NEW gap, n \in busy, Still(busy, gap)
      PROVE  Still(busy, gap)'
  BY <1>1, <1>8 DEF Still, Calm
<1>9. ASSUME NEW d \in Nodes
      PROVE  Protects(d, mac[d], radio[d])'
  BY <1>1, <1>3, <1>4, <1>5, <1>6, NoFrameIsNoFrame DEF Protects
<1>10. ASSUME NEW d \in Nodes \ {n}
       PROVE  Undisturbed(d, radio[d])'
  <2>1. ASSUME NEW a \in radio'[d].arriving, a.frame = Ack(d)
        PROVE  /\ radio'[d].heard = {} /\ radio'[d].arriving = {a}
               /\ Still({d, a.src}, 1)'
    <3>1. a = new
      BY <1>1, <1>7, <2>1 DEF NoAck
    <3>2. radio[n].down = Ack(d) /\ a.src = n
      BY <2>1, <3>1
    <3>3. Exchange(d, {d, n}, DifsTime - SifsTime)
      BY <3>2, GuardHost DEF Protects
    <3>4. radio'[d].heard = {} /\ radio[d].arriving = {}
      BY <1>1, <3>3 DEF Exchange, Hushed
    <3>5. radio'[d].arriving = {a}
      BY <1>1, <2>1, <3>1, <3>4
    <3>6. Still({d, a.src}, 1)
      <4>1. /\ UseAck /\ DifsTime - SifsTime \in 1..DifsTime
            /\ \A k \in Nodes \ {d, n} : Calm(mac[k], radio[k], DifsTime - SifsTime)
        BY <3>3 DEF Exchange, Still
      <4>2. 1 \in 1..DifsTime
        BY <4>1, MacAssumption
      <4>3. ASSUME NEW k \in Nodes \ {d, n}
            PROVE  Calm(mac[k], radio[k], 1)
        <5>1. mac[k].endDifs \in Int
          BY HostsTyped DEF MacState, Timer, NotScheduled
        <5> QED BY <4>1, <5>1, MacAssumption DEF Calm, CalmMac
      <4> QED BY <3>2, <4>1, <4>2, <4>3 DEF Still
    <3> QED BY <1>8, <3>2, <3>4, <3>5, <3>6
  <2>2. \A s \in radio'[d].heard : s.frame # Ack(d)
    BY <1>1, <1>7 DEF NoAck
  <2> QED BY <2>1, <2>2 DEF Undisturbed
<1>11. Undisturbed(n, radio[n])'
  <2>1. ASSUME NEW a \in radio[n].arriving, a.frame = Ack(n)
        PROVE  /\ radio[n].heard = {} /\ radio[n].arriving = {a}
               /\ Still({n, a.src}, 1)'
    BY <1>8, <2>1, GuardHost DEF Undisturbed
  <2>2. ASSUME NEW s \in radio[n].heard, s.frame = Ack(n)
        PROVE  /\ s.clean /\ radio[n].arriving = {}
               /\ Still({n, s.src}, 1)' /\ Ends(s.src, n)'
    <3>1. /\ s.clean /\ radio[n].arriving = {}
          /\ Still({n, s.src}, 1) /\ Ends(s.src, n)
      BY <2>2, GuardHost DEF Undisturbed
    <3>2. s.src \in Nodes \ {n}
      BY AirHost DEF SignalsOK
    <3>3. Ends(s.src, n)'
      BY <1>1, <3>1, <3>2 DEF Ends, Calm
    <3> QED BY <1>8, <3>1, <3>3
  <2> QED BY <1>1, <2>1, <2>2 DEF Undisturbed
<1> QED BY <1>9, <1>10, <1>11 DEF GuardInv

LEMMA EndTransmissionGuard ==
    ASSUME SifsTime < DifsTime, NicInv, NicInv', LinkInv, AirInv, GuardInv,
           NEW n \in Nodes, EndTransmission(n)
    PROVE  GuardInv'
<1>1. PICK r2 : r2 = TransmissionOver(radio[n])
  OBVIOUS
<1>2. PICK m2 \in DataOver(mac[n], "UNDEFINED") :
         \E m3 \in MediumChange(m2, ReceptionState(r2)) : mac' = [mac EXCEPT ![n] = m3]
  BY <1>1 DEF EndTransmission
<1>3. PICK m3 \in MediumChange(m2, ReceptionState(r2)) : mac' = [mac EXCEPT ![n] = m3]
  BY <1>2
<1>4. radio' = [radio EXCEPT ![n] = r2] /\ radio[n].transmissionTimer = 0
  BY <1>1 DEF EndTransmission
<1>5. /\ r2.down = radio[n].down /\ r2.sending = NoFrame /\ r2.up = radio[n].up
      /\ r2.transmissionTimer = NotScheduled
      /\ r2.arriving = radio[n].arriving /\ r2.heard = radio[n].heard
  BY <1>1, HostsTyped DEF TransmissionOver, RadioState
<1>6. /\ mac[n].fsm \in {"TRANSMIT", "IDLE", "DEFER"} /\ MacOK(mac[n])
      /\ radio[n].down = NoFrame
  <2>1. radio[n].mode = "TRANSMITTER" /\ radio[n].down = NoFrame
    BY <1>4, HostsTyped DEF RadioOK, NotScheduled
  <2> QED BY <2>1, HostBefore
<1>7. m3.fsm # "WAITSIFS"
  <2>1. /\ mac[n].fsm # "TRANSMIT" => Stays(mac[n], m3)
        /\ NeedsNoAck(mac[n]) => m3.fsm \notin Engaged
        /\ mac[n].fsm = "TRANSMIT" /\ ~NeedsNoAck(mac[n]) => m3.fsm = "WAITACK"
    BY <1>2, <1>3, <1>6, DataOverThen
  <2> QED BY <1>6, <2>1 DEF Stays, Engaged
<1>8. Protects(n, mac[n], radio[n]) /\ Undisturbed(n, radio[n])
  BY GuardHost
<1>9. Protects(n, m3, r2)
  BY <1>5, <1>7, <1>8 DEF Protects, Receiving
<1>10. Undisturbed(n, r2)
  BY <1>5, <1>8 DEF Undisturbed
<1>11. UseAck => \A gap \in 1..DifsTime :
                    Calm(mac[n], radio[n], gap) => Calm(m3, r2, gap)
  BY <1>4 DEF Calm, NotScheduled
<1>12. Hushed(radio[n]) => Hushed(r2)
  BY <1>5 DEF Hushed
<1>13. ASSUME NEW k \in Nodes, UseAck, radio[n].sending = Ack(k)
       PROVE  Calm(m3, r2, 1)
  <2>1. mac[n].fsm \in {"IDLE", "DEFER"}
    BY <1>6, <1>13, AirHost DEF HostAir
  <2>2. 1 \in 1..DifsTime
    BY MacAssumption
  <2>3. CalmMac(m3, 1)
    BY <1>2, <1>3, <1>6, <1>13, <2>1, <2>2, AckSentCalm
  <2> QED BY <1>5, <1>6, <2>3 DEF Calm
<1> QED BY <1>3, <1>4, <1>9, <1>10, <1>11, <1>12, <1>13, GuardStep

(* What one tick does to a host.                                            *)
LEMMA HostTicks ==
    ASSUME NicInv, NicTick, NEW k \in Nodes
    PROVE  /\ mac'[k].fsm = mac[k].fsm /\ mac'[k].frameToAck = mac[k].frameToAck
           /\ mac'[k].endDifs = Left(mac[k].endDifs)
           /\ mac'[k].endAckTimeout = Left(mac[k].endAckTimeout)
           /\ mac'[k].endSifs = Left(mac[k].endSifs)
           /\ mac[k].endDifs \in Nat \cup {-1} /\ mac[k].endAckTimeout \in Nat \cup {-1}
           /\ mac[k].endAckTimeout # 0 /\ mac[k].endSifs # 0
           /\ radio'[k].arriving = {} /\ radio'[k].up = <<>> /\ radio'[k].down = NoFrame
           /\ radio'[k].sending = radio[k].sending
           /\ radio'[k].transmissionTimer = Left(radio[k].transmissionTimer)
           /\ radio[k].arriving = {} /\ radio[k].down = NoFrame
           /\ radio[k].transmissionTimer # 0
           /\ radio[k].heard = {} => radio'[k].heard = {}
           /\ \A t \in radio'[k].heard : \E s \in radio[k].heard :
                 /\ t.src = s.src /\ t.frame = s.frame /\ t.clean = s.clean
                 /\ t.attempted = s.attempted /\ s.left > 0 /\ t.left = s.left - 1
                 /\ s.left \in Nat
           /\ \A s \in radio[k].heard : s.left > 0
<1>1. /\ radio[k] \in RadioState /\ RadioWaits(radio[k]) /\ mac[k] \in MacState
      /\ radio'[k] = RadioTick(radio[k])
  BY TickHost, HostsTyped
<1>2. PICK d : d = radio'[k]
  OBVIOUS
<1>3. /\ d.arriving = {} /\ d.up = <<>> /\ d.down = NoFrame
      /\ d.sending = radio[k].sending
      /\ d.transmissionTimer = Left(radio[k].transmissionTimer)
      /\ radio[k].arriving = {}
      /\ radio[k].heard = {} => d.heard = {}
      /\ \A t \in d.heard : \E s \in radio[k].heard :
            /\ t.src = s.src /\ t.frame = s.frame /\ t.clean = s.clean
            /\ t.attempted = s.attempted /\ s.left > 0 /\ t.left = s.left - 1
            /\ s.left \in Nat
  BY <1>1, <1>2, TickSignals
<1>4. /\ mac[k].endDifs \in Nat \cup {-1} /\ mac[k].endAckTimeout \in Nat \cup {-1}
  BY <1>1 DEF MacState, Timer, NotScheduled
<1>5. mac[k].endAckTimeout # 0 /\ mac[k].endSifs # 0
  BY TickHost DEF MacTimers
<1>6. radio[k].down = NoFrame /\ radio[k].transmissionTimer # 0
  BY <1>1 DEF RadioWaits
<1>7. \A s \in radio[k].heard : s.left > 0
  <2>1. \A s \in radio[k].heard : s.left # 0 /\ s.left \in Nat
    BY <1>1, HostsTyped DEF RadioWaits
  <2> QED BY <2>1
<1> QED BY <1>2, <1>3, <1>4, <1>5, <1>6, <1>7, TickHost

(* Between two events everybody hears who sends, and does not contend.      *)
LEMMA HeardByAll ==
    ASSUME NicInv, AirInv, NicTick, NEW p \in Nodes, radio[p].transmissionTimer > 0,
           NEW k \in Nodes \ {p}
    PROVE  /\ \E s \in radio[k].heard : s.src = p
           /\ mac[k].fsm \notin {"WAITDIFS", "BACKOFF"}
<1>1. Reaches(p, radio[k]) /\ radio[k].arriving = {}
  BY AirHost, HostTicks
<1>2. \E s \in radio[k].heard : s.src = p
  BY <1>1 DEF Reaches
<1>3. Rx(k) # "IDLE"
  BY <1>2 DEF Rx, ReceptionState
<1>4. mac[k].fsm \notin {"WAITDIFS", "BACKOFF"}
  BY <1>3, HostBefore DEF Fits
<1> QED BY <1>2, <1>4

(* The host that is still sending has the medium to itself, if some host    *)
(* receives its frame whole.                                                *)
LEMMA SendsAlone ==
    ASSUME NicInv, AirInv, NicTick, NEW d \in Nodes, NEW s \in Receiving(radio[d]),
           s.clean, NEW p, p = s.src
    PROVE  /\ p \in Nodes /\ p # d /\ radio[p].transmissionTimer > 0
           /\ radio[p].heard = {}
           /\ \A k \in Nodes \ {p} : radio[k].transmissionTimer = NotScheduled
<1>1. s \in radio[d].heard /\ s.left > 0 /\ radio[d].heard = {s}
  BY HostTicks, AirHost DEF Receiving, HostAir, CleanAlone
<1>2. p \in Nodes /\ p # d /\ radio[p].transmissionTimer > 0
  BY <1>1, AirHost DEF SignalsOK, SentBy
<1>3. radio[d].transmissionTimer = NotScheduled
  <2>1. radio[d].mode = "RECEIVER"
    BY AirHost DEF HostAir
  <2> QED BY <2>1, HostBefore DEF RadioOK
<1>4. ASSUME NEW k \in Nodes \ {p}
      PROVE  radio[k].transmissionTimer = NotScheduled
  <2>1. radio[k].transmissionTimer \in Nat \cup {-1} /\ radio[k].transmissionTimer # 0
    BY HostsTyped, HostTicks
  <2>2. CASE k = d
    BY <1>3, <2>2
  <2>3. CASE k # d /\ radio[k].transmissionTimer > 0
    <3>1. PICK x \in radio[d].heard : x.src = k
      BY <2>3, HeardByAll
    <3> QED BY <1>1, <1>4, <3>1
  <2> QED BY <2>1, <2>2, <2>3 DEF NotScheduled
<1>5. radio[p].heard = {}
  <2>1. ASSUME NEW x \in radio[p].heard
        PROVE  FALSE
    <3>1. x.left > 0 /\ x.src \in Nodes \ {p} /\ SentBy(x.src, x.frame, x.left)
      BY <1>2, HostTicks, AirHost DEF SignalsOK
    <3> QED BY <1>4, <3>1 DEF SentBy, NotScheduled
  <2> QED BY <2>1
<1> QED BY <1>2, <1>4, <1>5

(* A host that is calm stays so, if a tick more of waiting was left.        *)
LEMMA TickCalm ==
    ASSUME NicInv, NicTick, NEW k \in Nodes, NEW gap \in Nat, NEW less \in Nat,
           Calm(mac[k], radio[k], gap),
           less < gap \/ mac[k].fsm # "WAITDIFS"
    PROVE  Calm(mac'[k], radio'[k], less)
<1>1. /\ mac'[k].fsm = mac[k].fsm
      /\ mac'[k].endDifs = Left(mac[k].endDifs)
      /\ mac'[k].endAckTimeout = Left(mac[k].endAckTimeout)
      /\ mac[k].endDifs \in Nat \cup {-1} /\ mac[k].endAckTimeout \in Nat \cup {-1}
      /\ radio'[k].down = NoFrame
      /\ radio'[k].transmissionTimer = Left(radio[k].transmissionTimer)
  BY HostTicks
<1>2. radio'[k].transmissionTimer = NotScheduled
  BY <1>1 DEF Calm, Left, NotScheduled
<1>3. CASE mac[k].fsm \in {"IDLE", "DEFER", "RECEIVE"}
  BY <1>1, <1>2, <1>3 DEF Calm, CalmMac
<1>4. CASE mac[k].fsm = "WAITDIFS" /\ mac[k].endDifs >= gap
  <2>1. Left(mac[k].endDifs) >= less
    BY <1>1, <1>4 DEF Left
  <2> QED BY <1>1, <1>2, <1>4, <2>1 DEF Calm, CalmMac
<1>5. CASE mac[k].fsm = "WAITACK" /\ mac[k].endAckTimeout < AckTimeout
  <2>1. Left(mac[k].endAckTimeout) < AckTimeout
    BY <1>1, <1>5, MacAssumption DEF Left
  <2> QED BY <1>1, <1>2, <1>5, <2>1 DEF Calm, CalmMac
<1> QED BY <1>3, <1>4, <1>5 DEF Calm, CalmMac

(* While p sends to a host that hears nobody else, the others keep calm.    *)
LEMMA OthersCalm ==
    ASSUME SifsTime < DifsTime, NicInv, LinkInv, AirInv, GuardInv, NicTick,
           NEW p \in Nodes, radio[p].transmissionTimer > 0, NEW k \in Nodes \ {p},
           radio[k].transmissionTimer = NotScheduled
    PROVE  Calm(mac'[k], radio'[k], DifsTime)
<1>1. /\ mac'[k].fsm = mac[k].fsm
      /\ mac'[k].endAckTimeout = Left(mac[k].endAckTimeout)
      /\ mac[k].endAckTimeout \in Nat \cup {-1} /\ mac[k].endAckTimeout # 0
      /\ radio[k].down = NoFrame /\ radio'[k].down = NoFrame
      /\ radio'[k].transmissionTimer = Left(radio[k].transmissionTimer)
  BY HostTicks
<1>2. radio'[k].transmissionTimer = NotScheduled
  BY <1>1 DEF Left, NotScheduled
<1>3. mac[k].fsm \notin {"WAITDIFS", "BACKOFF"}
  BY HeardByAll
<1>4. mac[k].fsm # "TRANSMIT"
  BY <1>1, HostBefore DEF RadioOK
<1>5. mac[k].fsm # "WAITSIFS"
  <2> SUFFICES ASSUME mac[k].fsm = "WAITSIFS" PROVE FALSE
    OBVIOUS
  <2>1. PICK q \in Nodes : q = mac[k].frameToAck.src
    BY Answerer
  <2>2. radio[q].heard = {}
    BY <2>1, GuardHost DEF Protects, Exchange, Hushed
  <2>3. q = p
    BY <2>2, HeardByAll
  <2>4. AnsweredNow(p, SifsTime - mac[k].endSifs)
    <3>1. AwaitsOK(k)
      BY QueuedFrames
    <3> QED BY <2>1, <2>3, <3>1 DEF AwaitsOK
  <2>5. mac[p].fsm = "WAITACK"
    BY <2>4 DEF AnsweredNow, Answered
  <2>6. radio[p].mode = "TRANSMITTER"
    <3>1. RadioOK(radio[p])
      BY HostBefore
    <3>2. radio[p].transmissionTimer # NotScheduled
      BY DEF NotScheduled
    <3> QED BY <3>1, <3>2 DEF RadioOK
  <2> QED BY <2>5, <2>6, HostBefore
<1>6. mac[k].fsm = "WAITACK" => mac'[k].endAckTimeout < AckTimeout
  <2> SUFFICES ASSUME mac[k].fsm = "WAITACK" PROVE mac'[k].endAckTimeout < AckTimeout
    OBVIOUS
  <2>1. mac[k].endAckTimeout # NotScheduled
    BY HostsTyped DEF MacOK, TimersOK
  <2>2. mac[k].endAckTimeout <= AckTimeout
    BY AirHost DEF HostAir, Waits
  <2> QED BY <1>1, <2>1, <2>2, MacAssumption DEF Left, NotScheduled
<1>7. mac[k].fsm \in States
  BY HostsTyped DEF MacState
<1> QED BY <1>1, <1>2, <1>3, <1>4, <1>5, <1>6, <1>7 DEF Calm, CalmMac, States

LEMMA TickGuard ==
    ASSUME SifsTime < DifsTime, NicInv, LinkInv, AirInv, GuardInv, NicTick
    PROVE  GuardInv'
<1>1. DifsTime \in 1..DifsTime /\ DifsTime - SifsTime \in Nat \ {0}
  BY MacAssumption
<1>2. ASSUME NEW d \in Nodes, NEW t \in Receiving(radio'[d]), t.clean,
             Answers(d, t.frame)
      PROVE  Exchange(t.frame.src, {t.frame.src}, DifsTime)'
  <2>1. PICK s \in radio[d].heard :
           /\ t.src = s.src /\ t.frame = s.frame /\ t.clean = s.clean
           /\ t.attempted = s.attempted
    BY <1>2, HostTicks DEF Receiving
  <2>2. s \in Receiving(radio[d]) /\ s.clean
    BY <1>2, <2>1 DEF Receiving
  <2>3. PICK p : p = s.src
    OBVIOUS
  <2>4. /\ p \in Nodes /\ radio[p].transmissionTimer > 0 /\ radio[p].heard = {}
        /\ \A k \in Nodes \ {p} : radio[k].transmissionTimer = NotScheduled
    BY <2>2, <2>3, SendsAlone
  <2>5. t.frame.src = p
    <3>1. t.frame \in Frames
      BY <1>2 DEF Answers
    <3> QED BY <2>1, <2>3, <3>1, AirHost DEF SignalsOK
  <2>6. \A k \in Nodes \ {p} : Calm(mac'[k], radio'[k], DifsTime)
    BY <2>4, OthersCalm
  <2>7. Hushed(radio'[p])
    BY <2>4, HostTicks DEF Hushed
  <2>8. Exchange(p, {p}, DifsTime)'
    BY <1>1, <1>2, <2>6, <2>7 DEF Answers, Exchange, Still
  <2> QED BY <2>5, <2>8
<1>3. ASSUME NEW d \in Nodes, mac[d].fsm = "WAITSIFS", NEW m, m = mac'[d]
      PROVE  Exchange(m.frameToAck.src, {m.frameToAck.src, d},
                      (DifsTime - SifsTime) + m.endSifs)'
  <2>1. PICK p \in Nodes : p = mac[d].frameToAck.src
    BY <1>3, Answerer
  <2>2. PICK e : e = mac[d].endSifs
    OBVIOUS
  <2>3. PICK gap : gap = (DifsTime - SifsTime) + e
    OBVIOUS
  <2>4. Hushed(radio[p]) /\ Still({p, d}, gap)
    BY <1>3, <2>1, <2>2, <2>3, GuardHost DEF Protects, Exchange
  <2>5. /\ UseAck /\ gap \in 1..DifsTime
        /\ \A k \in Nodes \ {p, d} : Calm(mac[k], radio[k], gap)
    BY <2>4 DEF Still
  <2>6. e \in 0..SifsTime /\ e # 0
    <3>1. AwaitsOK(d)
      BY QueuedFrames
    <3> QED BY <1>3, <2>2, <3>1, HostTicks DEF AwaitsOK
  <2>7. m.frameToAck = mac[d].frameToAck /\ m.endSifs = Left(mac[d].endSifs)
    BY <1>3, HostTicks
  <2>8. m.endSifs = e - 1
    BY <2>2, <2>6, <2>7, MacAssumption DEF Left
  <2>9. PICK less : less = (DifsTime - SifsTime) + (e - 1)
    OBVIOUS
  <2>10. less \in 1..DifsTime /\ less < gap /\ gap \in Nat /\ less \in Nat
    BY <1>1, <2>3, <2>5, <2>6, <2>9, MacAssumption
  <2>11. \A k \in Nodes \ {p, d} : Calm(mac'[k], radio'[k], less)
    BY <2>5, <2>10, TickCalm
  <2>12. Hushed(radio'[p])
    BY <2>4, HostTicks DEF Hushed
  <2>13. Exchange(p, {p, d}, less)'
    BY <2>5, <2>10, <2>11, <2>12 DEF Exchange, Still
  <2> QED BY <2>1, <2>7, <2>8, <2>9, <2>13
<1>4. ASSUME NEW d \in Nodes
      PROVE  Protects(d, mac[d], radio[d])'
  <2>1. PICK m : m = mac'[d]
    OBVIOUS
  <2>2. PICK r : r = radio'[d]
    OBVIOUS
  <2>3. r.up = <<>> /\ r.down = NoFrame /\ m.fsm = mac[d].fsm
    BY <2>1, <2>2, HostTicks
  <2>4. DOMAIN r.up = {} /\ \A k \in Nodes : r.down # Ack(k)
    BY <2>3, NoFrameIsNoFrame
  <2>5. \A t \in Receiving(r) : t.clean /\ Answers(d, t.frame) =>
           Exchange(t.frame.src, {t.frame.src}, DifsTime)'
    BY <1>2, <2>2
  <2>6. m.fsm = "WAITSIFS" =>
           Exchange(m.frameToAck.src, {m.frameToAck.src, d},
                    (DifsTime - SifsTime) + m.endSifs)'
    BY <1>3, <2>1, <2>3
  <2>7. Protects(d, m, r)'
    BY <2>4, <2>5, <2>6 DEF Protects, Answers
  <2> QED BY <2>1, <2>2, <2>7 DEF Protects
<1>5. ASSUME NEW d \in Nodes, NEW t \in radio'[d].heard, t.frame = Ack(d)
      PROVE  t.clean /\ Still({d, t.src}, 1)' /\ Ends(t.src, d)'
  <2>1. PICK s \in radio[d].heard :
           t.src = s.src /\ t.frame = s.frame /\ t.clean = s.clean /\ s.left > 0
    BY HostTicks
  <2>2. PICK p : p = s.src
    OBVIOUS
  <2>3. s.clean /\ Still({d, p}, 1)
    BY <1>5, <2>1, <2>2, GuardHost DEF Undisturbed
  <2>4. p \in Nodes /\ SentBy(p, s.frame, s.left)
    BY <2>1, <2>2, AirHost DEF SignalsOK
  <2>5. radio[p].transmissionTimer > 0 /\ radio[p].sending = Ack(d)
    BY <1>5, <2>1, <2>4 DEF SentBy
  <2>6. Ends(p, d)'
    BY <2>4, <2>5, HostTicks DEF Ends
  <2>7. ASSUME NEW k \in Nodes \ {d, p}
        PROVE  Calm(mac'[k], radio'[k], 1)
    <3>1. Calm(mac[k], radio[k], 1)
      BY <2>3 DEF Still
    <3>2. mac[k].fsm # "WAITDIFS"
      BY <2>4, <2>5, HeardByAll
    <3> QED BY <3>1, <3>2, TickCalm
  <2>8. Still({d, p}, 1)'
    BY <2>3, <2>7 DEF Still
  <2> QED BY <2>1, <2>2, <2>3, <2>6, <2>8
<1>6. ASSUME NEW d \in Nodes
      PROVE  Undisturbed(d, radio[d])'
  <2>1. radio'[d].arriving = {}
    BY HostTicks
  <2> QED BY <1>5, <2>1 DEF Undisturbed
<1> QED BY <1>4, <1>6 DEF GuardInv

LEMMA GuardInit == NicInit => GuardInv
<1> SUFFICES ASSUME NicInit PROVE GuardInv
  OBVIOUS
<1>1. \A n \in Nodes : mac[n] = MacInit /\ radio[n] = RadioInit
  BY DEF NicInit
<1>2. \A n \in Nodes : Protects(n, MacInit, RadioInit)
  BY NoFrameIsNoFrame DEF Protects, Receiving, MacInit, RadioInit
<1>3. \A n \in Nodes : Undisturbed(n, RadioInit)
  BY DEF Undisturbed, RadioInit
<1> QED BY <1>1, <1>2, <1>3 DEF GuardInv

LEMMA GuardStepKeeps ==
    ASSUME ~PrioritizeByUP, SifsTime < DifsTime,
           NicInv, NicInv', LinkInv, AirInv, GuardInv, [NicNext]_nicVars
    PROVE  GuardInv'
<1>1. CASE UNCHANGED nicVars
  BY <1>1 DEF nicVars, GuardInv, Protects, Undisturbed, Exchange, Still, Ends
<1>2. CASE NicTick
  BY <1>2, TickGuard
<1>3. CASE NicEnd
  BY <1>1, <1>3 DEF NicEnd
<1>4. ASSUME NEW n \in Nodes, NicEvent(n)
      PROVE  GuardInv'
  <2>1. ASSUME NEW f \in Frames, QueueFrame(n, f) PROVE GuardInv'
    BY <2>1, QueueFrameGuard
  <2>2. CASE EndDifs(n) \/ EndAckTimeout(n) \/ \E f \in Frames : RefuseFrame(n, f)
    BY <2>2, MacEventGuard
  <2>3. CASE EndBackoff(n)
    BY <2>3, EndBackoffGuard
  <2>4. CASE EndSifs(n)
    BY <2>4, EndSifsGuard
  <2>5. CASE ReceiveFrame(n)
    <3>1. PICK f : f = Head(radio[n].up).frame
      OBVIOUS
    <3>2. PICK bitError : bitError = Head(radio[n].up).bitError
      OBVIOUS
    <3>3. CASE PassesUp(n, mac[n], f, bitError) /\ AckWanted(f)
      BY <2>5, <3>1, <3>2, <3>3, AnsweredGuard
    <3>4. CASE ~(PassesUp(n, mac[n], f, bitError) /\ AckWanted(f))
      BY <2>5, <3>1, <3>2, <3>4, NotAnsweredGuard
    <3> QED BY <3>3, <3>4
  <2>6. CASE StartTransmission(n)
    BY <2>6, StartTransmissionGuard
  <2>7. CASE EndTransmission(n)
    BY <2>7, EndTransmissionGuard
  <2>8. ASSUME NEW a \in radio[n].arriving, NEW receivable \in BOOLEAN,
               StartReception(n, a, receivable)
        PROVE  GuardInv'
    BY <2>8, StartReceptionGuard
  <2>9. ASSUME NEW s \in radio[n].heard, EndReception(n, s) PROVE GuardInv'
    BY <2>9, EndReceptionGuard
  <2> QED BY <1>4, <2>1, <2>2, <2>3, <2>4, <2>5, <2>6, <2>7, <2>8, <2>9 DEF NicEvent
<1> QED BY <1>1, <1>2, <1>3, <1>4 DEF NicNext

(* Where every host hears every other, an acknowledgement meets no other    *)
(* signal at the host it is for: SIFS is shorter than DIFS, and who hears   *)
(* the frame does not begin to count DIFS before its end (Receive-Unicast-  *)
(* Use-Ack and Transmit-Ack against Defer-Transmit and Start-Difs of        *)
(* handleWithFsm()), whatever was sent at the same instant before.          *)
THEOREM NicAcksAreProtected ==
    ASSUME ~PrioritizeByUP, AckTimeout > SifsTime + AckTime, SifsTime < DifsTime,
           \A x, y \in Nodes : x # y => <<x, y>> \in Hears
    PROVE  NicSpec => []AcksAreProtected
<1> DEFINE Inv == NicInv /\ LinkInv /\ AirInv /\ GuardInv
<1>1. AckTimeout > AckTrip
  BY DEF AckTrip
<1>2. NicInit => Inv
  BY NicInitOK, LinkInitOK, AirInit, GuardInit
<1>3. Inv /\ [NicNext]_nicVars => Inv'
  <2> SUFFICES ASSUME Inv, [NicNext]_nicVars PROVE Inv'
    OBVIOUS
  <2>1. NicInv'
    BY NicStepKeeps
  <2>2. LinkInv'
    BY <1>1, <2>1, LinkStepKeeps
  <2>3. AirInv'
    BY AirStepKeeps
  <2>4. GuardInv'
    BY <2>1, GuardStepKeeps
  <2> QED BY <2>1, <2>2, <2>3, <2>4
<1>4. Inv => AcksAreProtected
  BY DEF GuardInv, Undisturbed, AcksAreProtected
<1> QED BY <1>2, <1>3, <1>4, PTL DEF NicSpec
=============================================================================
