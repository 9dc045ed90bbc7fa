---------------------------- MODULE WirelessNic ----------------------------
(***************************************************************************)
(* WirelessNic: a CsmaCaMac and its Radio in every host, on one medium.    *)
(* The two call each other: the MAC switches the mode of the radio, the    *)
(* radio signals changes of its states to the MAC, both within one event.  *)
(* Frames go from one to the other, and from radio to radio, as messages   *)
(* without delay, in events of their own.                                  *)
(*                                                                         *)
(* Signals reach other hosts less than a tick after they are sent, so two  *)
(* hosts may send at the same instant before they hear each other.         *)
(*                                                                         *)
(* fate, transmissions and delivered are history variables: what became of *)
(* a frame in the MAC of its sender, how often it was sent, and which      *)
(* hosts passed it up.                                                     *)
(***************************************************************************)
EXTENDS Radio

CONSTANTS
    Hears,              \* <<a, b>>: the signals of a reach b
    MaxTransmissions    \* bound: how far transmissions are counted

ASSUME NicAssumption ==
    /\ Hears \subseteq Nodes \X Nodes
    /\ MaxTransmissions \in Nat

VARIABLES
    mac,
    radio,
    fate,
    transmissions,
    delivered

nicVars == <<mac, radio, fate, transmissions, delivered>>

Fates == {"to come", "refused", "queued", "acknowledged", "sent", "given up"}

NicTypeOK ==
    /\ mac \in [Nodes -> MacState]
    /\ radio \in [Nodes -> RadioState]
    /\ fate \in [Frames -> Fates]
    /\ transmissions \in [Frames -> 0..MaxTransmissions]
    /\ delivered \in [Frames -> SUBSET Nodes]

NicInit ==
    /\ mac = [n \in Nodes |-> MacInit]
    /\ radio = [n \in Nodes |-> RadioInit]
    /\ fate = [f \in Frames |-> "to come"]
    /\ transmissions = [f \in Frames |-> 0]
    /\ delivered = [f \in Frames |-> {}]

Rx(n) == ReceptionState(radio[n])

\* The frame at the head of the queue of n leaves it.
Settle(n, how) == fate' = [fate EXCEPT ![Current(mac[n])] = how]
-----------------------------------------------------------------------------
(* Events of the MAC.                                                      *)

\* handleUpperPacket() without its check, for a frame that is queued.
QueueFrame(n, f) ==
    /\ fate[f] = "to come"
    /\ f.src = n
    /\ ~QueueFull(mac[n])
    /\ fate' = [fate EXCEPT ![f] = "queued"]
    /\ \E m \in UpperFrame(mac[n], f, Rx(n)) : mac' = [mac EXCEPT ![n] = m]
    /\ UNCHANGED <<radio, transmissions, delivered>>

\* handleUpperPacket() drops a frame the queue has no room for.
RefuseFrame(n, f) ==
    /\ fate[f] = "to come"
    /\ f.src = n
    /\ QueueFull(mac[n])
    /\ fate' = [fate EXCEPT ![f] = "refused"]
    /\ UNCHANGED <<mac, radio, transmissions, delivered>>

EndDifs(n) ==
    /\ mac[n].endDifs = 0
    /\ \E m \in DifsOver(mac[n], Rx(n)) : mac' = [mac EXCEPT ![n] = m]
    /\ UNCHANGED <<radio, fate, transmissions, delivered>>

\* sendDataFrame(): a copy of the current frame goes down.
EndBackoff(n) ==
    /\ mac[n].endBackoff = 0
    /\ \E m \in BackoffOver(mac[n], Rx(n)) : mac' = [mac EXCEPT ![n] = m]
    /\ IF Transmits(mac[n])
       THEN /\ radio' = [radio EXCEPT ![n] = HandDown(@, Current(mac[n]))]
            /\ transmissions' = [transmissions EXCEPT ![Current(mac[n])] =
                                    IF @ < MaxTransmissions THEN @ + 1 ELSE @]
       ELSE UNCHANGED <<radio, transmissions>>
    /\ UNCHANGED <<fate, delivered>>

EndAckTimeout(n) ==
    /\ mac[n].endAckTimeout = 0
    /\ \E m \in AckOverdue(mac[n], Rx(n)) : mac' = [mac EXCEPT ![n] = m]
    /\ IF GivesUp(mac[n]) THEN Settle(n, "given up") ELSE UNCHANGED fate
    /\ UNCHANGED <<radio, transmissions, delivered>>

\* sendAckFrame(): the radio is a transmitter before the MAC is IDLE.
EndSifs(n) ==
    /\ mac[n].endSifs = 0
    /\ \E m \in SifsOver(mac[n], IF SendsAck(mac[n]) THEN "UNDEFINED" ELSE Rx(n)) :
           mac' = [mac EXCEPT ![n] = m]
    /\ IF SendsAck(mac[n])
       THEN radio' = [radio EXCEPT ![n] =
                         HandDown(@, Ack(mac[n].frameToAck.src))]
       ELSE UNCHANGED radio
    /\ UNCHANGED <<fate, transmissions, delivered>>

\* handleLowerPacket()
ReceiveFrame(n) ==
    /\ radio[n].up # <<>>
    /\ LET f == Head(radio[n].up).frame
           bitError == Head(radio[n].up).bitError
       IN  /\ \E m \in LowerFrame(n, mac[n], f, bitError, Rx(n)) :
                  mac' = [mac EXCEPT ![n] = m]
           /\ IF Acknowledged(n, mac[n], f) THEN Settle(n, "acknowledged")
              ELSE UNCHANGED fate
           /\ IF PassesUp(n, mac[n], f, bitError)
              THEN delivered' = [delivered EXCEPT ![f] = @ \cup {n}]
              ELSE UNCHANGED delivered
    /\ radio' = [radio EXCEPT ![n].up = Tail(@)]
    /\ UNCHANGED <<transmissions>>
-----------------------------------------------------------------------------
(* Events of the radio.                                                    *)

\* receptionStateChangedSignal: the MAC is told of a change, and only then.
Notify(n, r) ==
    /\ radio' = [radio EXCEPT ![n] = r]
    /\ IF ReceptionState(r) # Rx(n)
       THEN \E m \in MediumChange(mac[n], ReceptionState(r)) :
                mac' = [mac EXCEPT ![n] = m]
       ELSE UNCHANGED mac

\* handleUpperPacket(): the signal is sent to every host it reaches.
StartTransmission(n) ==
    LET r == radio[n] IN
    /\ r.down # NoFrame
    /\ r.mode = "TRANSMITTER"
    /\ r.transmissionTimer = NotScheduled
    /\ radio' = [k \in Nodes |->
                    IF k = n THEN Transmission(r)
                    ELSE IF <<n, k>> \in Hears
                    THEN [radio[k] EXCEPT !.arriving =
                             @ \cup {[src |-> n, frame |-> r.down]}]
                    ELSE radio[k]]
    /\ UNCHANGED <<mac, fate, transmissions, delivered>>

\* Seeded fault: the radio is left in transmitter mode.
EndTransmissionDeaf(n) ==
    /\ radio[n].transmissionTimer = 0
    /\ radio' = [radio EXCEPT ![n].sending = NoFrame,
                              ![n].transmissionTimer = NotScheduled]
    /\ \E m \in DataOver(mac[n], "UNDEFINED") : mac' = [mac EXCEPT ![n] = m]
    /\ IF NeedsNoAck(mac[n]) THEN Settle(n, "sent") ELSE UNCHANGED fate
    /\ UNCHANGED <<transmissions, delivered>>

\* transmissionStateChangedSignal: the MAC handles endData with the radio in
\* transmitter mode, then makes it a receiver again, which tells the MAC of
\* the reception state.
EndTransmission(n) ==
    LET r == TransmissionOver(radio[n]) IN
    /\ radio[n].transmissionTimer = 0
    /\ radio' = [radio EXCEPT ![n] = r]
    /\ \E m \in DataOver(mac[n], "UNDEFINED") :
       \E m2 \in MediumChange(m, ReceptionState(r)) :
           mac' = [mac EXCEPT ![n] = m2]
    /\ IF NeedsNoAck(mac[n]) THEN Settle(n, "sent") ELSE UNCHANGED fate
    /\ UNCHANGED <<transmissions, delivered>>

\* handleLowerPacket().  Any signal may be too weak, because a host moved.
StartReception(n, a, receivable) ==
    /\ a \in radio[n].arriving
    /\ \A s \in radio[n].heard : s.src # a.src
    /\ Notify(n, ReceptionStarted(radio[n], a, receivable))
    /\ UNCHANGED <<fate, transmissions, delivered>>

EndReception(n, s) ==
    /\ s \in radio[n].heard
    /\ s.left = 0
    /\ Notify(n, ReceptionOver(radio[n], s))
    /\ UNCHANGED <<fate, transmissions, delivered>>
-----------------------------------------------------------------------------
MacTimers(m) == {m.endDifs, m.endBackoff, m.endAckTimeout, m.endSifs}

\* Seeded fault: a self message that is not scheduled is counted down.
LeftUnscheduled(timer) == timer - 1

Left(timer) == IF timer > 0 THEN timer - 1 ELSE timer

MacTick(m) == [m EXCEPT !.endDifs = Left(@), !.endBackoff = Left(@),
                        !.endAckTimeout = Left(@), !.endSifs = Left(@)]

\* Nothing happens before somebody offers another frame.
Silent ==
    /\ \A n \in Nodes : /\ MacTimers(mac[n]) = {NotScheduled}
                        /\ radio[n].heard = {}
                        /\ radio[n].transmissionTimer = NotScheduled
                        /\ RadioWaits(radio[n])

\* Time passes when no event is left at this instant.
NicTick ==
    /\ ~Silent
    /\ \A n \in Nodes : 0 \notin MacTimers(mac[n]) /\ RadioWaits(radio[n])
    /\ mac' = [n \in Nodes |-> MacTick(mac[n])]
    /\ radio' = [n \in Nodes |-> RadioTick(radio[n])]
    /\ UNCHANGED <<fate, transmissions, delivered>>

\* The simulation has no events left.
NicEnd ==
    /\ Silent
    /\ \A f \in Frames : fate[f] # "to come"
    /\ UNCHANGED nicVars

NicEvent(n) ==
    \/ \E f \in Frames : QueueFrame(n, f) \/ RefuseFrame(n, f)
    \/ EndDifs(n)
    \/ EndBackoff(n)
    \/ EndAckTimeout(n)
    \/ EndSifs(n)
    \/ ReceiveFrame(n)
    \/ StartTransmission(n)
    \/ EndTransmission(n)
    \/ \E a \in radio[n].arriving : \E receivable \in BOOLEAN :
           StartReception(n, a, receivable)
    \/ \E s \in radio[n].heard : EndReception(n, s)

NicNext == NicTick \/ NicEnd \/ \E n \in Nodes : NicEvent(n)

NicSpec == NicInit /\ [][NicNext]_nicVars

\* The kernel delivers the events that are scheduled, and frames are offered.
NicFairSpec == NicSpec /\ WF_nicVars(NicNext)
-----------------------------------------------------------------------------
(* Properties.                                                             *)

Contending == {"DEFER", "WAITDIFS", "BACKOFF"}

(* A self message is scheduled exactly in the state it belongs to: none is *)
(* left behind by a transition, to fire in a later state or to be scheduled*)
(* twice, and no state waits for one that was never scheduled (FSMA_Enter  *)
(* and the cancel calls of the transitions).                               *)
TimersMatchState ==
    \A n \in Nodes :
        LET m == mac[n]
        IN  /\ m.endDifs # NotScheduled <=> m.fsm = "WAITDIFS"
            /\ m.endBackoff # NotScheduled <=> m.fsm = "BACKOFF"
            /\ m.endAckTimeout # NotScheduled <=> m.fsm = "WAITACK"
            /\ m.endSifs # NotScheduled <=> m.fsm = "WAITSIFS"
            /\ m.frameToAck # NoFrame <=> m.fsm = "WAITSIFS"

(* The state machine agrees with the radio although it learns of a change  *)
(* only once and ignores it in four of its states: it counts down towards  *)
(* a transmission on a free medium only, never defers on a free one (no    *)
(* signal would wake it), and waits in RECEIVE only for a frame that will  *)
(* come.                                                                   *)
SensesTheMedium ==
    \A n \in Nodes :
        LET m == mac[n]
        IN  /\ m.fsm \in {"WAITDIFS", "BACKOFF"} => Rx(n) = "IDLE"
            /\ m.fsm = "DEFER" => Rx(n) \in {"BUSY", "UNDEFINED"}
            /\ m.fsm = "IDLE" => Rx(n) # "RECEIVING"
            /\ m.fsm = "RECEIVE" =>
                   Rx(n) = "RECEIVING" \/ radio[n].up # <<>>

(* The radio is a transmitter as long as it has a frame to send, and only  *)
(* then: no frame is dropped for the wrong mode, none meets another one    *)
(* ("Received frame from upper layer while already transmitting"), the     *)
(* transmission of an acknowledgement included, during which the MAC is in *)
(* IDLE or DEFER already.                                                  *)
RadioObeysMac ==
    \A n \in Nodes :
        LET r == radio[n]
        IN  /\ r.mode = "TRANSMITTER" <=>
                   r.down # NoFrame \/ r.transmissionTimer # NotScheduled
            /\ r.down # NoFrame => r.transmissionTimer = NotScheduled
            /\ r.mode = "TRANSMITTER" =>
                   mac[n].fsm \in {"TRANSMIT", "IDLE", "DEFER"}
            /\ mac[n].fsm = "TRANSMIT" => r.mode = "TRANSMITTER"

(* The ASSERTs of generateBackoffPeriod(), decreaseBackoffPeriod() and     *)
(* retryCurrentTransmission(), at every moment these may be called: no     *)
(* retry is counted beyond the limit, and a backoff that is interrupted    *)
(* has not lasted longer than it was to.                                   *)
CountersInBounds ==
    \A n \in Nodes :
        LET m == mac[n]
        IN  /\ m.retryCounter <= RetryLimit
            /\ m.fsm = "BACKOFF" =>
                   /\ m.backoffPeriod >= 0
                   /\ m.endBackoff <= m.backoffPeriod * SlotTime
            /\ m.fsm \in {"TRANSMIT", "WAITACK"} => m.backoffPeriod = Invalid

(* What the MAC takes for its current transmission, to finish it, repeat   *)
(* it or give it up, is the frame that its radio has sent: it stays at the *)
(* head of the queue meanwhile.  And no MAC is idle or contends for        *)
(* nothing.                                                                *)
CurrentFrameIsSent ==
    \A n \in Nodes :
        LET m == mac[n]
            r == radio[n]
        IN  /\ m.fsm \in Contending \cup {"TRANSMIT", "WAITACK"} =>
                   m.queue # <<>>
            /\ m.fsm = "IDLE" => m.queue = <<>>
            /\ m.fsm = "TRANSMIT" => Current(m) \in {r.down, r.sending}
            /\ m.fsm = "WAITACK" => transmissions[Current(m)] > 0

(* An acknowledgement is sent SIFS after the frame, before anybody in its  *)
(* reach has waited for DIFS: it meets no other signal at the host it is   *)
(* for.  Holds where every host hears every other.                         *)
AcksAreProtected ==
    \A n \in Nodes : \A s \in radio[n].heard : s.frame = Ack(n) => s.clean

(* A frame is given up only after it was sent 1 + RetryLimit times, unless *)
(* it is acknowledged before; its retries are its own.                     *)
GivesUpAfterAllRetries ==
    [][\A f \in Frames :
           fate[f] # "given up" /\ fate'[f] = "given up" =>
               transmissions[f] >= RetryLimit + 1]_nicVars

(* The MACs and radios keep what Link promises to the layers above.        *)
Service == INSTANCE Link WITH pending <- [n \in Nodes |-> mac[n].queue]
ImplementsLink == Service!LinkSpec

\* A signal is lost because it is too weak, and would not be lost otherwise.
SignalFades ==
    \E n \in Nodes : \E a \in radio[n].arriving :
        StartReception(n, a, FALSE) /\ ~StartReception(n, a, TRUE)

(* However many signals fade, a host with a frame sends it after a while,  *)
(* and again: it does not wait for ever for an acknowledgement, for the    *)
(* medium, for a timer or for its own radio.  Unless signals fade for ever *)
(* every frame leaves its queue: sent, acknowledged or given up.  (If they *)
(* do, two busy hosts may reset each other's retryCounter for ever.)       *)
FramesAreSettled ==
    /\ \A n \in Nodes :
           mac[n].queue # <<>> ~> mac[n].queue = <<>> \/ mac[n].fsm = "TRANSMIT"
    /\ \/ \A f \in Frames :
              fate[f] = "queued" ~> fate[f] \in {"sent", "acknowledged", "given up"}
       \/ []<><<SignalFades>>_nicVars
-----------------------------------------------------------------------------
(* What CsmaCaMac.ned says, and the code does not keep.                    *)

(* CsmaCaMac.ned: the MAC gives up after a given number of unsuccessful    *)
(* retries, retryLimit being their maximum.  Any frame that arrives while  *)
(* the MAC waits for its next retry resets the counter.                    *)
RetriesAreLimited ==
    \A f \in Frames : transmissions[f] <= RetryLimit + 1
=============================================================================
