------------------------------- MODULE Radio -------------------------------
(***************************************************************************)
(* Radio, with an IdealReceiver on a RadioMedium: the half-duplex device   *)
(* below a CsmaCaMac.  A radio is a record.  Mode switches take no time    *)
(* (parameter switchingTimes) and signals are not divided into parts.      *)
(*                                                                         *)
(* A signal at a receiver is [src, frame, left, clean, attempted]: who     *)
(* sends it, the ticks it lasts on, whether it has not met another signal, *)
(* and whether it is the one whose receptionTimer the radio follows.       *)
(***************************************************************************)
EXTENDS CsmaCaMac, FiniteSets

CONSTANTS
    DataTime,       \* the duration of a data frame, in ticks
    AckTime         \* the duration of an acknowledgement, in ticks

ASSUME RadioAssumption == DataTime \in Nat \ {0} /\ AckTime \in Nat \ {0}

Duration(f) == IF f.kind = "ack" THEN AckTime ELSE DataTime

Signal == [src : Nodes, frame : AllFrames, left : Nat, clean : BOOLEAN,
           attempted : BOOLEAN]

Arrival == [src : Nodes, frame : AllFrames]

RadioState == [mode : {"RECEIVER", "TRANSMITTER"},
               down : AllFrames \cup {NoFrame},     \* sent by the MAC
               sending : AllFrames \cup {NoFrame},
               transmissionTimer : Timer,
               arriving : SUBSET Arrival,   \* radio frames on their way here
               heard : SUBSET Signal,
               up : Seq([frame : AllFrames, bitError : BOOLEAN])]

RadioInit == [mode |-> "RECEIVER", down |-> NoFrame, sending |-> NoFrame,
              transmissionTimer |-> NotScheduled, arriving |-> {},
              heard |-> {}, up |-> <<>>]

Receiving(r) == {s \in r.heard : s.attempted}

\* updateTransceiverState()
ReceptionState(r) ==
    IF r.mode = "TRANSMITTER" THEN "UNDEFINED"
    ELSE IF Receiving(r) # {} THEN "RECEIVING"
    ELSE IF r.heard # {} THEN "BUSY"
    ELSE "IDLE"

\* setRadioMode(RADIO_MODE_TRANSMITTER): a reception is aborted.
SwitchToTransmitter(r) ==
    [r EXCEPT !.mode = "TRANSMITTER",
              !.heard = {[s EXCEPT !.attempted = FALSE] : s \in @}]

\* The MAC sends a frame down after it switched the radio.
HandDown(r, f) == [SwitchToTransmitter(r) EXCEPT !.down = f]

\* startTransmission()
Transmission(r) ==
    [r EXCEPT !.down = NoFrame, !.sending = r.down,
              !.transmissionTimer = Duration(r.down)]

\* endTransmission(), and the setRadioMode(RADIO_MODE_RECEIVER) of the MAC.
TransmissionOver(r) ==
    [r EXCEPT !.sending = NoFrame, !.transmissionTimer = NotScheduled,
              !.mode = "RECEIVER"]

\* isReceptionAttempted: the radio listens and follows no other signal.
Attempts(r, receivable) ==
    r.mode = "RECEIVER" /\ receivable /\ Receiving(r) = {}

\* startReception().  Signals that overlap spoil each other.
ReceptionStarted(r, a, receivable) ==
    [r EXCEPT !.arriving = @ \ {a},
              !.heard = {[s EXCEPT !.clean = FALSE] : s \in @} \cup
                  {[src |-> a.src, frame |-> a.frame, clean |-> @ = {},
                    left |-> Duration(a.frame),
                    attempted |-> Attempts(r, receivable)]}]

\* endReception(): a signal the radio followed goes up, whole or not.
ReceptionOver(r, s) ==
    [r EXCEPT !.heard = @ \ {s},
              !.up = IF s.attempted
                     THEN Append(@, [frame |-> s.frame, bitError |-> ~s.clean])
                     ELSE @]

\* One tick of the self messages and the signals of a radio.
RadioTick(r) ==
    [r EXCEPT !.heard = {[s EXCEPT !.left = @ - 1] : s \in @},
              !.transmissionTimer = IF @ > 0 THEN @ - 1 ELSE @]

\* The radio has nothing to do at this instant.
RadioWaits(r) ==
    /\ r.down = NoFrame
    /\ r.transmissionTimer # 0
    /\ r.arriving = {}
    /\ \A s \in r.heard : s.left # 0
    /\ r.up = <<>>
=============================================================================
