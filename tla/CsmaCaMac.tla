----------------------------- MODULE CsmaCaMac -----------------------------
(***************************************************************************)
(* CsmaCaMac: the medium access control below the NDN hosts.  A MAC is a   *)
(* record; each operator gives the records an event may leave it in, for   *)
(* the reception state rx of its radio.  They are sets because the number  *)
(* of backoff slots is random.  The statistics are left out.               *)
(*                                                                         *)
(* Times are in ticks.  A self message is represented by the ticks that    *)
(* are left before it is delivered, or by NotScheduled.                    *)
(***************************************************************************)
EXTENDS Integers, Sequences

CONSTANTS
    Nodes,          \* the hosts; also their MAC addresses
    Broadcast,      \* ff:ff:ff:ff:ff:ff
    Multicast,      \* any other multicast address
    Frames,         \* the data frames that are offered, each once
    UseAck,         \* parameter useAck
    PrioritizeByUP, \* parameter prioritizeByUP
    MaxQueueSize,   \* parameter maxQueueSize; -1: no limit
    RetryLimit,     \* parameter retryLimit
    CwMin,          \* parameter cwMin, in slots
    CwMax,          \* parameter cwMax, in slots
    CwMulticast,    \* parameter cwMulticast, in slots
    SlotTime,       \* parameter slotTime, in ticks
    SifsTime,       \* parameter sifsTime, in ticks
    DifsTime,       \* parameter difsTime, in ticks
    AckTimeout      \* parameter ackTimeout, in ticks

ASSUME MacAssumption ==
    /\ Broadcast \notin Nodes
    /\ Multicast \notin Nodes
    /\ Frames \subseteq [kind : {"data"}, src : Nodes, id : Nat, prio : Int,
                         dst : Nodes \cup {Broadcast, Multicast}]
    /\ UseAck \in BOOLEAN
    /\ PrioritizeByUP \in BOOLEAN
    /\ MaxQueueSize \in Nat \cup {-1}
    /\ RetryLimit \in Nat
    /\ CwMin \in Nat
    /\ CwMax \in Nat
    /\ CwMulticast \in Nat
    /\ SlotTime \in Nat \ {0}
    /\ SifsTime \in Nat
    /\ DifsTime \in Nat
    /\ AckTimeout \in Nat

NotScheduled == -1
Timer == Nat \cup {NotScheduled}

\* backoffPeriod == -1
Invalid == -1

Ack(n) == [kind |-> "ack", dst |-> n]
NoFrame == [kind |-> "none"]

\* The transmitterAddress of an acknowledgement is never set.
AllFrames == Frames \cup {Ack(n) : n \in Nodes}

States == {"IDLE", "DEFER", "WAITDIFS", "BACKOFF", "TRANSMIT", "WAITACK",
           "RECEIVE", "WAITSIFS"}

MacState == [fsm : States,
             queue : Seq(Frames),               \* transmissionQueue
             backoffPeriod : Nat \cup {Invalid},     \* in slots
             retryCounter : Nat,
             endDifs : Timer,
             endBackoff : Timer,
             endAckTimeout : Timer,
             endSifs : Timer,
             frameToAck : Frames \cup {NoFrame}]    \* the context of endSifs

MacInit == [fsm |-> "IDLE", queue |-> <<>>, backoffPeriod |-> Invalid,
            retryCounter |-> 0, endDifs |-> NotScheduled,
            endBackoff |-> NotScheduled, endAckTimeout |-> NotScheduled,
            endSifs |-> NotScheduled, frameToAck |-> NoFrame]
-----------------------------------------------------------------------------
(* The transmission queue and the state variables.                         *)

QueueFull(m) == MaxQueueSize # -1 /\ Len(m.queue) = MaxQueueSize

\* How many frames stay ahead of f; the queue is sorted.
Ahead(q, f) ==
    IF PrioritizeByUP
    THEN CHOOSE k \in 0..Len(q) :
             /\ \A i \in 1..k : q[i].prio >= f.prio
             /\ k < Len(q) => q[k + 1].prio < f.prio
    ELSE Len(q)

\* Seeded fault: the newest frame first.
InsertInFront(q, f) == <<f>> \o q

Insert(q, f) == LET k == Ahead(q, f)
                IN  SubSeq(q, 1, k) \o <<f>> \o SubSeq(q, k + 1, Len(q))

Current(m) == Head(m.queue)

Reset(m) == [m EXCEPT !.backoffPeriod = Invalid, !.retryCounter = 0]

\* Seeded fault: the next frame inherits the backoff and the retry counter.
FinishWithoutReset(m) == [m EXCEPT !.queue = Tail(@)]

\* finishCurrentTransmission(), and what giveUpCurrentTransmission() does.
Finish(m) == [Reset(m) EXCEPT !.queue = Tail(@)]

\* The numbers of slots generateBackoffPeriod() may draw.
Draws(m) ==
    IF Current(m).dst \notin Nodes THEN 0..CwMulticast
    ELSE {s \in 0..CwMax : s < (CwMin + 1) * 2^m.retryCounter}

GenerateBackoff(m) == {[m EXCEPT !.backoffPeriod = s] : s \in Draws(m)}

\* decreaseBackoffPeriod(): whole slots that have passed are not repeated.
RemainingBackoff(m) ==
    m.backoffPeriod
        - (m.backoffPeriod * SlotTime - m.endBackoff) \div SlotTime
-----------------------------------------------------------------------------
(* The state machine of handleWithFsm().                                   *)

Enter(m, state) == [m EXCEPT !.fsm = state]

EnterWaitDifs(m) == [m EXCEPT !.fsm = "WAITDIFS", !.endDifs = DifsTime]

EnterBackoff(m) ==
    {[b EXCEPT !.fsm = "BACKOFF", !.endBackoff = b.backoffPeriod * SlotTime] :
        b \in IF m.backoffPeriod = Invalid THEN GenerateBackoff(m) ELSE {m}}

\* Seeded fault: the inter-frame space is skipped.
ContendAtOnce(m, rx) ==
    IF rx # "IDLE" THEN {Enter(m, "DEFER")} ELSE EnterBackoff(m)

\* Defer-Transmit, Start-Difs and Start-Backoff.
Contend(m, rx) ==
    IF rx # "IDLE" THEN {Enter(m, "DEFER")}
    ELSE IF UseAck THEN {EnterWaitDifs(m)}
    ELSE EnterBackoff(m)

\* The end of handleWithFsm(), after every event, also one no transition of
\* the state is for.
AfterEvent(m, rx) ==
    IF m.fsm # "IDLE" THEN {m}
    ELSE IF rx = "RECEIVING" THEN {Enter(m, "RECEIVE")}
    ELSE IF m.queue # <<>> THEN Contend(m, rx)
    ELSE {m}

ToIdle(m, rx) == AfterEvent(Enter(m, "IDLE"), rx)

\* Seeded fault: the timer of the state that is left keeps running.
PausedTimerRuns(m) ==
    [m EXCEPT !.backoffPeriod = IF m.fsm = "BACKOFF" THEN RemainingBackoff(m)
                                ELSE @,
              !.endBackoff = NotScheduled]

\* cancelDifsTimer(), or cancelBackoffTimer() and decreaseBackoffPeriod().
Paused(m) ==
    [m EXCEPT !.backoffPeriod = IF m.fsm = "BACKOFF" THEN RemainingBackoff(m)
                                ELSE @,
              !.endDifs = NotScheduled,
              !.endBackoff = NotScheduled]

\* Seeded fault: only a reception is noticed, not a busy medium.
MediumChangeBusyMissed(m, rx) ==
    CASE rx = "RECEIVING"
             /\ m.fsm \in {"IDLE", "DEFER", "WAITDIFS", "BACKOFF"} ->
             {Enter(Paused(m), "RECEIVE")}
      [] rx = "IDLE" /\ m.fsm = "DEFER" -> Contend(m, rx)
      [] OTHER -> AfterEvent(m, rx)

\* mediumStateChange: Start-Receive, Defer-Difs, Defer-Backoff, and the end of
\* a deferral.
MediumChange(m, rx) ==
    CASE rx = "RECEIVING"
             /\ m.fsm \in {"IDLE", "DEFER", "WAITDIFS", "BACKOFF"} ->
             {Enter(Paused(m), "RECEIVE")}
      [] rx = "IDLE" /\ m.fsm = "DEFER" -> Contend(m, rx)
      [] rx \notin {"RECEIVING", "IDLE"} /\ m.fsm \in {"WAITDIFS", "BACKOFF"} ->
             {Enter(Paused(m), "DEFER")}
      [] OTHER -> AfterEvent(m, rx)

\* handleUpperPacket(), unless the queue is full.
UpperFrame(m, f, rx) ==
    LET queued == [m EXCEPT !.queue = Insert(@, f)]
    IN  IF m.fsm = "IDLE" THEN Contend(queued, rx) ELSE {queued}

\* endDifs: Start-Backoff.
DifsOver(m, rx) ==
    LET fired == [m EXCEPT !.endDifs = NotScheduled]
    IN  IF m.fsm = "WAITDIFS" THEN EnterBackoff(fired) ELSE AfterEvent(fired, rx)

\* endBackoff: Start-Transmit, if it comes in time.
Transmits(m) == m.fsm = "BACKOFF"

BackoffOver(m, rx) ==
    LET fired == [m EXCEPT !.endBackoff = NotScheduled]
    IN  IF Transmits(m)
        THEN {[fired EXCEPT !.fsm = "TRANSMIT", !.backoffPeriod = Invalid]}
        ELSE AfterEvent(fired, rx)

\* endData: Transmit-Broadcast and Transmit-Unicast-No-Ack.
NeedsNoAck(m) == m.fsm = "TRANSMIT" /\ (Current(m).dst = Broadcast \/ ~UseAck)

DataOver(m, rx) ==
    IF NeedsNoAck(m) THEN ToIdle(Finish(m), rx)
    ELSE IF m.fsm = "TRANSMIT"
    THEN {[m EXCEPT !.fsm = "WAITACK", !.endAckTimeout = AckTimeout]}
    ELSE AfterEvent(m, rx)

\* Seeded fault: one retry too many.
GivesUpLate(m) == m.fsm = "WAITACK" /\ m.retryCounter > RetryLimit

\* endAckTimeout: Give-Up-Transmission.
GivesUp(m) == m.fsm = "WAITACK" /\ m.retryCounter = RetryLimit

\* endAckTimeout: Give-Up-Transmission and Retry-Transmission.
AckOverdue(m, rx) ==
    LET fired == [m EXCEPT !.endAckTimeout = NotScheduled]
    IN  IF GivesUp(m) THEN ToIdle(Finish(fired), rx)
        ELSE IF m.fsm = "WAITACK"
        THEN UNION {ToIdle(b, rx) :
                    b \in GenerateBackoff([fired EXCEPT !.retryCounter = @ + 1])}
        ELSE AfterEvent(fired, rx)

\* Receive-Ack.  Whether the frame has bit errors is not looked at.
Acknowledged(n, m, f) == m.fsm = "WAITACK" /\ f = Ack(n)

\* Seeded fault: every host takes every frame for its own.
PassesUpPromiscuous(n, m, f, bitError) ==
    m.fsm = "RECEIVE" /\ ~bitError /\ f.kind = "data"

\* Receive-Broadcast, Receive-Unicast-No-Ack and Receive-Unicast-Use-Ack.
PassesUp(n, m, f, bitError) ==
    /\ m.fsm = "RECEIVE"
    /\ ~bitError
    /\ f.kind = "data"
    /\ f.dst \in {n, Broadcast}

\* A frame from the radio.  It is forgotten in other states than these two.
LowerFrame(n, m, f, bitError, rx) ==
    IF Acknowledged(n, m, f)
    THEN ToIdle([Finish(m) EXCEPT !.endAckTimeout = NotScheduled], rx)
    ELSE IF PassesUp(n, m, f, bitError) /\ f.dst # Broadcast /\ UseAck
    THEN {[m EXCEPT !.fsm = "WAITSIFS", !.endSifs = SifsTime, !.frameToAck = f]}
    ELSE IF m.fsm = "RECEIVE" THEN ToIdle(Reset(m), rx)
    ELSE AfterEvent(m, rx)

\* endSifs: Transmit-Ack.
SendsAck(m) == m.fsm = "WAITSIFS"

SifsOver(m, rx) ==
    LET fired == [m EXCEPT !.endSifs = NotScheduled]
    IN  IF SendsAck(m)
        THEN ToIdle(Reset([fired EXCEPT !.frameToAck = NoFrame]), rx)
        ELSE AfterEvent(fired, rx)
=============================================================================
