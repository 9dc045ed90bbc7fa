------------------------------ MODULE Consumer ------------------------------
(***************************************************************************)
(* ConsumerAppBase: the application that asks for content.  It expresses   *)
(* an Interest every SendInterval, repeats one that is returned by the     *)
(* forwarder with TIMEOUT_CODE up to InterestReTx times, and draws its     *)
(* statistics from arrays of HISTORY_SIZE slots, which Interests share     *)
(* whose sequence numbers are equal modulo HISTORY_SIZE.                   *)
(*                                                                         *)
(* The forwarder of the host is the environment.  It may lose an Interest  *)
(* when it gets it; one that it holds it answers with Data, or returns at  *)
(* one of its periodic checks after the lifetime (PitNoOverdueEntry).      *)
(* Names are left out; an Interest is its sequence number.                 *)
(*                                                                         *)
(* unlimited[n] is a history variable, no part of the program: the record  *)
(* it would keep of every Interest, had its arrays no limit.               *)
(***************************************************************************)
EXTENDS SimTime, Sequences

CONSTANTS
    HistorySize,        \* HISTORY_SIZE
    NumInterests,       \* parameter numInterests
    InterestReTx,       \* parameter interestReTx
    InterestLifetime,   \* parameter interestLifetime, in ticks
    SendInterval,       \* parameter sendInterval, in ticks
    StartTime,          \* parameter startTime, in ticks
    StopTime,           \* parameter stopTime, in ticks; negative: never
    RetxDelays,         \* uniform(1,2) ms before a retransmission, in ticks
    MaxRetxDelay,       \* the longest of them
    SeqNos,             \* sequence numbers that other consumers' Data carries
    Uninitialized       \* what numRetxHistory may hold at first

ASSUME ConsumerAssumption ==
    /\ HistorySize \in Nat \ {0}
    /\ NumInterests \in Nat \cup {-1}
    /\ InterestReTx \in Nat
    /\ InterestLifetime \in Nat
    /\ SendInterval \in Nat
    /\ StartTime \in Nat
    /\ StopTime \in Int
    /\ MaxRetxDelay \in Nat
    /\ RetxDelays \subseteq 0..MaxRetxDelay
    /\ SeqNos \subseteq Nat
    /\ Uninitialized \subseteq Int

VARIABLES
    intSeqNo,           \* the next sequence number; always equal to numIntSent
    expressTimer,       \* the self message expressInterestTimer
    history,            \* firstSendTime-, lastSendTime- and numRetxHistory
    collected,          \* what onData() collected last
    numDataReceived,
    numUnsatisfied,
    resending,          \* Interests on their way after sendDelayed()
    held,               \* Interests in the PIT of the forwarder
    unlimited

consumerVars == <<intSeqNo, expressTimer, history, collected, numDataReceived,
                  numUnsatisfied, resending, held, unlimited>>

Slots == 0 .. HistorySize - 1

\* The slot of an Interest in the three arrays.
Slot(s) == s % HistorySize

\* How many Interests are expressed.  The default -1 gives one: see Express.
Goal == IF NumInterests = -1 THEN 1 ELSE NumInterests

Entry == [first : Nat, last : Nat, retx : Int]
Sample == [seqNo : Nat, allRtt : Int, lastRtt : Int, retx : Int]
NoSample == [seqNo |-> 0, allRtt |-> 0, lastRtt |-> 0, retx |-> 0]

ConsumerTypeOK ==
    /\ now \in Nat
    /\ intSeqNo \in [Nodes -> Nat]
    /\ \A n \in Nodes : intSeqNo[n] <= Goal
    /\ expressTimer \in [Nodes -> Timer]
    /\ history \in [Nodes -> [Slots -> Entry]]
    /\ collected \in [Nodes -> Sample]
    /\ numDataReceived \in [Nodes -> Nat]
    /\ numUnsatisfied \in [Nodes -> Nat]
    /\ resending \in [Nodes -> SUBSET [seqNo : Nat, at : Nat]]
    /\ held \in [Nodes -> SUBSET [seqNo : Nat, expireAt : Nat]]
    /\ unlimited \in [Nodes -> Seq(Entry)]
-----------------------------------------------------------------------------
(* Expressing Interests.                                                   *)

\* The end of scheduleNextInterest().
Scheduled(next) ==
    IF StopTime < 0 \/ next < StopTime THEN next ELSE NotScheduled

\* initialize() and startApp(), which starts for NumInterests = -1 too.
ConsumerInit ==
    /\ now = 0
    /\ intSeqNo = [n \in Nodes |-> 0]
    /\ expressTimer = [n \in Nodes |-> IF NumInterests = 0 THEN NotScheduled
                                       ELSE Scheduled(StartTime)]
    /\ history \in [Nodes -> [Slots -> [first : {0}, last : {0},
                                        retx : Uninitialized]]]
    /\ collected = [n \in Nodes |-> NoSample]
    /\ numDataReceived = [n \in Nodes |-> 0]
    /\ numUnsatisfied = [n \in Nodes |-> 0]
    /\ resending = [n \in Nodes |-> {}]
    /\ held = [n \in Nodes |-> {}]
    /\ unlimited = [n \in Nodes |-> <<>>]

\* What send() leads to: the forwarder keeps the Interest until it expires, or
\* loses it (a packet waits, the name is pending already, the PIT is full).
HandOver(n, s) ==
    \/ held' = [held EXCEPT ![n] =
                   @ \cup {[seqNo |-> s, expireAt |-> now + InterestLifetime]}]
    \/ UNCHANGED held

\* Seeded fault: one Interest too many.
MoreToExpressOffByOne(n) == intSeqNo[n] + 1 <= NumInterests

\* numIntSent < numInterests, after expressInterest().
MoreToExpress(n) == intSeqNo[n] + 1 < NumInterests

\* Seeded fault: the slot keeps the count of the Interest that had it before.
FirstSentKeepsCount(old) == [first |-> now, last |-> now, retx |-> old.retx]

\* The entry createNextInterest() puts in place of the old one.
FirstSent(old) == [first |-> now, last |-> now, retx |-> 0]

\* The self message expressInterestTimer.
Express(n) ==
    /\ Due(expressTimer[n])
    /\ history' = [history EXCEPT ![n][Slot(intSeqNo[n])] = FirstSent(@)]
    /\ unlimited' = [unlimited EXCEPT ![n] =
                        Append(@, [first |-> now, last |-> now, retx |-> 0])]
    /\ HandOver(n, intSeqNo[n])
    /\ intSeqNo' = [intSeqNo EXCEPT ![n] = @ + 1]
    /\ expressTimer' = [expressTimer EXCEPT ![n] =
                           IF MoreToExpress(n) THEN Scheduled(now + SendInterval)
                                               ELSE NotScheduled]
    /\ UNCHANGED <<now, collected, numDataReceived, numUnsatisfied, resending>>
-----------------------------------------------------------------------------
(* Time-outs: onTimeout().                                                 *)

TimedOut(n, h) == h \in held[n] /\ h.expireAt <= now

\* Seeded fault: one retransmission too many.
MayRetransmitOnceMore(entry) == entry.retx <= InterestReTx

MayRetransmit(entry) == entry.retx < InterestReTx

\* lastSendTimeHistory and numRetxHistory of an Interest that is sent again.
Retransmitted(entry) ==
    [first |-> entry.first, last |-> now, retx |-> entry.retx + 1]

Retransmit(n, h) ==
    /\ TimedOut(n, h)
    /\ MayRetransmit(history[n][Slot(h.seqNo)])
    /\ history' = [history EXCEPT ![n][Slot(h.seqNo)] = Retransmitted(@)]
    /\ unlimited' = [unlimited EXCEPT ![n][h.seqNo + 1] = Retransmitted(@)]
    /\ held' = [held EXCEPT ![n] = @ \ {h}]
    /\ \E delay \in RetxDelays :
          resending' = [resending EXCEPT ![n] =
                           @ \cup {[seqNo |-> h.seqNo, at |-> now + delay]}]
    /\ UNCHANGED <<now, intSeqNo, expressTimer, collected, numDataReceived,
                   numUnsatisfied>>

GiveUp(n, h) ==
    /\ TimedOut(n, h)
    /\ ~ MayRetransmit(history[n][Slot(h.seqNo)])
    /\ held' = [held EXCEPT ![n] = @ \ {h}]
    /\ numUnsatisfied' = [numUnsatisfied EXCEPT ![n] = @ + 1]
    /\ UNCHANGED <<now, intSeqNo, expressTimer, history, collected,
                   numDataReceived, resending, unlimited>>

\* The random delay of sendDelayed() is over.
Resend(n, r) ==
    /\ r \in resending[n]
    /\ Due(r.at)
    /\ resending' = [resending EXCEPT ![n] = @ \ {r}]
    /\ HandOver(n, r.seqNo)
    /\ UNCHANGED <<now, intSeqNo, expressTimer, history, collected,
                   numDataReceived, numUnsatisfied, unlimited>>
-----------------------------------------------------------------------------
(* Data: onData().                                                         *)

\* Seeded fault: the slot is trusted for one Interest more.
ForgottenTooLate(n, s) == intSeqNo[n] - s > HistorySize + 1

\* The slot of that Interest has been taken over by a later one.
Forgotten(n, s) == intSeqNo[n] - s > HistorySize

\* What is collected when Data comes with sequence number s.
Collect(n, s) ==
    LET entry == history[n][Slot(s)] IN
    IF Forgotten(n, s) THEN [NoSample EXCEPT !.seqNo = s]
    ELSE [seqNo |-> s, allRtt |-> now - entry.first, lastRtt |-> now - entry.last,
          retx |-> entry.retx]

\* The forwarder answers the Interest h.  Data that comes out of a cache has
\* the sequence number of the Interest that brought it there.
OnData(n, h, s) ==
    /\ h \in held[n]
    /\ held' = [held EXCEPT ![n] = @ \ {h}]
    /\ collected' = [collected EXCEPT ![n] = Collect(n, s)]
    /\ numDataReceived' = [numDataReceived EXCEPT ![n] = @ + 1]
    /\ UNCHANGED <<now, intSeqNo, expressTimer, history, numUnsatisfied,
                   resending, unlimited>>
-----------------------------------------------------------------------------
\* No Interest is held past its lifetime for longer than a check period.
ConsumerTick ==
    /\ Tick({expressTimer[n] : n \in Nodes}
                \cup UNION {{r.at : r \in resending[n]} : n \in Nodes})
    /\ \A n \in Nodes : \A h \in held[n] : now < h.expireAt + CheckPeriod
    /\ UNCHANGED consumerVars

\* The sim-time-limit is reached.
ConsumerEnd == now = MaxTime /\ UNCHANGED <<now, consumerVars>>

Expires(n) == \E h \in held[n] : Retransmit(n, h) \/ GiveUp(n, h)
Answered(n) == \E h \in held[n] : \E s \in SeqNos \cup {h.seqNo} : OnData(n, h, s)
Resends(n) == \E r \in resending[n] : Resend(n, r)

ConsumerNext ==
    \/ \E n \in Nodes :
          \/ Express(n)
          \/ Expires(n)
          \/ Resends(n)
          \/ Answered(n)
    \/ ConsumerTick
    \/ ConsumerEnd

ConsumerSpec == ConsumerInit /\ [][ConsumerNext]_<<now, consumerVars>>

\* The kernel delivers every scheduled event, the forwarder returns what
\* expires, and time goes on.  Nobody has to answer.
ConsumerFairSpec ==
    /\ ConsumerSpec
    /\ \A n \in Nodes :
          /\ WF_<<now, consumerVars>>(Express(n))
          /\ WF_<<now, consumerVars>>(Expires(n))
          /\ WF_<<now, consumerVars>>(Resends(n))
    /\ WF_<<now, consumerVars>>(ConsumerTick)
-----------------------------------------------------------------------------
(* What the limited history is good for.                                   *)

\* The sequence numbers of the Interests under way.
UnderWay(n) == {h.seqNo : h \in held[n]} \cup {r.seqNo : r \in resending[n]}

\* One round of an Interest: its lifetime, the check that finds it expired, the
\* delay of its retransmission.  Patience is the longest it can be under way.
Round == InterestLifetime + CheckPeriod + MaxRetxDelay
Patience == InterestReTx * Round + InterestLifetime + CheckPeriod

\* The parameters for which HISTORY_SIZE slots are enough: no Interest is still
\* under way when its slot is due to be given to another.
HistorySuffices ==
    NumInterests <= HistorySize \/ HistorySize * SendInterval > Patience

(* While an Interest is under way its slot is its own: the limited arrays   *)
(* hold for it what unlimited ones would, whatever was expressed and       *)
(* retransmitted in between (HISTORY_SIZE in createNextInterest() and      *)
(* onTimeout()).  Holds where HistorySuffices.                             *)
SlotsAreTheirOwn ==
    \A n \in Nodes : \A s \in UnderWay(n) : history[n][Slot(s)] = unlimited[n][s + 1]

(* No Interest is under way for longer than the patience of its consumer,   *)
(* over all its retransmissions, each timed by a check of the forwarder and *)
(* a random delay.  Holds where HistorySuffices.                           *)
NoneOutlivesPatience ==
    \A n \in Nodes : \A s \in UnderWay(n) : now <= unlimited[n][s + 1].first + Patience

(* onTimeout() gives an Interest up only after InterestReTx retransmissions *)
(* of that very Interest; its sequence number is "for stats only"          *)
(* (NdnPackets.msg) and has no part in it.  Holds where HistorySuffices.   *)
GivesUpByOwnCount ==
    [][\A n \in Nodes : \A h \in held[n] :
          GiveUp(n, h) => unlimited[n][h.seqNo + 1].retx = InterestReTx
      ]_<<now, consumerVars>>

(* What onData() collects for the sequence number of an Interest of its own *)
(* is what was recorded for that Interest, or zero when HISTORY_SIZE later  *)
(* ones have been expressed; never what was recorded for another.  Holds   *)
(* where HistorySuffices.                                                  *)
StatisticsAreReal ==
    [][\A n \in Nodes :
          numDataReceived'[n] # numDataReceived[n] =>
             LET c == collected'[n]
                 entry == unlimited[n][c.seqNo + 1]
             IN  c.seqNo < intSeqNo[n] =>
                    \/ c = [seqNo |-> c.seqNo, allRtt |-> now - entry.first,
                            lastRtt |-> now - entry.last, retx |-> entry.retx]
                    \/ /\ c = [NoSample EXCEPT !.seqNo = c.seqNo]
                       /\ c.seqNo + HistorySize < intSeqNo[n]
      ]_<<now, consumerVars>>

(* A consumer that is never answered comes to rest all the same, after it   *)
(* has expressed all its Interests: neither the schedule nor the            *)
(* retransmissions go on for ever (without stopTime).                      *)
ConsumerFinishes ==
    <>[](\A n \in Nodes :
            /\ intSeqNo[n] = Goal
            /\ expressTimer[n] = NotScheduled
            /\ UnderWay(n) = {})
=============================================================================
