------------------------------ MODULE SimTime ------------------------------
(***************************************************************************)
(* The simulation time of the OMNeT++ kernel, as the NDN modules use it.   *)
(* Time is counted in ticks; a tick stands for any fixed number of         *)
(* milliseconds that divides the 1000 ms period of the table checks.  A    *)
(* self message is represented by the time at which the kernel will        *)
(* deliver it, or by NotScheduled.                                         *)
(*                                                                         *)
(* The kernel delivers the events of one instant one after the other.      *)
(* Events closer together than a tick share an instant, so any order of    *)
(* them is allowed here.                                                   *)
(***************************************************************************)
EXTENDS Integers

CONSTANTS
    Nodes,          \* the simulated hosts
    CheckPeriod,    \* the 1000 ms period of the table checks, in ticks
    MaxTime,        \* bound: the sim-time-limit of omnetpp.ini
    Horizon         \* bound: the applications and neighbours are silent later

ASSUME SimTimeAssumption ==
    /\ CheckPeriod \in Nat \ {0}
    /\ MaxTime \in Nat
    /\ Horizon \in Nat

VARIABLE now

NotScheduled == -1

\* What a timer variable may hold.
Timer == Nat \cup {NotScheduled}

\* scheduleAt(simTime() + 1000 ms, timer) unless timer->isScheduled().
ArmIfIdle(timer) == IF timer = NotScheduled THEN now + CheckPeriod ELSE timer

\* Seeded faults: the check is not repeated, or is repeated on an empty table.
NextCheckNever(entries) == NotScheduled
NextCheckAlways(entries) == now + CheckPeriod

\* The end of the handleMessage() of a table: the check is repeated after
\* 1000 ms if there are entries.
NextCheck(entries) == IF entries = <<>> THEN NotScheduled ELSE now + CheckPeriod

\* The kernel has a self message to deliver at this instant.
Due(timer) == timer = now

\* Time never passes a scheduled self message.
Tick(timers) ==
    /\ now < MaxTime
    /\ \A t \in timers : t # NotScheduled => t > now
    /\ now' = now + 1

\* Packets are offered to the nodes up to the Horizon.
TrafficOffered == now <= Horizon
=============================================================================
