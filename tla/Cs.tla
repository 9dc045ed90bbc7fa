--------------------------------- MODULE Cs ---------------------------------
(***************************************************************************)
(* CsBase: the Content Store of every host, a cache of Data packets with   *)
(* exact-name lookup and first-in first-out replacement.                   *)
(*                                                                         *)
(* cs[n] is the vector entries; staleAt = 0 stands for SIMTIME_ZERO, Data  *)
(* that never was fresh.  Whether Data is fresh is the flag of the entry,  *)
(* which the periodic check lowers; lookup() does not look at the clock.   *)
(* csTimer[n] is the self message checkDataStale.                          *)
(***************************************************************************)
EXTENDS SimTime, NdnTypes, SequencesExt

CONSTANT CsMaxSize      \* parameter maxSize of every host

ASSUME CsAssumption == CsMaxSize \in [Nodes -> Nat]

VARIABLES cs, csTimer

csVars == <<cs, csTimer>>

CsEntry == [data : DataPackets, fresh : BOOLEAN, staleAt : Nat]

CsTypeOK ==
    /\ now \in Nat
    /\ cs \in [Nodes -> Seq(CsEntry)]
    /\ \A n \in Nodes : Len(cs[n]) <= CsMaxSize[n]
    /\ csTimer \in [Nodes -> Timer]

CsInit ==
    /\ now = 0
    /\ cs = [n \in Nodes |-> <<>>]
    /\ csTimer = [n \in Nodes |-> NotScheduled]
-----------------------------------------------------------------------------
\* Seeded fault: the search misses the oldest entry.
CsPositionFromSecond(n, name) ==
    SelectInSubSeq(cs[n], 2, Len(cs[n]), LAMBDA e : e.data.name = name)

\* The position of the entry of that name, 0 if there is none.
CsPosition(n, name) == SelectInSeq(cs[n], LAMBDA e : e.data.name = name)

\* lookup() returns Data.
CsHit(n, name, mustBeFresh) ==
    LET i == CsPosition(n, name) IN i # 0 /\ (mustBeFresh => cs[n][i].fresh)

\* The Data that lookup() returns on a hit.
CsData(n, name) == cs[n][CsPosition(n, name)].data

CsFull(n) == Len(cs[n]) = CsMaxSize[n]

\* The constructor CsEntry(data).
CsNewEntry(d) ==
    [data |-> d, fresh |-> d.freshness > 0,
     staleAt |-> IF d.freshness > 0 THEN now + d.freshness ELSE 0]

CsArm(n) == csTimer' = [csTimer EXCEPT ![n] = ArmIfIdle(@)]

\* add() with a maxSize of 0: nothing is ever cached.
CsDisabled(n) == CsMaxSize[n] = 0 /\ UNCHANGED csVars

\* Seeded faults: only the flag, or only the date, is renewed.
CsRenewedFlag(e, d) == [e EXCEPT !.fresh = TRUE]
CsRenewedDate(e, d) == [e EXCEPT !.staleAt = now + d.freshness]

\* A cached entry when Data d of its name arrives; the cached packet stays.
CsRenewed(e, d) ==
    IF d.freshness = 0 THEN e
    ELSE [e EXCEPT !.fresh = TRUE, !.staleAt = now + d.freshness]

\* add() of Data whose name is cached.
CsRefresh(n, d) ==
    LET i == CsPosition(n, d.name) IN
    /\ CsMaxSize[n] # 0
    /\ i # 0
    /\ cs' = [cs EXCEPT ![n][i] = CsRenewed(@, d)]
    /\ CsArm(n)

\* Seeded faults: nothing is evicted, or the newest entry is.
CsRoomNone(n) == cs[n]
CsRoomNewest(n) == IF CsFull(n) THEN Front(cs[n]) ELSE cs[n]

\* What stays when a new entry comes: a full store gives up its oldest.
CsRoom(n) == IF CsFull(n) THEN Tail(cs[n]) ELSE cs[n]

\* add() of Data whose name is new.
CsInsert(n, d) ==
    /\ CsMaxSize[n] # 0
    /\ CsPosition(n, d.name) = 0
    /\ cs' = [cs EXCEPT ![n] = Append(CsRoom(n), CsNewEntry(d))]
    /\ CsArm(n)

\* add().
CsAdd(n, d) == CsDisabled(n) \/ CsRefresh(n, d) \/ CsInsert(n, d)

\* cleanStaled(): what has a date and has reached it is no longer fresh.
CsAfterCheck(n) ==
    [i \in DOMAIN cs[n] |->
        IF cs[n][i].staleAt \in 1..now THEN [cs[n][i] EXCEPT !.fresh = FALSE]
                                       ELSE cs[n][i]]

\* handleMessage() on checkDataStale.
CsCheckStale(n) ==
    /\ Due(csTimer[n])
    /\ cs' = [cs EXCEPT ![n] = CsAfterCheck(n)]
    /\ csTimer' = [csTimer EXCEPT ![n] = NextCheck(cs[n])]
-----------------------------------------------------------------------------
(* The store on its own, under every sequence of calls.                     *)

CsAddCall(n) ==
    /\ TrafficOffered
    /\ \E d \in DataPackets : CsAdd(n, d)
    /\ UNCHANGED now

CsTimerFires(n) == CsCheckStale(n) /\ UNCHANGED now

CsTick == Tick({csTimer[n] : n \in Nodes}) /\ UNCHANGED csVars

\* The sim-time-limit is reached.
CsEnd == now = MaxTime /\ UNCHANGED <<now, csVars>>

CsNext ==
    \/ \E n \in Nodes : CsAddCall(n) \/ CsTimerFires(n)
    \/ CsTick
    \/ CsEnd

CsSpec == CsInit /\ [][CsNext]_<<now, csVars>>
-----------------------------------------------------------------------------
(* An answer given as fresh is at most one check period past its freshness *)
(* period, whatever refreshes and evictions came before.                   *)
CsFreshnessBounded ==
    \A n \in Nodes : \A i \in DOMAIN cs[n] :
        cs[n][i].fresh => now <= cs[n][i].staleAt + CheckPeriod

(* Freshness is never lost early: an entry that is not fresh has outlived  *)
(* its period or never had one.                                            *)
CsNotStaleEarly ==
    \A n \in Nodes : \A i \in DOMAIN cs[n] :
        ~ cs[n][i].fresh => cs[n][i].staleAt <= now

(* lookup() and add() stop at the first entry of a name; there never is a  *)
(* second one, which they could not reach.                                 *)
CsNamesUnique ==
    \A n \in Nodes : \A i, j \in DOMAIN cs[n] :
        cs[n][i].data.name = cs[n][j].data.name => i = j

\* The names of a store, oldest first.
CsNames(store) == [i \in DOMAIN store |-> store[i].data.name]

(* Replacement is first-in first-out by arrival of the name: an add() that *)
(* brings a new name to a full store costs the oldest name and no other,   *)
(* and a refresh does not make an entry younger.                           *)
CsEvictsOldestOnly ==
    [][\A n \in Nodes :
          \/ IsPrefix(CsNames(cs[n]), CsNames(cs'[n]))
          \/ /\ CsFull(n)
             /\ Len(cs'[n]) = CsMaxSize[n]
             /\ IsPrefix(Tail(CsNames(cs[n])), CsNames(cs'[n]))]_cs
=============================================================================
