-------------------------------- MODULE Pit --------------------------------
(***************************************************************************)
(* PitBase: the Pending Interest Table of every host.  An entry remembers  *)
(* where an Interest came from (the face and the previous hop's MAC) until *)
(* Data removes it or the periodic check finds it expired.                 *)
(*                                                                         *)
(* pit[n] is the vector entries; between two events no entry of it is      *)
(* marked erased, since cleanTimedout() erases what it marks, so the flag  *)
(* is left out.  pitTimer[n] is the self message checkTimeout.             *)
(***************************************************************************)
EXTENDS SimTime, NdnTypes, Vectors, SequencesExt

CONSTANT PitMaxSize     \* parameter maxSize of every host

ASSUME PitAssumption == PitMaxSize \in [Nodes -> Nat]

VARIABLES pit, pitTimer

pitVars == <<pit, pitTimer>>

PitEntry == [interest : Interests, face : Faces, mac : Macs, expireAt : Nat]

PitTypeOK ==
    /\ now \in Nat
    /\ pit \in [Nodes -> Seq(PitEntry)]
    /\ \A n \in Nodes : Len(pit[n]) <= PitMaxSize[n]
    /\ pitTimer \in [Nodes -> Timer]

PitInit ==
    /\ now = 0
    /\ pit = [n \in Nodes |-> <<>>]
    /\ pitTimer = [n \in Nodes |-> NotScheduled]
-----------------------------------------------------------------------------
\* lookup(): the position of the first entry of that name, 0 for nullptr.
PitLookup(n, name) == SelectInSeq(pit[n], LAMBDA e : e.interest.name = name)

\* Seeded fault: one entry too many.
PitFullOffByOne(n) == Len(pit[n]) > PitMaxSize[n]

PitFull(n) == Len(pit[n]) = PitMaxSize[n]

\* create() when it returns true.  Whether the name is there is not looked at.
PitCreate(n, interest, face, src) ==
    /\ ~ PitFull(n)
    /\ pit' = [pit EXCEPT ![n] =
                  Append(@, [interest |-> interest, face |-> face, mac |-> src,
                             expireAt |-> now + interest.lifetime])]
    /\ pitTimer' = [pitTimer EXCEPT ![n] = ArmIfIdle(@)]

\* create() when it returns false.
PitReject(n) == PitFull(n) /\ UNCHANGED pitVars

\* Seeded fault: the entry that was answered stays.
PitRemoveForgotten(n, name) == UNCHANGED pitVars

\* remove(): the first entry of that name goes, if there is one.
PitRemove(n, name) ==
    LET i == PitLookup(n, name) IN
    /\ pit' = IF i = 0 THEN pit ELSE [pit EXCEPT ![n] = Erase(@, i)]
    /\ UNCHANGED pitTimer

\* The entries that cleanTimedout() leaves alone; for the others it emits the
\* signal interestTimeout, in the order of the vector.
PitUnexpired(n) == {i \in DOMAIN pit[n] : pit[n][i].expireAt > now}

\* handleMessage() on checkTimeout, with the cleanTimedout() it calls.
PitCheckTimeout(n) ==
    /\ Due(pitTimer[n])
    /\ pit' = [pit EXCEPT ![n] = Retain(@, PitUnexpired(n))]
    /\ pitTimer' = [pitTimer EXCEPT ![n] = NextCheck(pit'[n])]
-----------------------------------------------------------------------------
(* The table on its own, under every sequence of calls.                     *)

PitCreateCall(n) ==
    /\ TrafficOffered
    /\ \E interest \in Interests, face \in Faces, src \in Macs :
          PitCreate(n, interest, face, src)
    /\ UNCHANGED now

PitRejectedCall(n) == TrafficOffered /\ PitReject(n) /\ UNCHANGED now

PitRemoveCall(n) ==
    /\ TrafficOffered
    /\ \E name \in Names : PitRemove(n, name)
    /\ UNCHANGED now

PitTimerFires(n) == PitCheckTimeout(n) /\ UNCHANGED now

PitTick == Tick({pitTimer[n] : n \in Nodes}) /\ UNCHANGED pitVars

\* The sim-time-limit is reached.
PitEnd == now = MaxTime /\ UNCHANGED <<now, pitVars>>

PitNext ==
    \/ \E n \in Nodes :
          \/ PitCreateCall(n)
          \/ PitRejectedCall(n)
          \/ PitRemoveCall(n)
          \/ PitTimerFires(n)
    \/ PitTick
    \/ PitEnd

PitSpec == PitInit /\ [][PitNext]_<<now, pitVars>>

\* The kernel delivers every scheduled event and time goes on.
PitFairSpec ==
    /\ PitSpec
    /\ \A n \in Nodes : WF_<<now, pitVars>>(PitTimerFires(n))
    /\ WF_<<now, pitVars>>(PitTick)
-----------------------------------------------------------------------------
(* What the periodic check achieves.                                       *)

(* No pending Interest outlives its lifetime by more than one check period: *)
(* every create() finds checkTimeout armed or arms it, and handleMessage()  *)
(* arms it again for as long as entries are left.                           *)
PitNoOverdueEntry ==
    \A n \in Nodes : \A i \in DOMAIN pit[n] :
        now <= pit[n][i].expireAt + CheckPeriod

(* Once nobody adds entries the table drains and its timer comes to rest:  *)
(* no entry is passed over by cleanTimedout() for ever, and the check does *)
(* not keep the simulation alive on an empty table.                        *)
PitDrains ==
    <>[](\A n \in Nodes : pit[n] = <<>> /\ pitTimer[n] = NotScheduled)
=============================================================================
