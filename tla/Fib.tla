-------------------------------- MODULE Fib --------------------------------
(***************************************************************************)
(* FibBase: the Forwarding Information Base of every host.  An entry says  *)
(* through which face, and to which next hop, a prefix is reached.         *)
(* Applications register prefixes; routes are learned from the Data that   *)
(* comes back.                                                             *)
(*                                                                         *)
(* fib[n] is the vector entries.  An expired entry is only marked erased;  *)
(* nothing calls FibBase::remove(), so it stays in the vector.             *)
(* fibTimer[n] is the self message checkExpired.                           *)
(***************************************************************************)
EXTENDS SimTime, NdnTypes, SequencesExt

CONSTANTS
    FibMaxSize,         \* parameter maxSize of every host
    EntryLifetime,      \* parameter entryLifetime, in ticks
    RegisterLifetime    \* the 100000 ms of registerPrefix(), in ticks

ASSUME FibAssumption ==
    /\ FibMaxSize \in [Nodes -> Nat]
    /\ EntryLifetime \in Nat
    /\ RegisterLifetime \in Nat

VARIABLES fib, fibTimer

fibVars == <<fib, fibTimer>>

FibEntry == [prefix : Seq(Tokens), face : Faces, mac : Macs,
             expireAt : Nat, erased : BOOLEAN]

FibTypeOK ==
    /\ now \in Nat
    /\ fib \in [Nodes -> Seq(FibEntry)]
    /\ \A n \in Nodes : Len(fib[n]) <= FibMaxSize[n]
    /\ fibTimer \in [Nodes -> Timer]

FibInit ==
    /\ now = 0
    /\ fib = [n \in Nodes |-> <<>>]
    /\ fibTimer = [n \in Nodes |-> NotScheduled]
-----------------------------------------------------------------------------
\* Seeded fault: the loop runs backwards.
FibMatchLast(n, name) ==
    SelectLastInSeq(fib[n], LAMBDA e : IsPrefix(e.prefix, name))

\* match(): the position of the first entry whose prefix begins the name.
FibMatch(n, name) == SelectInSeq(fib[n], LAMBDA e : IsPrefix(e.prefix, name))

\* lookup() finds an entry that can be used.
FibHit(n, name) ==
    LET i == FibMatch(n, name) IN i # 0 /\ ~ fib[n][i].erased

\* The entry lookup() returns when FibHit.
FibLookup(n, name) == fib[n][FibMatch(n, name)]

\* Seeded fault: one entry too many.
FibFullOffByOne(n) == Len(fib[n]) > FibMaxSize[n]

FibFull(n) == Len(fib[n]) >= FibMaxSize[n]

\* registerPrefix() when it returns true.  It does not arm checkExpired.
FibRegister(n, prefix, face, dest) ==
    /\ FibMatch(n, prefix) = 0
    /\ ~ FibFull(n)
    /\ fib' = [fib EXCEPT ![n] =
                  Append(@, [prefix |-> prefix, face |-> face, mac |-> dest,
                             expireAt |-> now + RegisterLifetime,
                             erased |-> FALSE])]
    /\ UNCHANGED fibTimer

\* registerPrefix() when it returns false.
FibRegisterRefused(n, prefix) ==
    /\ FibMatch(n, prefix) # 0 \/ FibFull(n)
    /\ UNCHANGED fibVars

\* create() on a name that an entry, live or erased, already matches.  The
\* entry keeps its prefix and its face, and checkExpired is not armed.
FibUpdate(n, name, dest) ==
    LET i == FibMatch(n, name) IN
    /\ i # 0
    /\ fib' = [fib EXCEPT ![n][i].mac = dest,
                          ![n][i].erased = FALSE,
                          ![n][i].expireAt = now + EntryLifetime]
    /\ UNCHANGED fibTimer

\* Seeded fault: the check is not started.
FibArmForgotten(n) == UNCHANGED fibTimer

FibArm(n) == fibTimer' = [fibTimer EXCEPT ![n] = ArmIfIdle(@)]

\* create() on a name without a match: the first length tokens become a route.
FibInsert(n, name, length, face, dest) ==
    /\ FibMatch(n, name) = 0
    /\ ~ FibFull(n)
    /\ fib' = [fib EXCEPT ![n] =
                  Append(@, [prefix |-> SubSeq(name, 1, length),
                             face |-> face, mac |-> dest,
                             expireAt |-> now + EntryLifetime,
                             erased |-> FALSE])]
    /\ FibArm(n)

\* create() on a name without a match when the table is full.
FibInsertRefused(n, name) ==
    /\ FibMatch(n, name) = 0
    /\ FibFull(n)
    /\ UNCHANGED fibVars

\* create().
FibCreate(n, name, length, face, dest) ==
    \/ FibUpdate(n, name, dest)
    \/ FibInsert(n, name, length, face, dest)
    \/ FibInsertRefused(n, name)

\* Seeded fault: expired entries are removed.
FibAfterCheckRemoves(n) == SelectSeq(fib[n], LAMBDA e : e.expireAt > now)

\* cleanExpired(): what has expired is marked.
FibAfterCheck(n) ==
    [i \in DOMAIN fib[n] |->
        [fib[n][i] EXCEPT !.erased = @ \/ fib[n][i].expireAt <= now]]

\* handleMessage() on checkExpired.
FibCheckExpired(n) ==
    /\ Due(fibTimer[n])
    /\ fib' = [fib EXCEPT ![n] = FibAfterCheck(n)]
    /\ fibTimer' = [fibTimer EXCEPT ![n] = NextCheck(fib[n])]
-----------------------------------------------------------------------------
(* The table on its own, under every sequence of calls.  Registrations come *)
(* from applications and routes from the network.                           *)

FibRegisterCall(n) ==
    /\ TrafficOffered
    /\ \E prefix \in Names, face \in UpperFaces, dest \in Macs :
          \/ FibRegister(n, prefix, face, dest)
          \/ FibRegisterRefused(n, prefix)
    /\ UNCHANGED now

FibCreateCall(n) ==
    /\ TrafficOffered
    /\ \E d \in DataPackets, face \in LowerFaces, dest \in Macs :
          FibCreate(n, d.name, d.prefixLength, face, dest)
    /\ UNCHANGED now

FibTimerFires(n) == FibCheckExpired(n) /\ UNCHANGED now

FibTick == Tick({fibTimer[n] : n \in Nodes}) /\ UNCHANGED fibVars

\* The sim-time-limit is reached.
FibEnd == now = MaxTime /\ UNCHANGED <<now, fibVars>>

FibNext ==
    \/ \E n \in Nodes :
          \/ FibRegisterCall(n)
          \/ FibCreateCall(n)
          \/ FibTimerFires(n)
    \/ FibTick
    \/ FibEnd

FibSpec == FibInit /\ [][FibNext]_<<now, fibVars>>
-----------------------------------------------------------------------------
(* match() takes the first entry that fits and never compares lengths.  It *)
(* still finds the longest prefix, the rule of an NDN FIB, because an      *)
(* entry is only ever appended when nothing in the table matches its name. *)
FibFirstMatchIsLongest ==
    \A n \in Nodes, name \in Names : \A j \in DOMAIN fib[n] :
        IsPrefix(fib[n][j].prefix, name) =>
            /\ FibMatch(n, name) # 0
            /\ Len(fib[n][j].prefix) <= Len(FibLookup(n, name).prefix)

(* A route learned from the network is not used for longer than one check  *)
(* period after it expired, although update and registration leave         *)
(* checkExpired alone.  (A registered prefix has no such bound: only the   *)
(* insertion of a learned route starts the check.)                         *)
FibNoOverdueRoute ==
    \A n \in Nodes : \A i \in DOMAIN fib[n] :
        fib[n][i].face \in LowerFaces /\ ~ fib[n][i].erased =>
            now <= fib[n][i].expireAt + CheckPeriod

\* The prefixes of a table and the faces they are bound to, in order.
FibBindings(table) ==
    [i \in DOMAIN table |-> <<table[i].prefix, table[i].face>>]

(* A prefix stays bound to the face it was first seen on, and its slot     *)
(* stays taken: create() on a match refreshes the next hop but not the     *)
(* face, and expiry marks entries without removing them.                   *)
FibBindingsArePermanent ==
    [][\A n \in Nodes : IsPrefix(FibBindings(fib[n]), FibBindings(fib'[n]))]_fib
=============================================================================
