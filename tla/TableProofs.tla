----------------------------- MODULE TableProofs -----------------------------
(***************************************************************************)
(* Proofs about the three tables of a host, each under every sequence of   *)
(* calls: the Pending Interest Table, the Forwarding Information Base and  *)
(* the Content Store.                                                      *)
(***************************************************************************)
EXTENDS Pit, Fib, Cs, VectorLemmas
-----------------------------------------------------------------------------
(* The Pending Interest Table.                                             *)

(* What lookup() returns: the first entry of the name, or 0 if there is     *)
(* none.                                                                    *)
LEMMA PitLookupFindsFirst ==
    ASSUME NEW T, NEW n \in Nodes, pit[n] \in Seq(T), NEW name
    PROVE  LET p == PitLookup(n, name) IN
           /\ p \in {0} \cup DOMAIN pit[n]
           /\ p # 0 => pit[n][p].interest.name = name
           /\ \A i \in DOMAIN pit[n] :
                 pit[n][i].interest.name = name => p # 0 /\ p <= i
<1> DEFINE I == {i \in 1..Len(pit[n]) : pit[n][i].interest.name = name}
<1>1. DOMAIN pit[n] = 1..Len(pit[n]) /\ Len(pit[n]) \in Nat
  BY LenProperties
<1>2. PitLookup(n, name) = IF I # {} THEN Min(I) ELSE 0
  BY DEF PitLookup, SelectInSeq
<1>3. I \in SUBSET Nat
  BY <1>1
<1>4. CASE I = {}
  BY <1>1, <1>2, <1>4
<1>5. CASE I # {}
  <2>1. Min(I) \in I /\ \A i \in I : Min(I) <= i
    BY <1>3, <1>5, MinIsLeast
  <2> HIDE DEF I
  <2>2. Min(I) \in 1..Len(pit[n]) /\ pit[n][Min(I)].interest.name = name
    BY <2>1 DEF I
  <2>3. \A i \in 1..Len(pit[n]) :
           pit[n][i].interest.name = name => Min(I) <= i
    BY <2>1 DEF I
  <2> QED BY <1>1, <1>2, <1>5, <2>2, <2>3
<1> QED BY <1>4, <1>5

-----------------------------------------------------------------------------
(* The inductive invariant.  A table with entries is going to be checked,   *)
(* the check is at most one period away, and no entry will by then be       *)
(* overdue by more than one period.                                         *)

PitChecked == \A n \in Nodes : pit[n] # <<>> => pitTimer[n] # NotScheduled

PitCheckIsNear ==
    \A n \in Nodes : pitTimer[n] # NotScheduled =>
        pitTimer[n] \in now..(now + CheckPeriod)

PitCheckedInTime ==
    \A n \in Nodes : \A i \in DOMAIN pit[n] :
        pitTimer[n] <= pit[n][i].expireAt + CheckPeriod

PitInv == PitTypeOK /\ PitChecked /\ PitCheckIsNear /\ PitCheckedInTime

(* The invariant gives the property: the clock has not passed the check.    *)
LEMMA PitInvImpliesNoOverdue == PitInv => PitNoOverdueEntry
<1> SUFFICES ASSUME PitInv, NEW n \in Nodes, NEW i \in DOMAIN pit[n]
             PROVE  now <= pit[n][i].expireAt + CheckPeriod
  BY DEF PitNoOverdueEntry
<1>1. pit[n] \in Seq(PitEntry) /\ now \in Nat /\ CheckPeriod \in Nat
  BY SimTimeAssumption DEF PitInv, PitTypeOK
<1>2. pit[n][i] \in PitEntry
  BY <1>1, LenProperties, ElementOfSeq
<1>3. pit[n] # <<>>
  OBVIOUS
<1>4. now <= pitTimer[n] /\ pitTimer[n] \in Int
  BY <1>1, <1>3 DEF PitInv, PitChecked, PitCheckIsNear
<1>5. pitTimer[n] <= pit[n][i].expireAt + CheckPeriod
  BY DEF PitInv, PitCheckedInTime
<1> QED BY <1>1, <1>2, <1>4, <1>5 DEF PitEntry

LEMMA PitInitInv == PitInit => PitInv
<1> SUFFICES ASSUME PitInit PROVE PitInv
  OBVIOUS
<1>1. \A n \in Nodes : pit[n] = <<>> /\ pitTimer[n] = NotScheduled
  BY DEF PitInit
<1>2. PitTypeOK
  BY <1>1, PitAssumption DEF PitTypeOK, PitInit, Timer
<1> QED BY <1>1, <1>2 DEF PitInv, PitChecked, PitCheckIsNear, PitCheckedInTime

(* A step that gives one host a new table and a new timer keeps the         *)
(* invariant if they satisfy it.                                            *)
LEMMA PitHostStep ==
    ASSUME PitInv, NEW n \in Nodes, NEW q \in Seq(PitEntry), NEW t \in Timer,
           now' = now,
           pit' = [pit EXCEPT ![n] = q],
           pitTimer' = [pitTimer EXCEPT ![n] = t],
           Len(q) <= PitMaxSize[n],
           q # <<>> => t # NotScheduled,
           t # NotScheduled => t \in now..(now + CheckPeriod),
           \A i \in DOMAIN q : t <= q[i].expireAt + CheckPeriod
    PROVE  PitInv'
<1>1. /\ pit \in [Nodes -> Seq(PitEntry)]
      /\ pitTimer \in [Nodes -> Timer]
      /\ now \in Nat
  BY DEF PitInv, PitTypeOK
<1>2. \A m \in Nodes : /\ pit'[m] = IF m = n THEN q ELSE pit[m]
                       /\ pitTimer'[m] = IF m = n THEN t ELSE pitTimer[m]
  BY <1>1
<1>3. PitTypeOK'
  BY <1>1, <1>2 DEF PitInv, PitTypeOK
<1>4. PitChecked'
  BY <1>2 DEF PitInv, PitChecked
<1>5. PitCheckIsNear'
  BY <1>2 DEF PitInv, PitCheckIsNear
<1>6. PitCheckedInTime'
  BY <1>2 DEF PitInv, PitCheckedInTime
<1> QED BY <1>3, <1>4, <1>5, <1>6 DEF PitInv

(* The bounds that every proof of a step starts from.                       *)
LEMMA PitHost ==
    ASSUME PitInv, NEW n \in Nodes
    PROVE  /\ pit[n] \in Seq(PitEntry) /\ pitTimer[n] \in Timer /\ now \in Nat
           /\ DOMAIN pit[n] = 1..Len(pit[n]) /\ Len(pit[n]) \in Nat
           /\ Len(pit[n]) <= PitMaxSize[n] /\ PitMaxSize[n] \in Nat
           /\ \A i \in DOMAIN pit[n] : pit[n][i] \in PitEntry
           /\ CheckPeriod \in Nat \ {0}
<1>1. pit[n] \in Seq(PitEntry) /\ pitTimer[n] \in Timer /\ now \in Nat
      /\ Len(pit[n]) <= PitMaxSize[n]
  BY DEF PitInv, PitTypeOK
<1> QED BY <1>1, LenProperties, ElementOfSeq, PitAssumption, SimTimeAssumption

(* create().                                                                *)
LEMMA PitCreateKeepsInv ==
    ASSUME PitInv, NEW n \in Nodes, NEW interest \in Interests,
           NEW face \in Faces, NEW src \in Macs, now' = now,
           PitCreate(n, interest, face, src)
    PROVE  PitInv'
<1> DEFINE e == [interest |-> interest, face |-> face, mac |-> src,
                 expireAt |-> now + interest.lifetime]
           q == Append(pit[n], e)
           t == ArmIfIdle(pitTimer[n])
<1>1. /\ pit[n] \in Seq(PitEntry) /\ pitTimer[n] \in Timer /\ now \in Nat
      /\ DOMAIN pit[n] = 1..Len(pit[n]) /\ Len(pit[n]) \in Nat
      /\ Len(pit[n]) <= PitMaxSize[n] /\ PitMaxSize[n] \in Nat
      /\ \A i \in DOMAIN pit[n] : pit[n][i] \in PitEntry
      /\ CheckPeriod \in Nat \ {0}
  BY PitHost
<1>2. interest.lifetime \in Nat
  BY PacketsAssumption
<1>3. e \in PitEntry /\ e.expireAt = now + interest.lifetime
  BY <1>1, <1>2 DEF PitEntry
<1> HIDE DEF e
<1>4. /\ q \in Seq(PitEntry)
      /\ Len(q) = Len(pit[n]) + 1
      /\ DOMAIN q = DOMAIN pit[n] \cup {Len(pit[n]) + 1}
      /\ q[Len(pit[n]) + 1] = e
      /\ \A i \in DOMAIN pit[n] : q[i] = pit[n][i]
  BY <1>1, <1>3, PushBack
<1>5. Len(q) <= PitMaxSize[n]
  BY <1>1, <1>4 DEF PitCreate, PitFull
<1>6. pitTimer[n] # NotScheduled => pitTimer[n] \in now..(now + CheckPeriod)
  BY DEF PitInv, PitCheckIsNear
<1>7. t \in now..(now + CheckPeriod) /\ t # NotScheduled /\ t \in Timer
  BY <1>1, <1>6 DEF ArmIfIdle, NotScheduled, Timer
<1>8. \A i \in DOMAIN q : t <= q[i].expireAt + CheckPeriod
  <2>1. t <= e.expireAt + CheckPeriod
    BY <1>1, <1>2, <1>3, <1>7
  <2>2. ASSUME NEW i \in DOMAIN pit[n]
        PROVE  t <= pit[n][i].expireAt + CheckPeriod
    <3>1. pit[n] # <<>>
      BY <1>1
    <3>2. t = pitTimer[n]
      BY <3>1 DEF PitInv, PitChecked, ArmIfIdle
    <3> QED BY <3>2 DEF PitInv, PitCheckedInTime
  <2> QED BY <1>4, <2>1, <2>2
<1>9. pit' = [pit EXCEPT ![n] = q] /\ pitTimer' = [pitTimer EXCEPT ![n] = t]
  BY DEF PitCreate, e
<1> HIDE DEF q, t
<1> QED BY <1>4, <1>5, <1>7, <1>8, <1>9, PitHostStep

(* remove().                                                                *)
LEMMA PitRemoveKeepsInv ==
    ASSUME PitInv, NEW n \in Nodes, NEW name, now' = now, PitRemove(n, name)
    PROVE  PitInv'
<1> DEFINE p == PitLookup(n, name)
           q == IF p = 0 THEN pit[n] ELSE Erase(pit[n], p)
<1>1. /\ pit[n] \in Seq(PitEntry) /\ pitTimer[n] \in Timer /\ now \in Nat
      /\ DOMAIN pit[n] = 1..Len(pit[n]) /\ Len(pit[n]) \in Nat
      /\ Len(pit[n]) <= PitMaxSize[n] /\ PitMaxSize[n] \in Nat
      /\ \A i \in DOMAIN pit[n] : pit[n][i] \in PitEntry
      /\ CheckPeriod \in Nat \ {0}
  BY PitHost
<1> HIDE DEF p
<1>2. /\ q \in Seq(PitEntry)
      /\ Len(q) <= Len(pit[n])
      /\ \A k \in DOMAIN q : \E i \in DOMAIN pit[n] : q[k] = pit[n][i]
  <2>1. CASE p = 0
    BY <1>1, <2>1
  <2>2. CASE p # 0
    <3> DEFINE keep == DOMAIN pit[n] \ {p}
    <3>1. keep \in SUBSET DOMAIN pit[n]
      OBVIOUS
    <3> HIDE DEF keep
    <3>2. /\ Retain(pit[n], keep) \in Seq(PitEntry)
          /\ Len(Retain(pit[n], keep)) <= Len(pit[n])
          /\ \A k \in DOMAIN Retain(pit[n], keep) : \E i \in keep :
                Retain(pit[n], keep)[k] = pit[n][i]
      BY <1>1, <3>1, RetainProperties
    <3>3. q = Retain(pit[n], keep)
      BY <2>2 DEF Erase, keep
    <3> QED BY <3>1, <3>2, <3>3
  <2> QED BY <2>1, <2>2
<1>3. Len(q) \in Nat /\ Len(q) <= PitMaxSize[n]
  BY <1>1, <1>2, LenProperties
<1>4. q # <<>> => pitTimer[n] # NotScheduled
  <2>1. q # <<>> => 1 \in DOMAIN q
    BY <1>2, EmptySeq, LenProperties
  <2>2. q # <<>> => pit[n] # <<>>
    BY <1>1, <1>2, <2>1
  <2> QED BY <2>2 DEF PitInv, PitChecked
<1>5. pitTimer[n] # NotScheduled => pitTimer[n] \in now..(now + CheckPeriod)
  BY DEF PitInv, PitCheckIsNear
<1>6. \A k \in DOMAIN q : pitTimer[n] <= q[k].expireAt + CheckPeriod
  BY <1>2 DEF PitInv, PitCheckedInTime
<1>7. pit' = [pit EXCEPT ![n] = q]
  BY DEF PitRemove, PitInv, PitTypeOK, p
<1>8. pitTimer' = [pitTimer EXCEPT ![n] = pitTimer[n]]
  BY DEF PitRemove, PitInv, PitTypeOK
<1> HIDE DEF q
<1> QED BY <1>1, <1>2, <1>3, <1>4, <1>5, <1>6, <1>7, <1>8, PitHostStep

(* The periodic check: what stays has not expired, so the next check, one   *)
(* period on, is early enough for it.                                       *)
LEMMA PitCheckKeepsInv ==
    ASSUME PitInv, NEW n \in Nodes, now' = now, PitCheckTimeout(n)
    PROVE  PitInv'
<1> DEFINE keep == PitUnexpired(n)
           q == Retain(pit[n], keep)
           t == NextCheck(q)
<1>1. /\ pit[n] \in Seq(PitEntry) /\ pitTimer[n] \in Timer /\ now \in Nat
      /\ DOMAIN pit[n] = 1..Len(pit[n]) /\ Len(pit[n]) \in Nat
      /\ Len(pit[n]) <= PitMaxSize[n] /\ PitMaxSize[n] \in Nat
      /\ \A i \in DOMAIN pit[n] : pit[n][i] \in PitEntry
      /\ CheckPeriod \in Nat \ {0}
  BY PitHost
<1>2. keep \in SUBSET DOMAIN pit[n] /\ \A i \in keep : pit[n][i].expireAt > now
  BY DEF PitUnexpired
<1>3. pit' = [pit EXCEPT ![n] = q]
  BY DEF PitCheckTimeout
<1>4. pit'[n] = q
  BY <1>3 DEF PitInv, PitTypeOK
<1>5. pitTimer' = [pitTimer EXCEPT ![n] = t]
  BY <1>4 DEF PitCheckTimeout
<1> HIDE DEF keep
<1>6. /\ q \in Seq(PitEntry)
      /\ Len(q) <= Len(pit[n])
      /\ \A k \in DOMAIN q : \E i \in keep : q[k] = pit[n][i]
  BY <1>1, <1>2, RetainProperties
<1>7. Len(q) \in Nat /\ Len(q) <= PitMaxSize[n]
  BY <1>1, <1>6, LenProperties
<1> HIDE DEF q
<1>8. /\ t \in Timer
      /\ q # <<>> => t # NotScheduled
      /\ t # NotScheduled => t \in now..(now + CheckPeriod)
      /\ t <= now + CheckPeriod
  BY <1>1 DEF NextCheck, NotScheduled, Timer
<1>9. \A k \in DOMAIN q : t <= q[k].expireAt + CheckPeriod
  <2> TAKE k \in DOMAIN q
  <2>1. PICK i \in keep : q[k] = pit[n][i]
    BY <1>6
  <2>2. pit[n][i].expireAt \in Nat /\ pit[n][i].expireAt > now
    BY <1>1, <1>2, <2>1 DEF PitEntry
  <2>3. t \in Int
    BY <1>8 DEF Timer, NotScheduled
  <2> HIDE DEF t
  <2> QED BY <1>1, <1>8, <2>1, <2>2, <2>3
<1> HIDE DEF t
<1> QED BY <1>3, <1>5, <1>6, <1>7, <1>8, <1>9, PitHostStep

(* Time passes only up to the next check.                                   *)
LEMMA PitTickKeepsInv ==
    ASSUME PitInv, PitTick PROVE PitInv'
<1>1. /\ pit' = pit /\ pitTimer' = pitTimer /\ now' = now + 1 /\ now \in Nat
      /\ CheckPeriod \in Nat
      /\ \A n \in Nodes : pitTimer[n] # NotScheduled => pitTimer[n] > now
  BY SimTimeAssumption DEF PitTick, Tick, pitVars, PitInv, PitTypeOK
<1>2. \A n \in Nodes : pitTimer[n] \in Timer
  BY DEF PitInv, PitTypeOK
<1>3. PitTypeOK' /\ PitChecked' /\ PitCheckedInTime'
  BY <1>1 DEF PitInv, PitTypeOK, PitChecked, PitCheckedInTime
<1>4. PitCheckIsNear'
  BY <1>1, <1>2 DEF PitInv, PitCheckIsNear, Timer, NotScheduled
<1> QED BY <1>3, <1>4 DEF PitInv

LEMMA PitNextKeepsInv == PitInv /\ [PitNext]_<<now, pitVars>> => PitInv'
<1> SUFFICES ASSUME PitInv, [PitNext]_<<now, pitVars>> PROVE PitInv'
  OBVIOUS
<1> USE DEF pitVars
<1>1. ASSUME NEW n \in Nodes, PitCreateCall(n) PROVE PitInv'
  BY <1>1, PitCreateKeepsInv DEF PitCreateCall
<1>2. ASSUME NEW n \in Nodes, PitRemoveCall(n) PROVE PitInv'
  BY <1>2, PitRemoveKeepsInv DEF PitRemoveCall
<1>3. ASSUME NEW n \in Nodes, PitTimerFires(n) PROVE PitInv'
  BY <1>3, PitCheckKeepsInv DEF PitTimerFires
<1>4. CASE PitTick
  BY <1>4, PitTickKeepsInv
<1>5. CASE UNCHANGED <<now, pitVars>>
  BY <1>5 DEF PitInv, PitTypeOK, PitChecked, PitCheckIsNear, PitCheckedInTime
<1>6. ASSUME NEW n \in Nodes, PitRejectedCall(n) PROVE PitInv'
  BY <1>5, <1>6 DEF PitRejectedCall, PitReject
<1> QED
  BY <1>1, <1>2, <1>3, <1>4, <1>5, <1>6 DEF PitNext, PitEnd

(* The table never leaves its type and never holds more than maxSize        *)
(* entries, in every order of create(), remove() and periodic checks.       *)
THEOREM PitTypeCorrect == PitSpec => []PitTypeOK
<1>1. PitInv => PitTypeOK
  BY DEF PitInv
<1> QED BY PitInitInv, PitNextKeepsInv, <1>1, PTL DEF PitSpec

(* No entry outlives its lifetime by more than the 1000 ms between two      *)
(* calls of cleanTimedout(), for any table size, lifetimes and traffic.     *)
THEOREM PitTimeoutInTime == PitSpec => []PitNoOverdueEntry
  BY PitInitInv, PitNextKeepsInv, PitInvImpliesNoOverdue, PTL DEF PitSpec
-----------------------------------------------------------------------------
(* The Forwarding Information Base.                                        *)

(* What match() returns: the first entry whose prefix begins the name, or 0 *)
(* if there is none.                                                        *)
LEMMA FibMatchFindsFirst ==
    ASSUME NEW T, NEW n \in Nodes, fib[n] \in Seq(T), NEW name
    PROVE  LET p == FibMatch(n, name) IN
           /\ p \in {0} \cup DOMAIN fib[n]
           /\ p # 0 => IsPrefix(fib[n][p].prefix, name)
           /\ \A i \in DOMAIN fib[n] :
                 IsPrefix(fib[n][i].prefix, name) => p # 0 /\ p <= i
<1> DEFINE I == {i \in 1..Len(fib[n]) : IsPrefix(fib[n][i].prefix, name)}
<1>1. DOMAIN fib[n] = 1..Len(fib[n]) /\ Len(fib[n]) \in Nat
  BY LenProperties
<1>2. FibMatch(n, name) = IF I # {} THEN Min(I) ELSE 0
  BY DEF FibMatch, SelectInSeq
<1>3. I \in SUBSET Nat
  BY <1>1
<1>4. CASE I = {}
  BY <1>1, <1>2, <1>4
<1>5. CASE I # {}
  <2>1. Min(I) \in I /\ \A i \in I : Min(I) <= i
    BY <1>3, <1>5, MinIsLeast
  <2> HIDE DEF I
  <2>2. Min(I) \in 1..Len(fib[n]) /\ IsPrefix(fib[n][Min(I)].prefix, name)
    BY <2>1 DEF I
  <2>3. \A i \in 1..Len(fib[n]) :
           IsPrefix(fib[n][i].prefix, name) => Min(I) <= i
    BY <2>1 DEF I
  <2> QED BY <1>1, <1>2, <1>5, <2>2, <2>3
<1> QED BY <1>4, <1>5
-----------------------------------------------------------------------------
(* The inductive invariant.  No prefix extends the prefix of an earlier     *)
(* entry, so prefixes of one name stand in the table with the longer first. *)
(* A table with a learned route is going to be checked, in time for every   *)
(* such route.                                                              *)

FibLongerFirst ==
    \A n \in Nodes : \A i, j \in DOMAIN fib[n] :
        i < j => ~ IsPrefix(fib[n][i].prefix, fib[n][j].prefix)

FibChecked ==
    \A n \in Nodes : \A i \in DOMAIN fib[n] :
        fib[n][i].face \in LowerFaces => fibTimer[n] # NotScheduled

FibCheckIsNear ==
    \A n \in Nodes : fibTimer[n] # NotScheduled =>
        fibTimer[n] \in now..(now + CheckPeriod)

FibCheckedInTime ==
    \A n \in Nodes : \A i \in DOMAIN fib[n] :
        fib[n][i].face \in LowerFaces /\ ~ fib[n][i].erased =>
            fibTimer[n] <= fib[n][i].expireAt + CheckPeriod

FibInv == /\ FibTypeOK
          /\ FibLongerFirst
          /\ FibChecked
          /\ FibCheckIsNear
          /\ FibCheckedInTime

(* The facts about one host that every proof of a step starts from.         *)
LEMMA FibHost ==
    ASSUME FibInv, NEW n \in Nodes
    PROVE  /\ fib[n] \in Seq(FibEntry) /\ fibTimer[n] \in Timer /\ now \in Nat
           /\ DOMAIN fib[n] = 1..Len(fib[n]) /\ Len(fib[n]) \in Nat
           /\ Len(fib[n]) <= FibMaxSize[n] /\ FibMaxSize[n] \in Nat
           /\ \A i \in DOMAIN fib[n] :
                 /\ fib[n][i] \in FibEntry
                 /\ fib[n][i].prefix \in Seq(Tokens)
                 /\ fib[n][i].expireAt \in Nat
           /\ CheckPeriod \in Nat \ {0}
<1>1. /\ fib[n] \in Seq(FibEntry) /\ fibTimer[n] \in Timer /\ now \in Nat
      /\ Len(fib[n]) <= FibMaxSize[n]
  BY DEF FibInv, FibTypeOK
<1>2. \A i \in DOMAIN fib[n] : fib[n][i] \in FibEntry
  BY <1>1, LenProperties, ElementOfSeq
<1> QED BY <1>1, <1>2, LenProperties, FibAssumption, SimTimeAssumption DEF FibEntry

(* Of the entries that begin a name the first has the longest prefix.       *)
LEMMA FibInvImpliesLongest == FibInv => FibFirstMatchIsLongest
<1> SUFFICES ASSUME FibInv, NEW n \in Nodes, NEW name \in Names,
                    NEW j \in DOMAIN fib[n], IsPrefix(fib[n][j].prefix, name)
             PROVE  /\ FibMatch(n, name) # 0
                    /\ Len(fib[n][j].prefix) <= Len(FibLookup(n, name).prefix)
  BY DEF FibFirstMatchIsLongest
<1> DEFINE i == FibMatch(n, name)
<1>1. /\ fib[n] \in Seq(FibEntry)
      /\ DOMAIN fib[n] = 1..Len(fib[n]) /\ Len(fib[n]) \in Nat
      /\ \A k \in DOMAIN fib[n] : fib[n][k].prefix \in Seq(Tokens)
  BY FibHost
<1>2. i # 0 /\ i \in DOMAIN fib[n] /\ i <= j /\ IsPrefix(fib[n][i].prefix, name)
  BY <1>1, FibMatchFindsFirst
<1>3. name \in Seq(Tokens)
  BY NamesAssumption
<1> DEFINE p == fib[n][i].prefix
           q == fib[n][j].prefix
<1>4. p \in Seq(Tokens) /\ q \in Seq(Tokens)
  BY <1>1, <1>2
<1>5. Len(p) \in Nat /\ Len(q) \in Nat
  BY <1>4, LenProperties
<1>6. Len(q) <= Len(p)
  <2>1. SUFFICES ASSUME Len(p) < Len(q) PROVE FALSE
    BY <1>5
  <2>2. IsPrefix(p, q)
    <3>1. Len(p) <= Len(q)
      BY <1>5, <2>1
    <3> HIDE DEF p, q
    <3>2. IsPrefix(p, name) /\ IsPrefix(q, name)
      BY <1>2 DEF p, q
    <3> QED BY <1>3, <1>4, <3>1, <3>2, PrefixesNest
  <2>3. i # j
    BY <1>5, <2>1
  <2>4. i < j
    BY <1>1, <1>2, <2>3
  <2> QED BY <1>2, <2>2, <2>4 DEF FibInv, FibLongerFirst
<1> QED BY <1>2, <1>6 DEF FibLookup

(* The clock has not passed the check, which no route has to wait for too   *)
(* long.                                                                    *)
LEMMA FibInvImpliesNoOverdue == FibInv => FibNoOverdueRoute
<1> SUFFICES ASSUME FibInv, NEW n \in Nodes, NEW i \in DOMAIN fib[n],
                    fib[n][i].face \in LowerFaces, ~ fib[n][i].erased
             PROVE  now <= fib[n][i].expireAt + CheckPeriod
  BY DEF FibNoOverdueRoute
<1>1. /\ now \in Nat /\ CheckPeriod \in Nat /\ fib[n][i].expireAt \in Nat
      /\ fibTimer[n] \in Timer
  BY FibHost
<1>2. fibTimer[n] # NotScheduled
  BY DEF FibInv, FibChecked
<1>3. now <= fibTimer[n] /\ fibTimer[n] \in Int
  BY <1>1, <1>2 DEF FibInv, FibCheckIsNear
<1>4. fibTimer[n] <= fib[n][i].expireAt + CheckPeriod
  BY DEF FibInv, FibCheckedInTime
<1> QED BY <1>1, <1>3, <1>4

LEMMA FibInitInv == FibInit => FibInv
<1> SUFFICES ASSUME FibInit PROVE FibInv
  OBVIOUS
<1>1. \A n \in Nodes : fib[n] = <<>> /\ fibTimer[n] = NotScheduled
  BY DEF FibInit
<1>2. FibTypeOK
  BY <1>1, FibAssumption DEF FibTypeOK, FibInit, Timer
<1>3. DOMAIN <<>> = {}
  OBVIOUS
<1>4. \A n \in Nodes : DOMAIN fib[n] = {}
  BY <1>1, <1>3
<1> QED
  BY <1>1, <1>2, <1>4
  DEF FibInv, FibLongerFirst, FibChecked, FibCheckIsNear, FibCheckedInTime
-----------------------------------------------------------------------------
(* A step takes no binding of a prefix to a face away, and changes none.    *)
FibExtends == \A n \in Nodes : IsPrefix(FibBindings(fib[n]), FibBindings(fib'[n]))

(* Tables compared by their bindings, position by position.                 *)
LEMMA BindingsExtend ==
    ASSUME NEW v \in Seq(FibEntry), NEW q \in Seq(FibEntry), Len(v) <= Len(q),
           \A i \in DOMAIN v : v[i].prefix = q[i].prefix /\ v[i].face = q[i].face
    PROVE  IsPrefix(FibBindings(v), FibBindings(q))
<1> DEFINE B == Seq(Tokens) \X Faces
<1>1. ASSUME NEW s \in Seq(FibEntry)
      PROVE  /\ FibBindings(s) \in Seq(B)
             /\ Len(FibBindings(s)) = Len(s)
             /\ \A i \in 1..Len(s) : FibBindings(s)[i] = <<s[i].prefix, s[i].face>>
  <2>1. DOMAIN s = 1..Len(s) /\ Len(s) \in Nat
    BY LenProperties
  <2>2. \A i \in 1..Len(s) : <<s[i].prefix, s[i].face>> \in B
    <3>1. \A i \in 1..Len(s) : s[i] \in FibEntry
      BY ElementOfSeq
    <3> QED BY <3>1 DEF FibEntry
  <2>3. FibBindings(s) = [i \in 1..Len(s) |-> <<s[i].prefix, s[i].face>>]
    BY <2>1 DEF FibBindings
  <2>4. FibBindings(s) \in [1..Len(s) -> B]
    BY <2>2, <2>3
  <2> HIDE DEF B
  <2>5. FibBindings(s) \in Seq(B)
    BY <2>1, <2>4, SeqDef
  <2>6. Len(FibBindings(s)) \in Nat
        /\ DOMAIN FibBindings(s) = 1..Len(FibBindings(s))
    BY <2>5, LenProperties
  <2>7. DOMAIN FibBindings(s) = 1..Len(s)
    BY <2>3
  <2>8. Len(FibBindings(s)) = Len(s)
    <3>1. \A a, b \in Nat : 1..a = 1..b => a = b
      OBVIOUS
    <3> QED BY <2>1, <2>6, <2>7, <3>1
  <2> QED BY <2>3, <2>5, <2>8
<1> HIDE DEF B
<1>2. DOMAIN v = 1..Len(v) /\ Len(v) \in Nat /\ Len(q) \in Nat
  BY LenProperties
<1>3. ASSUME NEW i \in 1..Len(v)
      PROVE  FibBindings(v)[i] = FibBindings(q)[i]
  <2>1. i \in 1..Len(q) /\ i \in DOMAIN v
    BY <1>2
  <2>2. /\ FibBindings(v)[i] = <<v[i].prefix, v[i].face>>
        /\ FibBindings(q)[i] = <<q[i].prefix, q[i].face>>
    BY <1>1, <2>1
  <2>3. v[i].prefix = q[i].prefix /\ v[i].face = q[i].face
    BY <2>1
  <2> QED BY <2>2, <2>3
<1> QED BY <1>1, <1>3, PrefixPointwise

(* A step that gives one host a new table and a new timer keeps the         *)
(* invariant if they satisfy it, and the bindings if the table has them.    *)
LEMMA FibHostStep ==
    ASSUME FibInv, NEW n \in Nodes, NEW q \in Seq(FibEntry), NEW t \in Timer,
           now' = now,
           fib' = [fib EXCEPT ![n] = q],
           fibTimer' = [fibTimer EXCEPT ![n] = t],
           Len(q) <= FibMaxSize[n],
           Len(fib[n]) <= Len(q),
           \A i \in DOMAIN fib[n] : /\ fib[n][i].prefix = q[i].prefix
                                    /\ fib[n][i].face = q[i].face,
           \A i, j \in DOMAIN q : i < j => ~ IsPrefix(q[i].prefix, q[j].prefix),
           \A i \in DOMAIN q : q[i].face \in LowerFaces => t # NotScheduled,
           t # NotScheduled => t \in now..(now + CheckPeriod),
           \A i \in DOMAIN q : q[i].face \in LowerFaces /\ ~ q[i].erased =>
                                  t <= q[i].expireAt + CheckPeriod
    PROVE  FibInv' /\ FibExtends
<1>1. /\ fib \in [Nodes -> Seq(FibEntry)]
      /\ fibTimer \in [Nodes -> Timer]
      /\ now \in Nat
  BY DEF FibInv, FibTypeOK
<1>2. \A m \in Nodes : /\ fib'[m] = IF m = n THEN q ELSE fib[m]
                       /\ fibTimer'[m] = IF m = n THEN t ELSE fibTimer[m]
  BY <1>1
<1>3. FibTypeOK'
  BY <1>1, <1>2 DEF FibInv, FibTypeOK
<1>4. FibLongerFirst'
  BY <1>2 DEF FibInv, FibLongerFirst
<1>5. FibChecked' /\ FibCheckIsNear' /\ FibCheckedInTime'
  BY <1>2 DEF FibInv, FibChecked, FibCheckIsNear, FibCheckedInTime
<1>6. FibExtends
  <2> SUFFICES ASSUME NEW m \in Nodes
               PROVE  IsPrefix(FibBindings(fib[m]), FibBindings(fib'[m]))
    BY DEF FibExtends
  <2>1. fib[m] \in Seq(FibEntry) /\ fib'[m] \in Seq(FibEntry)
    BY <1>1, <1>2
  <2>2. Len(fib[m]) \in Nat /\ Len(fib[m]) <= Len(fib'[m])
    BY <1>2, <2>1, LenProperties
  <2>3. \A i \in DOMAIN fib[m] : /\ fib[m][i].prefix = fib'[m][i].prefix
                                 /\ fib[m][i].face = fib'[m][i].face
    BY <1>2
  <2> QED BY <2>1, <2>2, <2>3, BindingsExtend
<1> QED BY <1>3, <1>4, <1>5, <1>6 DEF FibInv

(* registerPrefix() and create() append an entry only for a name that       *)
(* nothing in the table matches.                                            *)
LEMMA FibAppendKeepsInv ==
    ASSUME FibInv, NEW n \in Nodes, NEW name \in Seq(Tokens),
           NEW e \in FibEntry, NEW t \in Timer,
           now' = now,
           FibMatch(n, name) = 0, ~ FibFull(n), IsPrefix(e.prefix, name),
           fib' = [fib EXCEPT ![n] = Append(@, e)],
           fibTimer' = [fibTimer EXCEPT ![n] = t],
           t = fibTimer[n] \/ t = ArmIfIdle(fibTimer[n]),
           e.face \in LowerFaces =>
              t = ArmIfIdle(fibTimer[n]) /\ now <= e.expireAt
    PROVE  FibInv' /\ FibExtends
<1> DEFINE q == Append(fib[n], e)
<1>1. /\ fib[n] \in Seq(FibEntry) /\ fibTimer[n] \in Timer /\ now \in Nat
      /\ DOMAIN fib[n] = 1..Len(fib[n]) /\ Len(fib[n]) \in Nat
      /\ Len(fib[n]) <= FibMaxSize[n] /\ FibMaxSize[n] \in Nat
      /\ \A i \in DOMAIN fib[n] : /\ fib[n][i] \in FibEntry
                                   /\ fib[n][i].prefix \in Seq(Tokens)
                                   /\ fib[n][i].expireAt \in Nat
      /\ CheckPeriod \in Nat \ {0}
  BY FibHost
<1>2. e.prefix \in Seq(Tokens) /\ e.expireAt \in Nat
  BY DEF FibEntry
<1>3. /\ q \in Seq(FibEntry)
      /\ Len(q) = Len(fib[n]) + 1
      /\ DOMAIN q = DOMAIN fib[n] \cup {Len(fib[n]) + 1}
      /\ q[Len(fib[n]) + 1] = e
      /\ \A i \in DOMAIN fib[n] : q[i] = fib[n][i]
  BY <1>1, PushBack
<1> HIDE DEF q
<1>4. Len(q) <= FibMaxSize[n]
  BY <1>1, <1>3 DEF FibFull
<1>5. \A i, j \in DOMAIN q : i < j => ~ IsPrefix(q[i].prefix, q[j].prefix)
  <2>1. SUFFICES ASSUME NEW i \in DOMAIN q, NEW j \in DOMAIN q, i < j,
                        IsPrefix(q[i].prefix, q[j].prefix)
                 PROVE  FALSE
    OBVIOUS
  <2>2. i \in DOMAIN fib[n] /\ q[i] = fib[n][i]
    BY <1>1, <1>3, <2>1
  <2>3. CASE j \in DOMAIN fib[n]
    BY <1>3, <2>1, <2>2, <2>3 DEF FibInv, FibLongerFirst
  <2>4. CASE j = Len(fib[n]) + 1
    <3>1. IsPrefix(fib[n][i].prefix, e.prefix)
      BY <1>3, <2>1, <2>2, <2>4
    <3>2. IsPrefix(fib[n][i].prefix, name)
      BY <1>1, <1>2, <2>2, <3>1, PrefixTransitive
    <3> QED BY <1>1, <2>2, <3>2, FibMatchFindsFirst
  <2> QED BY <1>3, <2>3, <2>4
<1>6. fibTimer[n] # NotScheduled => fibTimer[n] \in now..(now + CheckPeriod)
  BY DEF FibInv, FibCheckIsNear
<1>7. ArmIfIdle(fibTimer[n]) \in now..(now + CheckPeriod)
      /\ ArmIfIdle(fibTimer[n]) # NotScheduled
  BY <1>1, <1>6 DEF ArmIfIdle, NotScheduled, Timer
<1>8. t # NotScheduled => t \in now..(now + CheckPeriod)
  BY <1>6, <1>7
<1>9. ASSUME NEW i \in DOMAIN fib[n], fib[n][i].face \in LowerFaces
      PROVE  t # NotScheduled /\ t = fibTimer[n]
  BY <1>9 DEF FibInv, FibChecked, ArmIfIdle
<1>10. \A i \in DOMAIN q : q[i].face \in LowerFaces => t # NotScheduled
  BY <1>3, <1>7, <1>9
<1>11. \A i \in DOMAIN q : q[i].face \in LowerFaces /\ ~ q[i].erased =>
                              t <= q[i].expireAt + CheckPeriod
  <2>1. e.face \in LowerFaces => t <= e.expireAt + CheckPeriod
    BY <1>1, <1>2, <1>7
  <2>2. ASSUME NEW i \in DOMAIN fib[n], fib[n][i].face \in LowerFaces,
               ~ fib[n][i].erased
        PROVE  t <= fib[n][i].expireAt + CheckPeriod
    BY <1>9, <2>2 DEF FibInv, FibCheckedInTime
  <2> QED BY <1>3, <2>1, <2>2
<1>12. fib' = [fib EXCEPT ![n] = q]
  BY DEF q
<1>13. Len(fib[n]) <= Len(q)
  BY <1>1, <1>3
<1>14. \A i \in DOMAIN fib[n] : /\ fib[n][i].prefix = q[i].prefix
                                /\ fib[n][i].face = q[i].face
  BY <1>3
<1> QED BY <1>3, <1>4, <1>5, <1>8, <1>10, <1>11, <1>12, <1>13, <1>14, FibHostStep

(* registerPrefix(): the face is an application's, so nothing has to be     *)
(* checked in time.                                                         *)
LEMMA FibRegisterKeepsInv ==
    ASSUME FibInv, NEW n \in Nodes, NEW prefix \in Names,
           NEW face \in UpperFaces, NEW dest \in Macs, now' = now,
           FibRegister(n, prefix, face, dest)
    PROVE  FibInv' /\ FibExtends
<1> DEFINE e == [prefix |-> prefix, face |-> face, mac |-> dest,
                 expireAt |-> now + RegisterLifetime, erased |-> FALSE]
<1>1. prefix \in Seq(Tokens) /\ now \in Nat /\ RegisterLifetime \in Nat
      /\ fibTimer[n] \in Timer
  BY NamesAssumption, FibAssumption, FibHost
<1>2. e \in FibEntry /\ e.face \notin LowerFaces /\ e.prefix = prefix
  BY <1>1, FacesAssumption DEF FibEntry, Faces
<1>3. IsPrefix(prefix, prefix)
  BY <1>1, PrefixPointwise, LenProperties
<1>4. fib' = [fib EXCEPT ![n] = Append(@, e)]
  BY DEF FibRegister
<1>5. fibTimer' = [fibTimer EXCEPT ![n] = fibTimer[n]]
  BY DEF FibRegister, FibInv, FibTypeOK
<1>6. FibMatch(n, prefix) = 0 /\ ~ FibFull(n)
  BY DEF FibRegister
<1> HIDE DEF e
<1> QED BY <1>1, <1>2, <1>3, <1>4, <1>5, <1>6, FibAppendKeepsInv

(* create() of a new route: the check that it starts comes in time for it.  *)
LEMMA FibInsertKeepsInv ==
    ASSUME FibInv, NEW n \in Nodes, NEW d \in DataPackets,
           NEW face \in LowerFaces, NEW dest \in Macs, now' = now,
           FibInsert(n, d.name, d.prefixLength, face, dest)
    PROVE  FibInv' /\ FibExtends
<1> DEFINE e == [prefix |-> SubSeq(d.name, 1, d.prefixLength), face |-> face,
                 mac |-> dest, expireAt |-> now + EntryLifetime,
                 erased |-> FALSE]
           t == ArmIfIdle(fibTimer[n])
<1>1. now \in Nat /\ EntryLifetime \in Nat /\ fibTimer[n] \in Timer
      /\ CheckPeriod \in Nat
  BY FibAssumption, FibHost
<1>2. d.name \in Seq(Tokens) /\ d.prefixLength \in 0..Len(d.name)
  BY PacketsAssumption, NamesAssumption, LenProperties
<1>3. SubSeq(d.name, 1, d.prefixLength) \in Seq(Tokens)
      /\ IsPrefix(SubSeq(d.name, 1, d.prefixLength), d.name)
  BY <1>2, FirstTokens
<1>4. /\ e \in FibEntry
      /\ e.prefix = SubSeq(d.name, 1, d.prefixLength)
      /\ now <= e.expireAt
  BY <1>1, <1>3 DEF FibEntry, Faces
<1>5. t \in Timer
  BY <1>1 DEF ArmIfIdle, Timer
<1>6. fib' = [fib EXCEPT ![n] = Append(@, e)]
  BY DEF FibInsert
<1>7. fibTimer' = [fibTimer EXCEPT ![n] = t]
  BY DEF FibInsert, FibArm
<1>8. FibMatch(n, d.name) = 0 /\ ~ FibFull(n)
  BY DEF FibInsert
<1> HIDE DEF e, t
<1>9. t = ArmIfIdle(fibTimer[n])
  BY DEF t
<1> QED BY <1>2, <1>3, <1>4, <1>5, <1>6, <1>7, <1>8, <1>9, FibAppendKeepsInv

(* create() on a match: the entry only gets younger, and a learned route    *)
(* already is going to be checked.                                          *)
LEMMA FibUpdateKeepsInv ==
    ASSUME FibInv, NEW n \in Nodes, NEW name, NEW dest \in Macs, now' = now,
           FibUpdate(n, name, dest)
    PROVE  FibInv' /\ FibExtends
<1> DEFINE p == FibMatch(n, name)
           e == [fib[n][p] EXCEPT !.mac = dest, !.erased = FALSE,
                                  !.expireAt = now + EntryLifetime]
           q == [fib[n] EXCEPT ![p] = e]
           t == fibTimer[n]
<1>1. /\ fib[n] \in Seq(FibEntry) /\ t \in Timer /\ now \in Nat
      /\ DOMAIN fib[n] = 1..Len(fib[n]) /\ Len(fib[n]) \in Nat
      /\ Len(fib[n]) <= FibMaxSize[n] /\ FibMaxSize[n] \in Nat
      /\ \A i \in DOMAIN fib[n] : fib[n][i] \in FibEntry
      /\ CheckPeriod \in Nat \ {0} /\ EntryLifetime \in Nat
  BY FibHost, FibAssumption
<1>2. p \in DOMAIN fib[n]
  BY <1>1, FibMatchFindsFirst DEF FibUpdate
<1>3. /\ e \in FibEntry
      /\ e.prefix = fib[n][p].prefix /\ e.face = fib[n][p].face
      /\ e.expireAt = now + EntryLifetime
  <2>1. now + EntryLifetime \in Nat
    BY <1>1
  <2>2. \A r \in FibEntry, k \in Nat :
           LET u == [r EXCEPT !.mac = dest, !.erased = FALSE, !.expireAt = k] IN
           /\ u \in FibEntry
           /\ u.prefix = r.prefix /\ u.face = r.face /\ u.expireAt = k
    BY DEF FibEntry
  <2>3. fib[n][p] \in FibEntry
    BY <1>1, <1>2
  <2> QED BY <2>1, <2>2, <2>3
<1>4. fib' = [fib EXCEPT ![n] = q]
  BY <1>1, <1>2 DEF FibUpdate, FibInv, FibTypeOK
<1>5. fibTimer' = [fibTimer EXCEPT ![n] = t]
  BY DEF FibUpdate, FibInv, FibTypeOK
<1>6. /\ q \in Seq(FibEntry)
      /\ Len(q) = Len(fib[n])
      /\ \A i \in 1..Len(fib[n]) : q[i] = IF i = p THEN e ELSE fib[n][i]
  BY <1>1, <1>2, <1>3, ExceptSeq
<1>7. DOMAIN q = DOMAIN fib[n]
  OBVIOUS
<1>8. \A i \in DOMAIN q : /\ q[i].prefix = fib[n][i].prefix
                          /\ q[i].face = fib[n][i].face
  BY <1>1, <1>3, <1>6, <1>7
<1>9. \A i \in DOMAIN q : q[i].face \in LowerFaces => t # NotScheduled
  BY <1>7, <1>8 DEF FibInv, FibChecked
<1>10. t # NotScheduled => t \in now..(now + CheckPeriod)
  BY DEF FibInv, FibCheckIsNear
<1>11. \A i, j \in DOMAIN q : i < j => ~ IsPrefix(q[i].prefix, q[j].prefix)
  BY <1>7, <1>8 DEF FibInv, FibLongerFirst
<1>12. ASSUME NEW i \in DOMAIN q, q[i].face \in LowerFaces, ~ q[i].erased
       PROVE  t <= q[i].expireAt + CheckPeriod
  <2>1. CASE i = p
    <3>1. q[i].expireAt = now + EntryLifetime
      BY <1>1, <1>2, <1>3, <1>6, <2>1
    <3>2. t <= now + CheckPeriod
      BY <1>9, <1>10, <1>12, <1>1
    <3>3. t \in Int
      BY <1>1 DEF Timer, NotScheduled
    <3> HIDE DEF q, t
    <3> QED BY <1>1, <3>1, <3>2, <3>3
  <2>2. CASE i # p
    <3>1. q[i] = fib[n][i] /\ i \in DOMAIN fib[n]
      BY <1>1, <1>6, <1>7, <2>2
    <3> QED BY <1>12, <3>1 DEF FibInv, FibCheckedInTime
  <2> QED BY <2>1, <2>2
<1>13. Len(q) <= FibMaxSize[n] /\ Len(fib[n]) <= Len(q)
  BY <1>1, <1>6
<1>14. \A i \in DOMAIN fib[n] : /\ fib[n][i].prefix = q[i].prefix
                                /\ fib[n][i].face = q[i].face
  BY <1>7, <1>8
<1> HIDE DEF p, e, q, t
<1> QED BY <1>1, <1>4, <1>5, <1>6, <1>9, <1>10, <1>11, <1>12, <1>13, <1>14,
           FibHostStep

(* The periodic check: what is left unmarked has not expired, so the next   *)
(* check, one period on, is early enough for it.                            *)
LEMMA FibCheckKeepsInv ==
    ASSUME FibInv, NEW n \in Nodes, now' = now, FibCheckExpired(n)
    PROVE  FibInv' /\ FibExtends
<1> DEFINE q == FibAfterCheck(n)
           t == NextCheck(fib[n])
<1>1. /\ fib[n] \in Seq(FibEntry) /\ fibTimer[n] \in Timer /\ now \in Nat
      /\ DOMAIN fib[n] = 1..Len(fib[n]) /\ Len(fib[n]) \in Nat
      /\ Len(fib[n]) <= FibMaxSize[n] /\ FibMaxSize[n] \in Nat
      /\ \A i \in DOMAIN fib[n] : fib[n][i] \in FibEntry
      /\ CheckPeriod \in Nat \ {0}
  BY FibHost
<1>2. \A r \in FibEntry, b \in BOOLEAN :
         LET u == [r EXCEPT !.erased = b] IN
         /\ u \in FibEntry /\ u.erased = b
         /\ u.prefix = r.prefix /\ u.face = r.face /\ u.expireAt = r.expireAt
  BY DEF FibEntry
<1>3. \A i \in DOMAIN fib[n] :
         /\ q[i] \in FibEntry
         /\ q[i].prefix = fib[n][i].prefix /\ q[i].face = fib[n][i].face
         /\ q[i].expireAt = fib[n][i].expireAt
         /\ fib[n][i].expireAt <= now => q[i].erased
  <2> TAKE i \in DOMAIN fib[n]
  <2> DEFINE b == fib[n][i].erased \/ fib[n][i].expireAt <= now
  <2>1. fib[n][i] \in FibEntry /\ b \in BOOLEAN
    BY <1>1
  <2>2. q[i] = [fib[n][i] EXCEPT !.erased = b]
    BY <2>1 DEF FibAfterCheck, FibEntry
  <2>3. fib[n][i].expireAt <= now => b
    OBVIOUS
  <2> HIDE DEF b, q
  <2> QED BY <1>2, <2>1, <2>2, <2>3
<1>4. q = [i \in 1..Len(fib[n]) |-> q[i]] /\ DOMAIN q = DOMAIN fib[n]
  BY <1>1 DEF FibAfterCheck
<1>5. fib' = [fib EXCEPT ![n] = q] /\ fibTimer' = [fibTimer EXCEPT ![n] = t]
  BY DEF FibCheckExpired
<1> HIDE DEF q
<1>6. q \in [1..Len(fib[n]) -> FibEntry]
  BY <1>1, <1>3, <1>4
<1>7. q \in Seq(FibEntry)
  BY <1>1, <1>6, SeqDef
<1>8. Len(q) = Len(fib[n])
  BY <1>1, <1>4, <1>7, LenProperties
<1>9. /\ t \in Timer
      /\ fib[n] # <<>> => t # NotScheduled
      /\ t # NotScheduled => t \in now..(now + CheckPeriod)
      /\ t <= now + CheckPeriod
  BY <1>1 DEF NextCheck, NotScheduled, Timer
<1>10. \A i \in DOMAIN q : q[i].face \in LowerFaces => t # NotScheduled
  BY <1>1, <1>4, <1>9
<1>11. \A i, j \in DOMAIN q : i < j => ~ IsPrefix(q[i].prefix, q[j].prefix)
  BY <1>3, <1>4 DEF FibInv, FibLongerFirst
<1>12. \A i \in DOMAIN q : q[i].face \in LowerFaces /\ ~ q[i].erased =>
                              t <= q[i].expireAt + CheckPeriod
  <2> SUFFICES ASSUME NEW i \in DOMAIN q, ~ q[i].erased
               PROVE  t <= q[i].expireAt + CheckPeriod
    OBVIOUS
  <2>1. q[i].expireAt \in Nat
    BY <1>3, <1>4 DEF FibEntry
  <2>2. q[i].expireAt > now
    <3>1. ~ (q[i].expireAt <= now)
      <4>1. i \in DOMAIN fib[n]
        BY <1>4
      <4>2. fib[n][i].expireAt = q[i].expireAt
        BY <1>3, <4>1
      <4> QED BY <1>3, <4>1, <4>2, Zenon
    <3> QED BY <1>1, <2>1, <3>1
  <2>3. t \in Int
    BY <1>9 DEF Timer, NotScheduled
  <2> HIDE DEF t
  <2> QED BY <1>1, <1>9, <2>1, <2>2, <2>3
<1>13. Len(q) <= FibMaxSize[n] /\ Len(fib[n]) <= Len(q)
  BY <1>1, <1>8
<1> HIDE DEF t
<1>14. \A i \in DOMAIN fib[n] : /\ fib[n][i].prefix = q[i].prefix
                                /\ fib[n][i].face = q[i].face
  BY <1>3
<1> QED BY <1>5, <1>7, <1>9, <1>10, <1>11, <1>12, <1>13, <1>14, FibHostStep

(* Time passes only up to the next check, and steps that touch no table     *)
(* keep the bindings.                                                       *)
LEMMA FibIdleKeepsInv ==
    ASSUME FibInv, UNCHANGED fibVars,
           now' = now \/ FibTick
    PROVE  FibInv' /\ FibExtends
<1>1. fib' = fib /\ fibTimer' = fibTimer /\ now \in Nat /\ CheckPeriod \in Nat
  BY SimTimeAssumption DEF fibVars, FibInv, FibTypeOK
<1>2. \A n \in Nodes : fibTimer[n] \in Timer /\ fib[n] \in Seq(FibEntry)
  BY DEF FibInv, FibTypeOK
<1>3. now' \in Nat
  BY <1>1 DEF FibTick, Tick
<1>4. FibTypeOK' /\ FibLongerFirst' /\ FibChecked' /\ FibCheckedInTime'
  BY <1>1, <1>3 DEF FibInv, FibTypeOK, FibLongerFirst, FibChecked, FibCheckedInTime
<1>5. FibCheckIsNear'
  <2>1. CASE now' = now
    BY <1>1, <2>1 DEF FibInv, FibCheckIsNear
  <2>2. CASE FibTick
    <3>1. /\ now' = now + 1
          /\ \A n \in Nodes : fibTimer[n] # NotScheduled => fibTimer[n] > now
      BY <2>2 DEF FibTick, Tick
    <3> QED BY <1>1, <1>2, <3>1 DEF FibInv, FibCheckIsNear, Timer, NotScheduled
  <2> QED BY <2>1, <2>2
<1>6. FibExtends
  <2> SUFFICES ASSUME NEW n \in Nodes
               PROVE  IsPrefix(FibBindings(fib[n]), FibBindings(fib[n]))
    BY <1>1 DEF FibExtends
  <2>1. Len(fib[n]) <= Len(fib[n])
    BY <1>2, LenProperties
  <2> QED BY <1>2, <2>1, BindingsExtend
<1> QED BY <1>4, <1>5, <1>6 DEF FibInv

LEMMA FibNextKeepsInv ==
    FibInv /\ [FibNext]_<<now, fibVars>> => FibInv' /\ FibExtends
<1> SUFFICES ASSUME FibInv, [FibNext]_<<now, fibVars>>
             PROVE  FibInv' /\ FibExtends
  OBVIOUS
<1>1. CASE UNCHANGED <<now, fibVars>>
  BY <1>1, FibIdleKeepsInv
<1>2. ASSUME NEW n \in Nodes, FibRegisterCall(n) PROVE FibInv' /\ FibExtends
  <2>1. PICK prefix \in Names, face \in UpperFaces, dest \in Macs :
           FibRegister(n, prefix, face, dest) \/ FibRegisterRefused(n, prefix)
    BY <1>2 DEF FibRegisterCall
  <2>2. now' = now
    BY <1>2 DEF FibRegisterCall
  <2> QED BY <1>1, <2>1, <2>2, FibRegisterKeepsInv DEF FibRegisterRefused
<1>3. ASSUME NEW n \in Nodes, FibCreateCall(n) PROVE FibInv' /\ FibExtends
  <2>1. PICK d \in DataPackets, face \in LowerFaces, dest \in Macs :
           FibCreate(n, d.name, d.prefixLength, face, dest)
    BY <1>3 DEF FibCreateCall
  <2>2. now' = now
    BY <1>3 DEF FibCreateCall
  <2>3. CASE FibUpdate(n, d.name, dest)
    BY <2>2, <2>3, FibUpdateKeepsInv
  <2>4. CASE FibInsert(n, d.name, d.prefixLength, face, dest)
    BY <2>2, <2>4, FibInsertKeepsInv
  <2>5. CASE FibInsertRefused(n, d.name)
    BY <1>1, <2>2, <2>5 DEF FibInsertRefused
  <2> QED BY <2>1, <2>3, <2>4, <2>5 DEF FibCreate
<1>4. ASSUME NEW n \in Nodes, FibTimerFires(n) PROVE FibInv' /\ FibExtends
  BY <1>4, FibCheckKeepsInv DEF FibTimerFires
<1>5. CASE FibTick
  BY <1>5, FibIdleKeepsInv DEF FibTick
<1>6. CASE FibEnd
  BY <1>1, <1>6 DEF FibEnd
<1> QED BY <1>1, <1>2, <1>3, <1>4, <1>5, <1>6 DEF FibNext

(* The table never leaves its type and never holds more than maxSize        *)
(* entries, in every order of registerPrefix(), create() and checks.        *)
THEOREM FibTypeCorrect == FibSpec => []FibTypeOK
<1>1. FibInv => FibTypeOK
  BY DEF FibInv
<1> QED BY FibInitInv, FibNextKeepsInv, <1>1, PTL DEF FibSpec

(* match() returns the entry of the longest prefix, although it stops at    *)
(* the first: for any names, table size and order of calls.                 *)
THEOREM FibFindsLongestPrefix == FibSpec => []FibFirstMatchIsLongest
  BY FibInitInv, FibNextKeepsInv, FibInvImpliesLongest, PTL DEF FibSpec

(* A learned route is marked erased at most one check period after it       *)
(* expired, although create() on a match does not start the check.          *)
THEOREM FibRouteExpiresInTime == FibSpec => []FibNoOverdueRoute
  BY FibInitInv, FibNextKeepsInv, FibInvImpliesNoOverdue, PTL DEF FibSpec

(* No call and no check ever moves a prefix to another face or frees its    *)
(* place in the vector.                                                     *)
THEOREM FibNeverForgets == FibSpec => FibBindingsArePermanent
<1>1. FibExtends => [\A n \in Nodes :
                       IsPrefix(FibBindings(fib[n]), FibBindings(fib'[n]))]_fib
  BY DEF FibExtends
<1> QED
  BY FibInitInv, FibNextKeepsInv, <1>1, PTL DEF FibSpec, FibBindingsArePermanent
-----------------------------------------------------------------------------
(* The Content Store.                                                      *)

(* What the searches in lookup() and add() find: the first entry of the     *)
(* name, or 0 if there is none.                                             *)
LEMMA CsPositionFindsFirst ==
    ASSUME NEW T, NEW n \in Nodes, cs[n] \in Seq(T), NEW name
    PROVE  LET p == CsPosition(n, name) IN
           /\ p \in {0} \cup DOMAIN cs[n]
           /\ p # 0 => cs[n][p].data.name = name
           /\ \A i \in DOMAIN cs[n] :
                 cs[n][i].data.name = name => p # 0 /\ p <= i
<1> DEFINE I == {i \in 1..Len(cs[n]) : cs[n][i].data.name = name}
<1>1. DOMAIN cs[n] = 1..Len(cs[n]) /\ Len(cs[n]) \in Nat
  BY LenProperties
<1>2. CsPosition(n, name) = IF I # {} THEN Min(I) ELSE 0
  BY DEF CsPosition, SelectInSeq
<1>3. I \in SUBSET Nat
  BY <1>1
<1>4. CASE I = {}
  BY <1>1, <1>2, <1>4
<1>5. CASE I # {}
  <2>1. Min(I) \in I /\ \A i \in I : Min(I) <= i
    BY <1>3, <1>5, MinIsLeast
  <2> HIDE DEF I
  <2>2. Min(I) \in 1..Len(cs[n]) /\ cs[n][Min(I)].data.name = name
    BY <2>1 DEF I
  <2>3. \A i \in 1..Len(cs[n]) : cs[n][i].data.name = name => Min(I) <= i
    BY <2>1 DEF I
  <2> QED BY <1>1, <1>2, <1>5, <2>2, <2>3
<1> QED BY <1>4, <1>5
-----------------------------------------------------------------------------
(* The inductive invariant.  Besides the properties of names and freshness  *)
(* it says that a store with entries is going to be checked, at most one    *)
(* period from now, and in time for everything that counts as fresh.        *)

CsFreshHasDate ==
    \A n \in Nodes : \A i \in DOMAIN cs[n] : cs[n][i].fresh => cs[n][i].staleAt > 0

CsChecked == \A n \in Nodes : cs[n] # <<>> => csTimer[n] # NotScheduled

CsCheckIsNear ==
    \A n \in Nodes : csTimer[n] # NotScheduled =>
        csTimer[n] \in now..(now + CheckPeriod)

CsCheckedInTime ==
    \A n \in Nodes : \A i \in DOMAIN cs[n] :
        cs[n][i].fresh => csTimer[n] <= cs[n][i].staleAt + CheckPeriod

CsInv == /\ CsTypeOK
         /\ CsNamesUnique
         /\ CsNotStaleEarly
         /\ CsFreshHasDate
         /\ CsChecked
         /\ CsCheckIsNear
         /\ CsCheckedInTime

(* The facts about one host that every proof of a step starts from.         *)
LEMMA CsHost ==
    ASSUME CsInv, NEW n \in Nodes
    PROVE  /\ cs[n] \in Seq(CsEntry) /\ csTimer[n] \in Timer /\ now \in Nat
           /\ DOMAIN cs[n] = 1..Len(cs[n]) /\ Len(cs[n]) \in Nat
           /\ Len(cs[n]) <= CsMaxSize[n] /\ CsMaxSize[n] \in Nat
           /\ \A i \in DOMAIN cs[n] :
                 cs[n][i] \in CsEntry /\ cs[n][i].staleAt \in Nat
           /\ CheckPeriod \in Nat \ {0}
<1>1. /\ cs[n] \in Seq(CsEntry) /\ csTimer[n] \in Timer /\ now \in Nat
      /\ Len(cs[n]) <= CsMaxSize[n]
  BY DEF CsInv, CsTypeOK
<1>2. \A i \in DOMAIN cs[n] : cs[n][i] \in CsEntry
  BY <1>1, LenProperties, ElementOfSeq
<1> QED BY <1>1, <1>2, LenProperties, CsAssumption, SimTimeAssumption DEF CsEntry

(* The clock has not passed the check, for which nothing fresh has to wait  *)
(* too long.                                                                *)
LEMMA CsInvImpliesBounded == CsInv => CsFreshnessBounded
<1> SUFFICES ASSUME CsInv, NEW n \in Nodes, NEW i \in DOMAIN cs[n], cs[n][i].fresh
             PROVE  now <= cs[n][i].staleAt + CheckPeriod
  BY DEF CsFreshnessBounded
<1>1. /\ now \in Nat /\ CheckPeriod \in Nat /\ cs[n][i].staleAt \in Nat
      /\ csTimer[n] \in Timer
  BY CsHost
<1>2. cs[n] # <<>>
  OBVIOUS
<1>3. now <= csTimer[n] /\ csTimer[n] \in Int
  BY <1>1, <1>2 DEF CsInv, CsChecked, CsCheckIsNear
<1>4. csTimer[n] <= cs[n][i].staleAt + CheckPeriod
  BY DEF CsInv, CsCheckedInTime
<1> QED BY <1>1, <1>3, <1>4

LEMMA CsInitInv == CsInit => CsInv
<1> SUFFICES ASSUME CsInit PROVE CsInv
  OBVIOUS
<1>1. \A n \in Nodes : cs[n] = <<>> /\ csTimer[n] = NotScheduled
  BY DEF CsInit
<1>2. CsTypeOK
  BY <1>1, CsAssumption DEF CsTypeOK, CsInit, Timer
<1>3. DOMAIN <<>> = {}
  OBVIOUS
<1>4. \A n \in Nodes : DOMAIN cs[n] = {}
  BY <1>1, <1>3
<1> QED
  BY <1>1, <1>2, <1>4
  DEF CsInv, CsNamesUnique, CsNotStaleEarly, CsFreshHasDate, CsChecked,
      CsCheckIsNear, CsCheckedInTime
-----------------------------------------------------------------------------
(* A step that gives one host a new store and a new timer keeps the         *)
(* invariant if they satisfy it.                                            *)
LEMMA CsHostStep ==
    ASSUME CsInv, NEW n \in Nodes, NEW q \in Seq(CsEntry), NEW t \in Timer,
           now' = now,
           cs' = [cs EXCEPT ![n] = q],
           csTimer' = [csTimer EXCEPT ![n] = t],
           Len(q) <= CsMaxSize[n],
           \A i, j \in DOMAIN q : q[i].data.name = q[j].data.name => i = j,
           \A i \in DOMAIN q : ~ q[i].fresh => q[i].staleAt <= now,
           \A i \in DOMAIN q : q[i].fresh => q[i].staleAt > 0,
           q # <<>> => t # NotScheduled,
           t # NotScheduled => t \in now..(now + CheckPeriod),
           \A i \in DOMAIN q : q[i].fresh => t <= q[i].staleAt + CheckPeriod
    PROVE  CsInv'
<1>1. /\ cs \in [Nodes -> Seq(CsEntry)]
      /\ csTimer \in [Nodes -> Timer]
      /\ now \in Nat
  BY DEF CsInv, CsTypeOK
<1>2. \A m \in Nodes : /\ cs'[m] = IF m = n THEN q ELSE cs[m]
                       /\ csTimer'[m] = IF m = n THEN t ELSE csTimer[m]
  BY <1>1
<1>3. CsTypeOK'
  BY <1>1, <1>2 DEF CsInv, CsTypeOK
<1>4. CsNamesUnique'
  BY <1>2 DEF CsInv, CsNamesUnique
<1>5. CsNotStaleEarly' /\ CsFreshHasDate'
  BY <1>2 DEF CsInv, CsNotStaleEarly, CsFreshHasDate
<1>6. CsChecked' /\ CsCheckIsNear' /\ CsCheckedInTime'
  BY <1>2 DEF CsInv, CsChecked, CsCheckIsNear, CsCheckedInTime
<1> QED BY <1>3, <1>4, <1>5, <1>6 DEF CsInv

(* A timer after add(): armed, at most one period away, and not later than   *)
(* it was.                                                                   *)
LEMMA CsArmed ==
    ASSUME CsInv, NEW n \in Nodes
    PROVE  LET t == ArmIfIdle(csTimer[n]) IN
           /\ t \in Timer /\ t # NotScheduled
           /\ t \in now..(now + CheckPeriod)
           /\ cs[n] # <<>> => t = csTimer[n]
<1>1. csTimer[n] \in Timer /\ now \in Nat /\ CheckPeriod \in Nat
  BY CsHost
<1>2. csTimer[n] # NotScheduled => csTimer[n] \in now..(now + CheckPeriod)
  BY DEF CsInv, CsCheckIsNear
<1>3. cs[n] # <<>> => csTimer[n] # NotScheduled
  BY DEF CsInv, CsChecked
<1> QED BY <1>1, <1>2, <1>3 DEF ArmIfIdle, NotScheduled, Timer

(* What is left of a full store is the store without its oldest entry.      *)
LEMMA CsRoomProperties ==
    ASSUME CsInv, NEW n \in Nodes, CsMaxSize[n] # 0
    PROVE  LET r == CsRoom(n)
               k == IF CsFull(n) THEN 1 ELSE 0
           IN /\ r \in Seq(CsEntry)
              /\ Len(r) = Len(cs[n]) - k
              /\ Len(r) < CsMaxSize[n]
              /\ DOMAIN r = 1..Len(r)
              /\ \A i \in DOMAIN r : i + k \in DOMAIN cs[n] /\ r[i] = cs[n][i + k]
<1>1. /\ cs[n] \in Seq(CsEntry)
      /\ DOMAIN cs[n] = 1..Len(cs[n]) /\ Len(cs[n]) \in Nat
      /\ Len(cs[n]) <= CsMaxSize[n] /\ CsMaxSize[n] \in Nat
  BY CsHost
<1>2. CASE CsFull(n)
  <2>1. cs[n] # <<>>
    BY <1>1, <1>2 DEF CsFull
  <2>2. /\ Tail(cs[n]) \in Seq(CsEntry)
        /\ Len(Tail(cs[n])) = Len(cs[n]) - 1
        /\ \A i \in 1..Len(Tail(cs[n])) : Tail(cs[n])[i] = cs[n][i + 1]
    BY <1>1, <2>1, HeadTailProperties
  <2>3. DOMAIN Tail(cs[n]) = 1..Len(Tail(cs[n]))
    BY <2>2, LenProperties
  <2> QED BY <1>1, <1>2, <2>2, <2>3 DEF CsRoom, CsFull
<1>3. CASE ~ CsFull(n)
  BY <1>1, <1>3 DEF CsRoom, CsFull
<1> QED BY <1>2, <1>3

(* The constructor of an entry, and add() on an entry that is there.        *)
LEMMA CsEntryFacts ==
    ASSUME now \in Nat, NEW d \in DataPackets
    PROVE  /\ d.freshness \in Nat
           /\ CsNewEntry(d) \in CsEntry /\ CsNewEntry(d).data = d
           /\ CsNewEntry(d).fresh => /\ d.freshness > 0
                                     /\ CsNewEntry(d).staleAt = now + d.freshness
           /\ ~ CsNewEntry(d).fresh => CsNewEntry(d).staleAt = 0
           /\ \A e \in CsEntry : d.freshness > 0 =>
                 /\ CsRenewed(e, d) \in CsEntry
                 /\ CsRenewed(e, d).data = e.data
                 /\ CsRenewed(e, d).fresh
                 /\ CsRenewed(e, d).staleAt = now + d.freshness
<1>1. d.freshness \in Nat
  BY PacketsAssumption
<1>2. now + d.freshness \in Nat
  BY <1>1
<1>3. ASSUME NEW b \in BOOLEAN, NEW k \in Nat
      PROVE  LET u == [data |-> d, fresh |-> b, staleAt |-> k] IN
             u \in CsEntry /\ u.data = d /\ u.fresh = b /\ u.staleAt = k
  BY DEF CsEntry
<1>4. /\ CsNewEntry(d) \in CsEntry /\ CsNewEntry(d).data = d
      /\ CsNewEntry(d).fresh = (d.freshness > 0)
      /\ CsNewEntry(d).staleAt = IF d.freshness > 0 THEN now + d.freshness ELSE 0
  <2> DEFINE b == d.freshness > 0
             k == IF d.freshness > 0 THEN now + d.freshness ELSE 0
  <2>1. b \in BOOLEAN /\ k \in Nat
    BY <1>2
  <2>2. CsNewEntry(d) = [data |-> d, fresh |-> b, staleAt |-> k]
    BY DEF CsNewEntry
  <2> HIDE DEF b, k
  <2>3. /\ CsNewEntry(d) \in CsEntry /\ CsNewEntry(d).data = d
        /\ CsNewEntry(d).fresh = b /\ CsNewEntry(d).staleAt = k
    BY <1>3, <2>1, <2>2
  <2> QED BY <2>3 DEF b, k
<1>5. ASSUME d.freshness > 0, NEW e \in CsEntry
      PROVE  /\ CsRenewed(e, d) \in CsEntry
             /\ CsRenewed(e, d).data = e.data
             /\ CsRenewed(e, d).fresh
             /\ CsRenewed(e, d).staleAt = now + d.freshness
  <2>1. ASSUME NEW k \in Nat
        PROVE  LET u == [e EXCEPT !.fresh = TRUE, !.staleAt = k] IN
               u \in CsEntry /\ u.data = e.data /\ u.fresh /\ u.staleAt = k
    BY DEF CsEntry
  <2>2. CsRenewed(e, d) = [e EXCEPT !.fresh = TRUE, !.staleAt = now + d.freshness]
    BY <1>1, <1>5 DEF CsRenewed
  <2> QED BY <1>2, <2>1, <2>2
<1>6. /\ CsNewEntry(d).fresh => /\ d.freshness > 0
                                /\ CsNewEntry(d).staleAt = now + d.freshness
      /\ ~ CsNewEntry(d).fresh => CsNewEntry(d).staleAt = 0
  BY <1>4
<1> QED BY <1>1, <1>4, <1>5, <1>6

(* add() of a new name, with the eviction it may need.                      *)
LEMMA CsInsertKeepsInv ==
    ASSUME CsInv, NEW n \in Nodes, NEW d \in DataPackets, now' = now,
           CsInsert(n, d)
    PROVE  CsInv'
<1> DEFINE r == CsRoom(n)
           k == IF CsFull(n) THEN 1 ELSE 0
           e == CsNewEntry(d)
           q == Append(r, e)
           t == ArmIfIdle(csTimer[n])
<1>1. /\ cs[n] \in Seq(CsEntry) /\ csTimer[n] \in Timer /\ now \in Nat
      /\ DOMAIN cs[n] = 1..Len(cs[n]) /\ Len(cs[n]) \in Nat
      /\ CsMaxSize[n] \in Nat /\ CheckPeriod \in Nat
      /\ \A i \in DOMAIN cs[n] : cs[n][i] \in CsEntry /\ cs[n][i].staleAt \in Nat
  BY CsHost
<1>2. /\ r \in Seq(CsEntry) /\ Len(r) < CsMaxSize[n] /\ DOMAIN r = 1..Len(r)
      /\ \A i \in DOMAIN r : i + k \in DOMAIN cs[n] /\ r[i] = cs[n][i + k]
  BY CsRoomProperties DEF CsInsert
<1>3. /\ d.freshness \in Nat
      /\ e \in CsEntry /\ e.data = d
      /\ e.fresh => d.freshness > 0 /\ e.staleAt = now + d.freshness
      /\ ~ e.fresh => e.staleAt = 0
  BY <1>1, CsEntryFacts
<1>4. /\ t \in Timer /\ t # NotScheduled
      /\ t \in now..(now + CheckPeriod)
      /\ cs[n] # <<>> => t = csTimer[n]
  BY CsArmed
<1>5. CsPosition(n, d.name) = 0
  BY DEF CsInsert
<1>6. cs' = [cs EXCEPT ![n] = q] /\ csTimer' = [csTimer EXCEPT ![n] = t]
  BY DEF CsInsert, CsArm
<1>k. k \in Nat
  OBVIOUS
<1> HIDE DEF r, e, t, k
<1>7. /\ q \in Seq(CsEntry)
      /\ Len(q) = Len(r) + 1
      /\ DOMAIN q = DOMAIN r \cup {Len(r) + 1}
      /\ q[Len(r) + 1] = e
      /\ \A i \in DOMAIN r : q[i] = r[i]
  BY <1>2, <1>3, PushBack
<1> HIDE DEF q
<1>8. Len(r) \in Nat /\ Len(q) <= CsMaxSize[n]
  BY <1>1, <1>2, <1>7, LenProperties
\* Every entry of the new store is the new one or an old one.
<1>9. ASSUME NEW i \in DOMAIN r
      PROVE  /\ i + k \in DOMAIN cs[n] /\ q[i] = cs[n][i + k]
             /\ cs[n] # <<>> /\ i \in Nat
  BY <1>1, <1>2, <1>7, <1>9
<1>10. \A i, j \in DOMAIN q : q[i].data.name = q[j].data.name => i = j
  <2>1. ASSUME NEW i \in DOMAIN r PROVE q[i].data.name # d.name
    <3>1. i + k \in DOMAIN cs[n] /\ q[i] = cs[n][i + k]
      BY <1>9
    <3>2. cs[n][i + k].data.name # d.name
      BY <1>1, <1>5, <3>1, CsPositionFindsFirst
    <3> QED BY <3>1, <3>2
  <2>2. ASSUME NEW i \in DOMAIN r, NEW j \in DOMAIN r,
               q[i].data.name = q[j].data.name
        PROVE  i = j
    <3>1. /\ i + k \in DOMAIN cs[n] /\ q[i] = cs[n][i + k] /\ i \in Nat
          /\ j + k \in DOMAIN cs[n] /\ q[j] = cs[n][j + k] /\ j \in Nat
      BY <1>9
    <3>2. i + k = j + k
      BY <2>2, <3>1 DEF CsInv, CsNamesUnique
    <3> QED BY <1>k, <3>1, <3>2
  <2> QED BY <1>3, <1>7, <2>1, <2>2
<1>11. \A i \in DOMAIN q : ~ q[i].fresh => q[i].staleAt <= now
  <2>1. ASSUME NEW i \in DOMAIN r, ~ q[i].fresh PROVE q[i].staleAt <= now
    BY <1>9, <2>1 DEF CsInv, CsNotStaleEarly
  <2>2. ~ e.fresh => e.staleAt <= now
    BY <1>1, <1>3
  <2> QED BY <1>7, <2>1, <2>2
<1>12. \A i \in DOMAIN q : q[i].fresh => q[i].staleAt > 0
  <2>1. ASSUME NEW i \in DOMAIN r, q[i].fresh PROVE q[i].staleAt > 0
    BY <1>9, <2>1 DEF CsInv, CsFreshHasDate
  <2>2. e.fresh => e.staleAt > 0
    BY <1>1, <1>3
  <2> QED BY <1>7, <2>1, <2>2
<1>13. \A i \in DOMAIN q : q[i].fresh => t <= q[i].staleAt + CheckPeriod
  <2>1. ASSUME NEW i \in DOMAIN r, q[i].fresh
        PROVE  t <= q[i].staleAt + CheckPeriod
    BY <1>4, <1>9, <2>1 DEF CsInv, CsCheckedInTime
  <2>2. e.fresh => t <= e.staleAt + CheckPeriod
    BY <1>1, <1>3, <1>4
  <2> QED BY <1>7, <2>1, <2>2
<1> QED
  BY <1>4, <1>6, <1>7, <1>8, <1>10, <1>11, <1>12, <1>13, CsHostStep

(* add() of a name that is cached.                                          *)
LEMMA CsRefreshKeepsInv ==
    ASSUME CsInv, NEW n \in Nodes, NEW d \in DataPackets, now' = now,
           CsRefresh(n, d)
    PROVE  CsInv'
<1> DEFINE p == CsPosition(n, d.name)
           e == CsRenewed(cs[n][p], d)
           q == [cs[n] EXCEPT ![p] = e]
           t == ArmIfIdle(csTimer[n])
<1>1. /\ cs[n] \in Seq(CsEntry) /\ csTimer[n] \in Timer /\ now \in Nat
      /\ DOMAIN cs[n] = 1..Len(cs[n]) /\ Len(cs[n]) \in Nat
      /\ Len(cs[n]) <= CsMaxSize[n] /\ CsMaxSize[n] \in Nat
      /\ CheckPeriod \in Nat
      /\ \A i \in DOMAIN cs[n] : cs[n][i] \in CsEntry /\ cs[n][i].staleAt \in Nat
  BY CsHost
<1>2. p \in DOMAIN cs[n]
  BY <1>1, CsPositionFindsFirst DEF CsRefresh
<1>3. cs[n] # <<>>
  BY <1>1, <1>2
<1>4. t \in Timer /\ t # NotScheduled /\ t \in now..(now + CheckPeriod)
      /\ t = csTimer[n]
  BY <1>3, CsArmed
<1>5. cs' = [cs EXCEPT ![n] = q] /\ csTimer' = [csTimer EXCEPT ![n] = t]
  BY DEF CsRefresh, CsArm, CsInv, CsTypeOK
<1>6. d.freshness \in Nat
  BY PacketsAssumption
<1>7. /\ e \in CsEntry /\ e.data = cs[n][p].data
      /\ \/ e = cs[n][p]
         \/ e.fresh /\ e.staleAt = now + d.freshness /\ d.freshness > 0
  <2>1. CASE d.freshness = 0
    BY <1>1, <1>2, <2>1 DEF CsRenewed
  <2>2. CASE d.freshness > 0
    BY <1>1, <1>2, <2>2, CsEntryFacts
  <2> QED BY <1>6, <2>1, <2>2
<1> HIDE DEF p, e, t
<1>8. /\ q \in Seq(CsEntry)
      /\ Len(q) = Len(cs[n])
      /\ \A i \in 1..Len(cs[n]) : q[i] = IF i = p THEN e ELSE cs[n][i]
  BY <1>1, <1>2, <1>7, ExceptSeq
<1>9. DOMAIN q = DOMAIN cs[n]
  OBVIOUS
<1> HIDE DEF q
<1>10. ASSUME NEW i \in DOMAIN q
       PROVE  /\ i \in DOMAIN cs[n] /\ q[i].data = cs[n][i].data
              /\ \/ q[i] = cs[n][i]
                 \/ /\ q[i].fresh
                    /\ q[i].staleAt = now + d.freshness /\ d.freshness > 0
  BY <1>1, <1>7, <1>8, <1>9
<1>11. \A i, j \in DOMAIN q : q[i].data.name = q[j].data.name => i = j
  BY <1>10 DEF CsInv, CsNamesUnique
<1>12. \A i \in DOMAIN q : ~ q[i].fresh => q[i].staleAt <= now
  BY <1>10 DEF CsInv, CsNotStaleEarly
<1>13. \A i \in DOMAIN q : q[i].fresh => q[i].staleAt > 0
  <2>1. now + d.freshness > 0 \/ ~ (d.freshness > 0)
    BY <1>1, <1>6
  <2> QED BY <1>10, <2>1 DEF CsInv, CsFreshHasDate
<1>14. \A i \in DOMAIN q : q[i].fresh => t <= q[i].staleAt + CheckPeriod
  <2>1. t <= now + d.freshness + CheckPeriod
    BY <1>1, <1>4, <1>6
  <2> QED BY <1>4, <1>10, <2>1 DEF CsInv, CsCheckedInTime
<1>15. Len(q) <= CsMaxSize[n]
  BY <1>1, <1>8
<1> QED
  BY <1>4, <1>5, <1>8, <1>11, <1>12, <1>13, <1>14, <1>15, CsHostStep

(* The periodic check: what it leaves fresh does not end before now, so the  *)
(* next check, one period on, is early enough for it.                        *)
LEMMA CsCheckKeepsInv ==
    ASSUME CsInv, NEW n \in Nodes, now' = now, CsCheckStale(n)
    PROVE  /\ CsInv'
           /\ Len(cs'[n]) = Len(cs[n])
           /\ \A i \in DOMAIN cs[n] : cs'[n][i].data = cs[n][i].data
<1> DEFINE q == CsAfterCheck(n)
           t == NextCheck(cs[n])
<1>1. /\ cs[n] \in Seq(CsEntry) /\ csTimer[n] \in Timer /\ now \in Nat
      /\ DOMAIN cs[n] = 1..Len(cs[n]) /\ Len(cs[n]) \in Nat
      /\ Len(cs[n]) <= CsMaxSize[n] /\ CsMaxSize[n] \in Nat
      /\ CheckPeriod \in Nat
      /\ \A i \in DOMAIN cs[n] : cs[n][i] \in CsEntry /\ cs[n][i].staleAt \in Nat
  BY CsHost
<1>2. \A e \in CsEntry :
         LET u == [e EXCEPT !.fresh = FALSE] IN
         u \in CsEntry /\ u.data = e.data /\ ~ u.fresh /\ u.staleAt = e.staleAt
  BY DEF CsEntry
<1>3. ASSUME NEW i \in DOMAIN cs[n]
      PROVE  /\ q[i] \in CsEntry /\ q[i].data = cs[n][i].data
             /\ q[i].staleAt = cs[n][i].staleAt
             /\ \/ cs[n][i].staleAt \in 1..now /\ ~ q[i].fresh
                \/ cs[n][i].staleAt \notin 1..now /\ q[i] = cs[n][i]
  BY <1>1, <1>2 DEF CsAfterCheck
<1>4. q = [i \in 1..Len(cs[n]) |-> q[i]] /\ DOMAIN q = DOMAIN cs[n]
  BY <1>1 DEF CsAfterCheck
<1>5. cs' = [cs EXCEPT ![n] = q] /\ csTimer' = [csTimer EXCEPT ![n] = t]
  BY DEF CsCheckStale
<1> HIDE DEF q
<1>6. q \in [1..Len(cs[n]) -> CsEntry]
  BY <1>1, <1>3, <1>4
<1>7. q \in Seq(CsEntry)
  BY <1>1, <1>6, SeqDef
<1>8. Len(q) = Len(cs[n])
  BY <1>1, <1>4, <1>7, LenProperties
<1>9. /\ t \in Timer
      /\ cs[n] # <<>> => t # NotScheduled
      /\ t # NotScheduled => t \in now..(now + CheckPeriod)
      /\ t <= now + CheckPeriod /\ t \in Int
  BY <1>1 DEF NextCheck, NotScheduled, Timer
<1> HIDE DEF t
<1>10. q # <<>> => t # NotScheduled
  <2>1. q # <<>> => Len(q) # 0
    BY <1>7, EmptySeq
  <2>2. cs[n] = <<>> => Len(cs[n]) = 0
    OBVIOUS
  <2> QED BY <1>8, <1>9, <2>1, <2>2
<1>11. \A i, j \in DOMAIN q : q[i].data.name = q[j].data.name => i = j
  BY <1>3, <1>4 DEF CsInv, CsNamesUnique
<1>12. \A i \in DOMAIN q : ~ q[i].fresh => q[i].staleAt <= now
  <2> SUFFICES ASSUME NEW i \in DOMAIN q, ~ q[i].fresh
               PROVE  q[i].staleAt <= now
    OBVIOUS
  <2>1. i \in DOMAIN cs[n]
    BY <1>4
  <2>2. CASE cs[n][i].staleAt \in 1..now
    <3>1. q[i].staleAt = cs[n][i].staleAt
      BY <1>3, <2>1
    <3> QED BY <1>1, <2>2, <3>1
  <2>3. CASE cs[n][i].staleAt \notin 1..now
    <3>1. q[i] = cs[n][i]
      BY <1>3, <2>1, <2>3
    <3> QED BY <2>1, <3>1 DEF CsInv, CsNotStaleEarly
  <2> QED BY <2>2, <2>3
<1>13. \A i \in DOMAIN q : q[i].fresh => q[i].staleAt > 0
  BY <1>3, <1>4 DEF CsInv, CsFreshHasDate
<1>14. \A i \in DOMAIN q : q[i].fresh => t <= q[i].staleAt + CheckPeriod
  <2> SUFFICES ASSUME NEW i \in DOMAIN q, q[i].fresh
               PROVE  t <= q[i].staleAt + CheckPeriod
    OBVIOUS
  <2>1. i \in DOMAIN cs[n] /\ q[i] = cs[n][i] /\ q[i].staleAt \notin 1..now
    BY <1>3, <1>4
  <2>2. q[i].staleAt > 0 /\ q[i].staleAt \in Nat
    BY <1>1, <1>13, <2>1
  <2>3. q[i].staleAt > now
    BY <1>1, <2>1, <2>2
  <2> QED BY <1>1, <1>9, <2>2, <2>3
<1>15. Len(q) <= CsMaxSize[n]
  BY <1>1, <1>8
<1>16. CsInv'
  BY <1>5, <1>7, <1>9, <1>10, <1>11, <1>12, <1>13, <1>14, <1>15, CsHostStep
<1>17. cs'[n] = q
  BY <1>5 DEF CsInv, CsTypeOK
<1> QED BY <1>3, <1>8, <1>16, <1>17

(* Time passes only up to the next check.                                    *)
LEMMA CsIdleKeepsInv ==
    ASSUME CsInv, UNCHANGED csVars, now' = now \/ CsTick
    PROVE  CsInv'
<1>1. cs' = cs /\ csTimer' = csTimer /\ now \in Nat /\ CheckPeriod \in Nat
  BY SimTimeAssumption DEF csVars, CsInv, CsTypeOK
<1>2. \A n \in Nodes : csTimer[n] \in Timer
  BY DEF CsInv, CsTypeOK
<1>3. now' = now \/ now' = now + 1
  BY DEF CsTick, Tick
<1>4. CsTypeOK' /\ CsNamesUnique' /\ CsFreshHasDate' /\ CsChecked' /\ CsCheckedInTime'
  BY <1>1, <1>3 DEF CsInv, CsTypeOK, CsNamesUnique, CsFreshHasDate, CsChecked,
                    CsCheckedInTime
<1>5. CsNotStaleEarly'
  <2> SUFFICES ASSUME NEW n \in Nodes, NEW i \in DOMAIN cs[n], ~ cs[n][i].fresh
               PROVE  cs[n][i].staleAt <= now'
    BY <1>1 DEF CsNotStaleEarly
  <2>1. cs[n][i].staleAt \in Nat /\ cs[n][i].staleAt <= now
    BY CsHost DEF CsInv, CsNotStaleEarly
  <2> QED BY <1>1, <1>3, <2>1
<1>6. CsCheckIsNear'
  <2>1. CASE now' = now
    BY <1>1, <2>1 DEF CsInv, CsCheckIsNear
  <2>2. CASE CsTick
    <3>1. /\ now' = now + 1
          /\ \A n \in Nodes : csTimer[n] # NotScheduled => csTimer[n] > now
      BY <2>2 DEF CsTick, Tick
    <3> QED BY <1>1, <1>2, <3>1 DEF CsInv, CsCheckIsNear, Timer, NotScheduled
  <2> QED BY <2>1, <2>2
<1> QED BY <1>4, <1>5, <1>6 DEF CsInv

LEMMA CsNextKeepsInv == CsInv /\ [CsNext]_<<now, csVars>> => CsInv'
<1> SUFFICES ASSUME CsInv, [CsNext]_<<now, csVars>> PROVE CsInv'
  OBVIOUS
<1>1. CASE UNCHANGED <<now, csVars>>
  BY <1>1, CsIdleKeepsInv
<1>2. ASSUME NEW n \in Nodes, CsAddCall(n) PROVE CsInv'
  <2>1. PICK d \in DataPackets : CsAdd(n, d)
    BY <1>2 DEF CsAddCall
  <2>2. now' = now
    BY <1>2 DEF CsAddCall
  <2> QED
    BY <1>1, <2>1, <2>2, CsInsertKeepsInv, CsRefreshKeepsInv DEF CsAdd, CsDisabled
<1>3. ASSUME NEW n \in Nodes, CsTimerFires(n) PROVE CsInv'
  BY <1>3, CsCheckKeepsInv DEF CsTimerFires
<1>4. CASE CsTick
  BY <1>4, CsIdleKeepsInv DEF CsTick
<1>5. CASE CsEnd
  BY <1>1, <1>5 DEF CsEnd
<1> QED BY <1>1, <1>2, <1>3, <1>4, <1>5 DEF CsNext
-----------------------------------------------------------------------------
(* The names of a store, position by position.                               *)
LEMMA CsNamesPointwise ==
    ASSUME NEW s \in Seq(CsEntry)
    PROVE  /\ CsNames(s) \in Seq(Names)
           /\ Len(CsNames(s)) = Len(s)
           /\ \A i \in 1..Len(s) : CsNames(s)[i] = s[i].data.name
<1>1. DOMAIN s = 1..Len(s) /\ Len(s) \in Nat
  BY LenProperties
<1>2. \A i \in 1..Len(s) : s[i].data.name \in Names
  <2>1. \A i \in 1..Len(s) : s[i] \in CsEntry
    BY ElementOfSeq
  <2>2. \A i \in 1..Len(s) : s[i].data \in DataPackets
    BY <2>1 DEF CsEntry
  <2> QED BY <2>2, PacketsAssumption
<1>3. CsNames(s) = [i \in 1..Len(s) |-> s[i].data.name]
  BY <1>1 DEF CsNames
<1>4. CsNames(s) \in [1..Len(s) -> Names]
  BY <1>2, <1>3
<1>5. CsNames(s) \in Seq(Names)
  BY <1>1, <1>4, SeqDef
<1>6. Len(CsNames(s)) \in Nat /\ DOMAIN CsNames(s) = 1..Len(CsNames(s))
      /\ DOMAIN CsNames(s) = 1..Len(s)
  BY <1>3, <1>5, LenProperties
<1>7. \A a, b \in Nat : 1..a = 1..b => a = b
  OBVIOUS
<1> QED BY <1>1, <1>3, <1>5, <1>6, <1>7

LEMMA CsNamesExtend ==
    ASSUME NEW v \in Seq(CsEntry), NEW q \in Seq(CsEntry), Len(v) <= Len(q),
           \A i \in DOMAIN v : v[i].data.name = q[i].data.name
    PROVE  IsPrefix(CsNames(v), CsNames(q))
<1>1. DOMAIN v = 1..Len(v) /\ Len(v) \in Nat /\ Len(q) \in Nat
  BY LenProperties
<1>2. ASSUME NEW i \in 1..Len(v)
      PROVE  CsNames(v)[i] = CsNames(q)[i]
  <2>1. i \in 1..Len(q) /\ i \in DOMAIN v
    BY <1>1
  <2>2. CsNames(v)[i] = v[i].data.name /\ CsNames(q)[i] = q[i].data.name
    BY <2>1, CsNamesPointwise
  <2> QED BY <2>1, <2>2
<1> QED BY <1>2, CsNamesPointwise, PrefixPointwise

LEMMA CsNamesOfTail ==
    ASSUME NEW v \in Seq(CsEntry), v # <<>>
    PROVE  Tail(CsNames(v)) = CsNames(Tail(v))
<1>1. /\ Tail(v) \in Seq(CsEntry)
      /\ Len(Tail(v)) = Len(v) - 1
      /\ \A i \in 1..Len(Tail(v)) : Tail(v)[i] = v[i + 1]
      /\ Len(v) \in Nat /\ Len(v) # 0
  BY HeadTailProperties, EmptySeq, LenProperties
<1>2. /\ CsNames(v) \in Seq(Names) /\ Len(CsNames(v)) = Len(v)
      /\ \A i \in 1..Len(v) : CsNames(v)[i] = v[i].data.name
      /\ CsNames(Tail(v)) \in Seq(Names) /\ Len(CsNames(Tail(v))) = Len(v) - 1
      /\ \A i \in 1..(Len(v) - 1) : CsNames(Tail(v))[i] = Tail(v)[i].data.name
  BY <1>1, CsNamesPointwise
<1>3. CsNames(v) # <<>>
  BY <1>1, <1>2
<1>4. /\ Tail(CsNames(v)) \in Seq(Names)
      /\ Len(Tail(CsNames(v))) = Len(v) - 1
      /\ \A i \in 1..(Len(v) - 1) : Tail(CsNames(v))[i] = CsNames(v)[i + 1]
  BY <1>2, <1>3, HeadTailProperties
<1>5. ASSUME NEW i \in 1..(Len(v) - 1)
      PROVE  Tail(CsNames(v))[i] = CsNames(Tail(v))[i]
  <2>1. i + 1 \in 1..Len(v)
    BY <1>1
  <2> QED BY <1>1, <1>2, <1>4, <2>1
<1> QED BY <1>2, <1>4, <1>5, SeqEqual
-----------------------------------------------------------------------------
(* A step of a host: the names stay and one may be added, or the oldest goes *)
(* from a full store and one is added.                                       *)
CsEvictsFirst(n) ==
    \/ IsPrefix(CsNames(cs[n]), CsNames(cs'[n]))
    \/ /\ CsFull(n)
       /\ Len(cs'[n]) = CsMaxSize[n]
       /\ IsPrefix(Tail(CsNames(cs[n])), CsNames(cs'[n]))

LEMMA CsInsertEvicts ==
    ASSUME CsInv, NEW n \in Nodes, NEW d \in DataPackets, CsInsert(n, d)
    PROVE  CsEvictsFirst(n)
<1> DEFINE r == CsRoom(n)
           e == CsNewEntry(d)
<1>1. /\ cs[n] \in Seq(CsEntry) /\ now \in Nat
      /\ Len(cs[n]) \in Nat /\ CsMaxSize[n] \in Nat /\ CsMaxSize[n] # 0
  BY CsHost DEF CsInsert
<1>2. r \in Seq(CsEntry) /\ DOMAIN r = 1..Len(r) /\ Len(r) \in Nat
      /\ Len(r) = Len(cs[n]) - IF CsFull(n) THEN 1 ELSE 0
  BY <1>1, CsRoomProperties, LenProperties
<1>3. e \in CsEntry
  BY <1>1, CsEntryFacts
<1>4. cs'[n] = Append(r, e)
  BY DEF CsInsert, CsInv, CsTypeOK
<1>5. r = IF CsFull(n) THEN Tail(cs[n]) ELSE cs[n]
  BY DEF CsRoom
<1> HIDE DEF r, e
<1>6. /\ Append(r, e) \in Seq(CsEntry)
      /\ Len(Append(r, e)) = Len(r) + 1
      /\ \A i \in DOMAIN r : Append(r, e)[i] = r[i]
  <2>1. r \in Seq(CsEntry)
    BY <1>2
  <2> QED BY <1>3, <2>1, PushBack
<1>7. IsPrefix(CsNames(r), CsNames(cs'[n]))
  <2>1. r \in Seq(CsEntry) /\ Len(r) <= Len(Append(r, e))
    BY <1>2, <1>6
  <2>2. IsPrefix(CsNames(r), CsNames(Append(r, e)))
    BY <1>6, <2>1, CsNamesExtend
  <2> QED BY <1>4, <2>2
<1>8. CASE CsFull(n)
  <2>1. cs[n] # <<>>
    BY <1>1, <1>8 DEF CsFull
  <2>2. CsNames(r) = Tail(CsNames(cs[n]))
    BY <1>1, <1>5, <1>8, <2>1, CsNamesOfTail
  <2>3. Len(cs'[n]) = CsMaxSize[n]
    BY <1>1, <1>2, <1>4, <1>6, <1>8 DEF CsFull
  <2> QED BY <1>7, <1>8, <2>2, <2>3 DEF CsEvictsFirst
<1>9. CASE ~ CsFull(n)
  BY <1>5, <1>7, <1>9 DEF CsEvictsFirst
<1> QED BY <1>8, <1>9

LEMMA CsRefreshEvictsNothing ==
    ASSUME CsInv, NEW n \in Nodes, NEW d \in DataPackets, CsRefresh(n, d)
    PROVE  CsEvictsFirst(n)
<1> DEFINE p == CsPosition(n, d.name)
           e == CsRenewed(cs[n][p], d)
<1>1. /\ cs[n] \in Seq(CsEntry) /\ now \in Nat /\ DOMAIN cs[n] = 1..Len(cs[n])
      /\ Len(cs[n]) \in Nat /\ \A i \in DOMAIN cs[n] : cs[n][i] \in CsEntry
  BY CsHost
<1>2. p \in DOMAIN cs[n]
  BY <1>1, CsPositionFindsFirst DEF CsRefresh
<1>3. e \in CsEntry /\ e.data = cs[n][p].data
  <2>1. CASE d.freshness = 0
    BY <1>1, <1>2, <2>1 DEF CsRenewed
  <2>2. CASE d.freshness > 0
    BY <1>1, <1>2, <2>2, CsEntryFacts
  <2> QED BY <2>1, <2>2, PacketsAssumption
<1>4. cs'[n] = [cs[n] EXCEPT ![p] = e]
  BY DEF CsRefresh, CsInv, CsTypeOK
<1> HIDE DEF p, e
<1>5. /\ cs'[n] \in Seq(CsEntry)
      /\ Len(cs'[n]) = Len(cs[n])
      /\ \A i \in 1..Len(cs[n]) : cs'[n][i] = IF i = p THEN e ELSE cs[n][i]
  BY <1>1, <1>2, <1>3, <1>4, ExceptSeq
<1>6. \A i \in DOMAIN cs[n] : cs[n][i].data.name = cs'[n][i].data.name
  BY <1>1, <1>3, <1>5
<1>7. Len(cs[n]) <= Len(cs'[n])
  BY <1>1, <1>5
<1> QED BY <1>1, <1>5, <1>6, <1>7, CsNamesExtend DEF CsEvictsFirst

LEMMA CsUnchangedEvictsNothing ==
    ASSUME CsInv, CsInv', NEW n \in Nodes, Len(cs'[n]) = Len(cs[n]),
           \A i \in DOMAIN cs[n] : cs'[n][i].data = cs[n][i].data
    PROVE  CsEvictsFirst(n)
<1>1. cs[n] \in Seq(CsEntry) /\ cs'[n] \in Seq(CsEntry)
  BY DEF CsInv, CsTypeOK
<1>2. Len(cs[n]) <= Len(cs'[n])
  BY <1>1, LenProperties
<1> QED BY <1>1, <1>2, CsNamesExtend DEF CsEvictsFirst

LEMMA CsNextEvicts ==
    ASSUME CsInv, [CsNext]_<<now, csVars>>, NEW n \in Nodes
    PROVE  CsEvictsFirst(n)
<1>1. CsInv'
  BY CsNextKeepsInv
<1>2. CASE cs'[n] = cs[n]
  BY <1>1, <1>2, CsUnchangedEvictsNothing
<1>3. ASSUME NEW m \in Nodes, CsAddCall(m) PROVE CsEvictsFirst(n)
  <2>1. PICK d \in DataPackets : CsAdd(m, d)
    BY <1>3 DEF CsAddCall
  <2>2. CASE m = n
    BY <1>2, <2>1, <2>2, CsInsertEvicts, CsRefreshEvictsNothing
    DEF CsAdd, CsDisabled, csVars
  <2>3. CASE m # n
    <3>1. cs'[n] = cs[n]
      BY <2>1, <2>3 DEF CsAdd, CsDisabled, CsRefresh, CsInsert, csVars, CsInv, CsTypeOK
    <3> QED BY <1>2, <3>1
  <2> QED BY <2>2, <2>3
<1>4. ASSUME NEW m \in Nodes, CsTimerFires(m) PROVE CsEvictsFirst(n)
  <2>1. CASE m = n
    BY <1>1, <1>4, <2>1, CsCheckKeepsInv, CsUnchangedEvictsNothing DEF CsTimerFires
  <2>2. CASE m # n
    BY <1>2, <1>4, <2>2 DEF CsTimerFires, CsCheckStale, CsInv, CsTypeOK
  <2> QED BY <2>1, <2>2
<1>5. CASE CsTick \/ CsEnd \/ UNCHANGED <<now, csVars>>
  BY <1>2, <1>5 DEF CsTick, CsEnd, csVars
<1> QED BY <1>3, <1>4, <1>5 DEF CsNext
-----------------------------------------------------------------------------
(* The store never leaves its type and never holds more than maxSize         *)
(* entries, in every order of add() and checks.                              *)
THEOREM CsTypeCorrect == CsSpec => []CsTypeOK
<1>1. CsInv => CsTypeOK
  BY DEF CsInv
<1> QED BY CsInitInv, CsNextKeepsInv, <1>1, PTL DEF CsSpec

(* Data that lookup() returns as fresh is at most one check period past its  *)
(* freshness period, for any size, freshness periods and order of add().     *)
THEOREM CsFreshnessIsBounded == CsSpec => []CsFreshnessBounded
  BY CsInitInv, CsNextKeepsInv, CsInvImpliesBounded, PTL DEF CsSpec

(* No check takes the freshness of an entry away before its time.            *)
THEOREM CsKeepsFreshness == CsSpec => []CsNotStaleEarly
<1>1. CsInv => CsNotStaleEarly
  BY DEF CsInv
<1> QED BY CsInitInv, CsNextKeepsInv, <1>1, PTL DEF CsSpec

(* A name is cached at most once, so lookup() and add() miss no entry.       *)
THEOREM CsKeepsNamesUnique == CsSpec => []CsNamesUnique
<1>1. CsInv => CsNamesUnique
  BY DEF CsInv
<1> QED BY CsInitInv, CsNextKeepsInv, <1>1, PTL DEF CsSpec

(* An add() evicts at most the oldest entry, and only from a full store.     *)
THEOREM CsIsFirstInFirstOut == CsSpec => CsEvictsOldestOnly
<1>1. CsInv /\ [CsNext]_<<now, csVars>> =>
         [\A n \in Nodes :
             \/ IsPrefix(CsNames(cs[n]), CsNames(cs'[n]))
             \/ /\ CsFull(n)
                /\ Len(cs'[n]) = CsMaxSize[n]
                /\ IsPrefix(Tail(CsNames(cs[n])), CsNames(cs'[n]))]_cs
  BY CsNextEvicts DEF CsEvictsFirst
<1> QED BY CsInitInv, CsNextKeepsInv, <1>1, PTL DEF CsSpec, CsEvictsOldestOnly
==============================================================================
