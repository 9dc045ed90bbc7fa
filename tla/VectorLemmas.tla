---------------------------- MODULE VectorLemmas ----------------------------
(***************************************************************************)
(* What erasing from a vector preserves, and what a search by position     *)
(* returns: the facts about data on which the table proofs rest.           *)
(***************************************************************************)
EXTENDS Vectors, SequencesExt, FiniteSetTheorems, SequenceTheorems, TLAPS

(* Every non-empty set of natural numbers has a least element.             *)
LEMMA LeastExists ==
    ASSUME NEW T \in SUBSET Nat, T # {}
    PROVE  \E x \in T : \A y \in T : x <= y
<1>1. \E x \in T : \A y \in T : ~ (<<y, x>> \in OpToRel(<, Nat))
  BY NatLessThanWellFounded, WFMin
<1>2. \A x, y \in Nat : <<y, x>> \in OpToRel(<, Nat) <=> y < x
  BY DEF OpToRel
<1>3. PICK x \in T : \A y \in T : ~ (<<y, x>> \in OpToRel(<, Nat))
  BY <1>1
<1>4. \A y \in T : ~ (y < x)
  BY <1>2, <1>3
<1>5. x \in Nat /\ \A y \in T : y \in Nat
  OBVIOUS
<1> QED BY <1>4, <1>5

(* Min(), by which lookup() and match() find the first entry that fits.    *)
LEMMA MinIsLeast ==
    ASSUME NEW T \in SUBSET Nat, T # {}
    PROVE  Min(T) \in T /\ \A y \in T : Min(T) <= y
<1>1. \E x \in T : \A y \in T : x <= y
  BY LeastExists
<1> QED BY <1>1 DEF Min
-----------------------------------------------------------------------------
(* Rank counts up in steps of one, at the positions that stay.             *)
LEMMA RankStep ==
    ASSUME NEW m \in Nat, NEW keep \in SUBSET (1..m)
    PROVE  /\ IsFiniteSet(keep)
           /\ Cardinality(keep) \in 0..m
           /\ Rank(keep, 0) = 0
           /\ Rank(keep, m) = Cardinality(keep)
           /\ \A i \in Nat : Rank(keep, i) \in 0..Cardinality(keep)
           /\ \A i \in 1..m : Rank(keep, i) = IF i \in keep
                                                 THEN Rank(keep, i - 1) + 1
                                                 ELSE Rank(keep, i - 1)
<1> DEFINE Upto(i) == {j \in keep : j <= i}
<1>0. \A j \in keep : j \in Nat /\ 1 <= j /\ j <= m
  OBVIOUS
<1>1. IsFiniteSet(1..m) /\ Cardinality(1..m) = m
  BY FS_Interval
<1>2. IsFiniteSet(keep) /\ Cardinality(keep) <= m
  BY <1>1, FS_Subset
<1>3. Cardinality(keep) \in 0..m
  BY <1>2, FS_CardinalityType
<1>4. \A i \in Nat : Upto(i) \in SUBSET keep
  OBVIOUS
<1>5. \A i \in Nat : IsFiniteSet(Upto(i)) /\ Cardinality(Upto(i)) <= Cardinality(keep)
  BY <1>2, <1>4, FS_Subset
<1>6. \A i \in Nat : Cardinality(Upto(i)) \in 0..Cardinality(keep)
  BY <1>3, <1>5, FS_CardinalityType
<1>7. Upto(0) = {} /\ Upto(m) = keep
  <2>1. \A j \in keep : ~ (j <= 0) /\ j <= m
    BY <1>0
  <2> QED BY <2>1, Zenon
<1>8. Rank(keep, 0) = 0
  BY <1>7, FS_EmptySet DEF Rank
<1>9. \A i \in 1..m : Rank(keep, i) = IF i \in keep THEN Rank(keep, i - 1) + 1
                                                    ELSE Rank(keep, i - 1)
  <2> TAKE i \in 1..m
  <2>0. i - 1 \in Nat /\ \A j \in keep : j <= i <=> j <= i - 1 \/ j = i
    BY <1>0
  <2>1. IsFiniteSet(Upto(i - 1))
    BY <1>5, <2>0
  <2>2. i \in keep => Upto(i) = Upto(i - 1) \cup {i} /\ i \notin Upto(i - 1)
    <3>1. i <= i /\ ~ (i <= i - 1)
      OBVIOUS
    <3> QED BY <2>0, <3>1, Zenon
  <2>3. i \notin keep => Upto(i) = Upto(i - 1)
    BY <2>0
  <2>4. i \in keep => Cardinality(Upto(i)) = Cardinality(Upto(i - 1)) + 1
    BY <2>1, <2>2, FS_AddElement
  <2> QED BY <2>3, <2>4 DEF Rank
<1> QED BY <1>2, <1>3, <1>6, <1>7, <1>8, <1>9 DEF Rank

(* Rank numbers the positions that stay, each number being taken.          *)
LEMMA RankOnto ==
    ASSUME NEW m \in Nat, NEW keep \in SUBSET (1..m),
           NEW k \in 1..Cardinality(keep)
    PROVE  \E i \in keep : Rank(keep, i) = k
<1> DEFINE T == {i \in 0..m : Rank(keep, i) >= k}
<1>1. /\ Cardinality(keep) \in 0..m
      /\ Rank(keep, 0) = 0
      /\ Rank(keep, m) = Cardinality(keep)
      /\ \A i \in Nat : Rank(keep, i) \in 0..Cardinality(keep)
      /\ \A i \in 1..m : Rank(keep, i) = IF i \in keep
                                            THEN Rank(keep, i - 1) + 1
                                            ELSE Rank(keep, i - 1)
  BY RankStep
<1>2. k \in Nat /\ k >= 1 /\ k <= Cardinality(keep)
  BY <1>1
<1>3. T \in SUBSET Nat /\ m \in T
  BY <1>1, <1>2
<1>4. PICK i \in T : \A y \in T : i <= y
  BY <1>3, LeastExists
<1>5. i # 0 /\ i \in 1..m
  BY <1>1, <1>2, <1>4
<1>6. i - 1 \notin T /\ i - 1 \in 0..m
  BY <1>4, <1>5
<1>7. Rank(keep, i - 1) \in Nat /\ Rank(keep, i) \in Nat
  BY <1>1, <1>5, <1>6
<1>8. Rank(keep, i - 1) < k /\ Rank(keep, i) >= k
  BY <1>2, <1>4, <1>6, <1>7
<1>9. i \in keep /\ Rank(keep, i) = k
  BY <1>1, <1>2, <1>5, <1>7, <1>8
<1> QED BY <1>9

(* A later position has a higher rank, if it stays.                        *)
LEMMA RankIncreases ==
    ASSUME NEW m \in Nat, NEW keep \in SUBSET (1..m),
           NEW i \in keep, NEW j \in keep, i < j
    PROVE  Rank(keep, i) < Rank(keep, j)
<1> DEFINE Upto(p) == {q \in keep : q <= p}
<1>1. \A p \in keep : p \in Nat
  OBVIOUS
<1>2. IsFiniteSet(keep)
  BY RankStep
<1>3. Upto(i) \in SUBSET Upto(j) /\ j \in Upto(j) /\ j \notin Upto(i)
  <2>1. i \in Nat /\ j \in Nat
    BY <1>1
  <2>2. j <= j /\ ~ (j <= i) /\ \A p \in keep : p <= i => p <= j
    BY <1>1, <2>1
  <2> QED BY <2>2, Zenon
<1>4. IsFiniteSet(Upto(j)) /\ Upto(j) \in SUBSET keep
  BY <1>2, FS_Subset
<1>5. Cardinality(Upto(i)) <= Cardinality(Upto(j))
      /\ Cardinality(Upto(i)) # Cardinality(Upto(j))
  BY <1>3, <1>4, FS_Subset
<1>6. Rank(keep, i) \in Nat /\ Rank(keep, j) \in Nat
  <2>1. /\ Cardinality(keep) \in Nat
        /\ \A p \in Nat : Rank(keep, p) \in 0..Cardinality(keep)
    BY RankStep
  <2>2. i \in Nat /\ j \in Nat
    BY <1>1
  <2> QED BY <2>1, <2>2
<1> QED BY <1>5, <1>6 DEF Rank
-----------------------------------------------------------------------------
(* The elements of Retain(v, keep) are those of v at keep, each once and in *)
(* the same order.                                                          *)
LEMMA RetainProperties ==
    ASSUME NEW S, NEW v \in Seq(S), NEW keep \in SUBSET DOMAIN v
    PROVE  /\ Retain(v, keep) \in Seq(S)
           /\ Len(Retain(v, keep)) <= Len(v)
           /\ DOMAIN Retain(v, keep) = 1..Len(Retain(v, keep))
           /\ \A k \in DOMAIN Retain(v, keep) : \E i \in keep :
                 Rank(keep, i) = k /\ Retain(v, keep)[k] = v[i]
           /\ \A i \in keep : \E k \in DOMAIN Retain(v, keep) :
                 Rank(keep, i) = k /\ Retain(v, keep)[k] = v[i]
<1> DEFINE m == Len(v)
           c == Cardinality(keep)
           R == Retain(v, keep)
           At(k) == CHOOSE i \in keep : Rank(keep, i) = k
<1>1. m \in Nat /\ DOMAIN v = 1..m /\ v \in [1..m -> S]
  BY LenProperties
<1> HIDE DEF m
<1>2. keep \in SUBSET (1..m)
  BY <1>1
<1>3. c \in 0..m /\ Rank(keep, m) = c /\ Rank(keep, 0) = 0
  BY <1>1, <1>2, RankStep
<1>4. \A k \in 1..c : At(k) \in keep /\ Rank(keep, At(k)) = k
  <2> TAKE k \in 1..c
  <2>1. \E i \in keep : Rank(keep, i) = k
    BY <1>1, <1>2, RankOnto
  <2> QED BY <2>1
<1>5. \A i \in keep : Rank(keep, i) \in 1..c
  <2> TAKE i \in keep
  <2>1. /\ \A p \in Nat : Rank(keep, p) \in 0..c
        /\ \A p \in 1..m : p \in keep => Rank(keep, p) = Rank(keep, p - 1) + 1
    BY <1>1, <1>2, RankStep
  <2>2. i \in 1..m /\ i \in Nat /\ i - 1 \in Nat
    BY <1>1, <1>2
  <2>3. Rank(keep, i) \in 0..c /\ Rank(keep, i - 1) \in 0..c
    BY <2>1, <2>2
  <2>4. Rank(keep, i) = Rank(keep, i - 1) + 1
    BY <2>1, <2>2
  <2>5. c \in Nat
    BY <1>1, <1>3
  <2> HIDE DEF c
  <2> QED BY <2>3, <2>4, <2>5
<1>6. \A i, j \in keep : Rank(keep, i) = Rank(keep, j) => i = j
  <2> SUFFICES ASSUME NEW i \in keep, NEW j \in keep, i # j
               PROVE  Rank(keep, i) # Rank(keep, j)
    OBVIOUS
  <2>1. i \in 1..m /\ j \in 1..m
    BY <1>2
  <2>2. Rank(keep, i) \in 1..c /\ Rank(keep, j) \in 1..c
    BY <1>5
  <2>3. CASE i < j
    <3>1. Rank(keep, i) < Rank(keep, j)
      BY <1>1, <1>2, <2>3, RankIncreases
    <3> QED BY <3>1, <2>2
  <2>4. CASE j < i
    <3>1. Rank(keep, j) < Rank(keep, i)
      BY <1>1, <1>2, <2>4, RankIncreases
    <3> QED BY <3>1, <2>2
  <2> QED BY <1>1, <2>1, <2>3, <2>4
<1>7. R = [k \in 1..c |-> v[At(k)]]
  BY DEF Retain
<1> HIDE DEF R, At, c
<1>8. \A k \in 1..c : v[At(k)] \in S
  BY <1>1, <1>2, <1>4
<1>9. c \in Nat /\ c <= m
  BY <1>1, <1>3
<1>10. R \in [1..c -> S]
  BY <1>7, <1>8
<1>11. R \in Seq(S) /\ Len(R) = c /\ DOMAIN R = 1..c
  <2>1. R \in Seq(S)
    BY <1>9, <1>10, SeqDef
  <2>2. DOMAIN R = 1..c /\ DOMAIN R = 1..Len(R) /\ Len(R) \in Nat
    BY <1>7, <2>1, LenProperties
  <2> QED BY <1>9, <2>1, <2>2
<1>12. \A k \in 1..c : \E i \in keep : Rank(keep, i) = k /\ R[k] = v[i]
  BY <1>4, <1>7
<1>13. \A i \in keep : \E k \in 1..c : Rank(keep, i) = k /\ R[k] = v[i]
  <2> TAKE i \in keep
  <2>1. Rank(keep, i) \in 1..c
    BY <1>5
  <2>2. At(Rank(keep, i)) = i
    BY <1>4, <1>6, <2>1
  <2> QED BY <1>7, <2>1, <2>2
<1> QED BY <1>9, <1>11, <1>12, <1>13 DEF R, m

(* The vector after push_back().                                            *)
LEMMA PushBack ==
    ASSUME NEW S, NEW v \in Seq(S), NEW e \in S
    PROVE  /\ Append(v, e) \in Seq(S)
           /\ Len(Append(v, e)) = Len(v) + 1
           /\ DOMAIN Append(v, e) = DOMAIN v \cup {Len(v) + 1}
           /\ Append(v, e)[Len(v) + 1] = e
           /\ \A i \in DOMAIN v : Append(v, e)[i] = v[i]
  OBVIOUS
-----------------------------------------------------------------------------
(* IsPrefix, which stands for the comparison of the first characters in      *)
(* match(), position by position.                                            *)
LEMMA PrefixPointwise ==
    ASSUME NEW S, NEW p \in Seq(S), NEW s \in Seq(S)
    PROVE  IsPrefix(p, s) <=>
              Len(p) <= Len(s) /\ \A i \in 1..Len(p) : p[i] = s[i]
<1>1. Len(p) \in Nat /\ Len(s) \in Nat /\ DOMAIN p = 1..Len(p)
      /\ DOMAIN s = 1..Len(s)
  BY LenProperties
<1>2. SUFFICES ASSUME Len(p) <= Len(s)
               PROVE  SubSeq(p, 1, Len(p)) = SubSeq(s, 1, Len(p))
                         <=> \A i \in 1..Len(p) : p[i] = s[i]
  BY <1>1 DEF IsPrefix
<1>3. SubSeq(p, 1, Len(p)) = p
  BY SubSeqFull
<1> DEFINE t == SubSeq(s, 1, Len(p))
<1>4. \A i \in 1..Len(p) : s[i] \in S
  BY <1>1, <1>2, ElementOfSeq
<1>5. /\ t \in Seq(S)
      /\ Len(t) = Len(p)
      /\ \A i \in 1..Len(p) : t[i] = s[i]
  BY <1>1, <1>4, SubSeqProperties
<1> HIDE DEF t
<1>6. (\A i \in 1..Len(p) : p[i] = s[i]) => p = t
  BY <1>5, SeqEqual
<1> QED BY <1>3, <1>5, <1>6 DEF t

(* A prefix of a prefix is a prefix.                                         *)
LEMMA PrefixTransitive ==
    ASSUME NEW S, NEW p \in Seq(S), NEW q \in Seq(S), NEW s \in Seq(S),
           IsPrefix(p, q), IsPrefix(q, s)
    PROVE  IsPrefix(p, s)
<1>1. Len(p) \in Nat /\ Len(q) \in Nat /\ Len(s) \in Nat
  BY LenProperties
<1>2. Len(p) <= Len(q) /\ \A i \in 1..Len(p) : p[i] = q[i]
  BY PrefixPointwise
<1>3. Len(q) <= Len(s) /\ \A i \in 1..Len(q) : q[i] = s[i]
  BY PrefixPointwise
<1>4. Len(p) <= Len(s) /\ \A i \in 1..Len(p) : p[i] = s[i]
  BY <1>1, <1>2, <1>3
<1> QED BY <1>4, PrefixPointwise

(* Of two prefixes of one name the shorter is a prefix of the longer.        *)
LEMMA PrefixesNest ==
    ASSUME NEW S, NEW p \in Seq(S), NEW q \in Seq(S), NEW s \in Seq(S),
           IsPrefix(p, s), IsPrefix(q, s), Len(p) <= Len(q)
    PROVE  IsPrefix(p, q)
<1>1. Len(p) \in Nat /\ Len(q) \in Nat
  BY LenProperties
<1>2. \A i \in 1..Len(p) : p[i] = s[i]
  BY PrefixPointwise
<1>3. \A i \in 1..Len(q) : q[i] = s[i]
  BY PrefixPointwise
<1>4. \A i \in 1..Len(p) : p[i] = q[i]
  BY <1>1, <1>2, <1>3
<1> QED BY <1>4, PrefixPointwise

(* The first tokens of a name are a prefix of it.                            *)
LEMMA FirstTokens ==
    ASSUME NEW S, NEW s \in Seq(S), NEW k \in 0..Len(s)
    PROVE  SubSeq(s, 1, k) \in Seq(S) /\ IsPrefix(SubSeq(s, 1, k), s)
<1>1. Len(s) \in Nat /\ DOMAIN s = 1..Len(s)
  BY LenProperties
<1>2. k \in Int /\ k <= Len(s) /\ 0 <= k
  BY <1>1
<1>3. \A i \in 1..k : s[i] \in S
  BY <1>1, <1>2, ElementOfSeq
<1> DEFINE t == SubSeq(s, 1, k)
<1>4. /\ t \in Seq(S)
      /\ Len(t) = IF 1 <= k THEN k - 1 + 1 ELSE 0
      /\ \A i \in 1..(k - 1 + 1) : t[i] = s[1 + i - 1]
  BY <1>2, <1>3, SubSeqProperties
<1> HIDE DEF t
<1>5. Len(t) = k /\ \A i \in 1..k : t[i] = s[i]
  BY <1>2, <1>4
<1>6. IsPrefix(t, s)
  BY <1>2, <1>4, <1>5, PrefixPointwise
<1> QED BY <1>4, <1>6 DEF t
=============================================================================
