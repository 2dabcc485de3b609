----------------------------- MODULE DataLemmas -----------------------------
(***************************************************************************)
(* Lemmas about sequences and natural numbers that the proofs of several   *)
(* modules rest on.                                                        *)
(***************************************************************************)
EXTENDS Naturals, Sequences, FiniteSets, FiniteSetTheorems, WellFoundedInduction, TLAPS

LEMMA Appended ==
  ASSUME NEW S, NEW s \in Seq(S), NEW x \in S
  PROVE  /\ Append(s, x) \in Seq(S) /\ Len(Append(s, x)) = Len(s) + 1 /\ Len(s) \in Nat
         /\ DOMAIN s = 1..Len(s) /\ DOMAIN Append(s, x) = 1..(Len(s) + 1)
         /\ \A i \in 1..Len(s) : Append(s, x)[i] = s[i]
         /\ Append(s, x)[Len(s) + 1] = x
OBVIOUS

\* The element at i is x, and the others stay.
LEMMA ReplacedAt ==
  ASSUME NEW S, NEW s \in Seq(S), NEW i \in 1..Len(s), NEW x \in S,
         NEW new, new = [s EXCEPT ![i] = x]
  PROVE  /\ new \in Seq(S) /\ Len(new) = Len(s) /\ new[i] = x
         /\ \A k \in 1..Len(s) : k # i => new[k] = s[k]
OBVIOUS

\* The element at i is longer by x, and the others stay.
LEMMA AppendedAt ==
  ASSUME NEW S, NEW ss \in Seq(Seq(S)), NEW i \in 1..Len(ss), NEW x \in S,
         NEW new, new = [ss EXCEPT ![i] = Append(@, x)]
  PROVE  /\ new \in Seq(Seq(S)) /\ Len(new) = Len(ss)
         /\ Len(new[i]) = Len(ss[i]) + 1 /\ new[i][Len(ss[i]) + 1] = x
         /\ \A j \in 1..Len(ss[i]) : new[i][j] = ss[i][j]
         /\ \A k \in 1..Len(ss) : k # i => new[k] = ss[k]
         /\ \A k \in 1..Len(ss) : Len(ss[k]) \in Nat
<1>1. ss[i] \in Seq(S) /\ Append(ss[i], x) \in Seq(S)
  OBVIOUS
<1>2. /\ new \in Seq(Seq(S)) /\ Len(new) = Len(ss) /\ new[i] = Append(ss[i], x)
      /\ \A k \in 1..Len(ss) : k # i => new[k] = ss[k]
  BY <1>1
<1>3. \A k \in 1..Len(ss) : Len(ss[k]) \in Nat
  OBVIOUS
<1> QED BY <1>1, <1>2, <1>3, Appended

\* A set of natural numbers has a least one.
LEMMA Least ==
  ASSUME NEW S \in SUBSET Nat, S # {}
  PROVE  \E m \in S : \A n \in S : m <= n
<1> DEFINE R == OpToRel(<, Nat)
<1>1. \A x, y \in Nat : x < y => <<x, y>> \in R
  BY Zenon DEF OpToRel
<1>2. IsWellFoundedOn(R, Nat)
  BY NatLessThanWellFounded, Zenon
<1> HIDE DEF R
<1>3. PICK x \in S : \A y \in S : ~ (<<y, x>> \in R)
  BY <1>2, WFMin
<1>4. \A y \in S : ~(y < x)
  BY <1>1, <1>3
<1> QED BY <1>4

\* Induction over the natural numbers, said of the set of those it holds for.
LEMMA SetInduction ==
  ASSUME NEW S \in SUBSET Nat, 0 \in S, \A n \in S : n + 1 \in S
  PROVE  S = Nat
<1> SUFFICES ASSUME Nat \ S # {} PROVE FALSE
  OBVIOUS
<1>1. PICK m \in Nat \ S : \A n \in Nat \ S : m <= n
  BY Least
<1>2. m # 0 /\ m - 1 \in Nat /\ m - 1 \in S
  BY <1>1
<1> QED BY <1>1, <1>2

\* A set of natural numbers with a bound has a greatest one.
LEMMA Greatest ==
  ASSUME NEW b \in Nat, NEW S \in SUBSET (0..b), S # {}
  PROVE  \E m \in S : \A n \in S : n <= m
<1> DEFINE D == {n \in Nat : n <= b /\ b - n \in S}
<1>1. D \in SUBSET Nat /\ D # {}
  <2>1. PICK s \in S : TRUE
    OBVIOUS
  <2>2. b - s \in Nat /\ b - s <= b /\ b - (b - s) = s
    BY <2>1
  <2> QED BY <2>2
<1>2. PICK d \in D : \A n \in D : d <= n
  BY <1>1, Least
<1>3. \A n \in S : b - n \in D
  OBVIOUS
<1>4. b - d \in S /\ \A n \in S : d <= b - n
  BY <1>2, <1>3
<1>5. \A n \in S : n <= b - d
  BY <1>2, <1>4
<1> QED BY <1>4, <1>5

\* A part of 1..n is finite, and one number more makes it larger by one.
LEMMA PartOfInterval ==
  ASSUME NEW n \in Nat, NEW S \in SUBSET (1..n)
  PROVE  /\ IsFiniteSet(S) /\ Cardinality(S) \in Nat
         /\ n + 1 \notin S /\ Cardinality(S \cup {n + 1}) = Cardinality(S) + 1
<1>1. IsFiniteSet(1..n)
  BY FS_Interval
<1>2. IsFiniteSet(S)
  BY <1>1, FS_Subset
<1>3. n + 1 \notin S
  OBVIOUS
<1> QED BY <1>2, <1>3, FS_CardinalityType, FS_AddElement
=============================================================================
