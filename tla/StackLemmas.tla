---------------------------- MODULE StackLemmas ----------------------------
(***************************************************************************)
(* Facts about sequences, natural numbers and counting that the proofs of  *)
(* several components cite.                                                *)
(***************************************************************************)
EXTENDS Integers, Sequences, SequenceTheorems, FiniteSetTheorems, WellFoundedInduction, TLAPS

(* A set of natural numbers that is not empty has a least member. *)
LEMMA LeastMember ==
  ASSUME NEW N, N \subseteq Nat, N # {}
  PROVE  \E i \in N : \A j \in N : i <= j
<1> DEFINE R == OpToRel(<, Nat)
<1>1. IsWellFoundedOn(R, Nat)
  BY NatLessThanWellFounded
<1>2. \A i, j \in Nat : j < i => <<j, i>> \in R
  BY DEF OpToRel
<1> HIDE DEF R
<1>3. PICK i \in N : \A j \in N : ~ <<j, i>> \in R
  BY <1>1, WFMin
<1>4. ASSUME NEW j \in N PROVE i <= j
  <2>1. i \in Nat /\ j \in Nat /\ ~ (<<j, i>> \in R)
    BY <1>3
  <2>2. ~ (j < i)
    BY <2>1, <1>2
  <2> QED
    BY <2>1, <2>2
<1> QED
  BY <1>4

(* A set of natural numbers that is bounded has a greatest member. *)
LEMMA GreatestMember ==
  ASSUME NEW n \in Nat, NEW N, N \subseteq 0..n, N # {}
  PROVE  \E i \in N : \A j \in N : j <= i
<1> DEFINE M == {n - i : i \in N}
<1>0. \A i \in N : i \in Nat /\ i <= n
  OBVIOUS
<1>1. M \subseteq Nat /\ M # {}
  <2>1. \A i \in N : n - i \in Nat
    BY <1>0
  <2>2. PICK i \in N : TRUE
    OBVIOUS
  <2>3. n - i \in M
    OBVIOUS
  <2> QED
    BY <2>1, <2>3
<1> HIDE DEF M
<1>2. PICK m \in M : \A k \in M : m <= k
  BY <1>1, LeastMember
<1>3. PICK i \in N : m = n - i
  BY DEF M
<1>4. ASSUME NEW j \in N PROVE j <= i
  <2>1. n - j \in M
    BY DEF M
  <2>2. n - i <= n - j
    BY <1>2, <1>3, <2>1
  <2>3. i \in Nat /\ j \in Nat
    BY <1>0
  <2> QED
    BY <2>2, <2>3
<1> QED
  BY <1>4

(* The length and the indices of SubSeqProperties, for a prefix. *)
LEMMA PrefixArithmetic ==
  ASSUME NEW l \in Nat, l # 0
  PROVE  /\ l - 1 \in Int
         /\ (IF 1 <= l - 1 THEN l - 1 - 1 + 1 ELSE 0) = l - 1
         /\ 1..(l - 1 - 1 + 1) = 1..(l - 1)
         /\ \A i \in 1..(l - 1) : 1 + i - 1 = i
  OBVIOUS

(* What push_back does to a sequence. *)
LEMMA OneMore ==
  ASSUME NEW S, NEW s \in Seq(S), NEW e \in S
  PROVE  /\ Append(s, e) \in Seq(S)
         /\ Len(Append(s, e)) = Len(s) + 1
         /\ \A m \in 1..Len(s) : Append(s, e)[m] = s[m]
         /\ Append(s, e)[Len(s) + 1] = e
  OBVIOUS

(* What pop_back leaves of a sequence. *)
LEMMA ButLast ==
  ASSUME NEW S, NEW s \in Seq(S), s # <<>>
  PROVE  /\ Len(SubSeq(s, 1, Len(s) - 1)) = Len(s) - 1
         /\ \A m \in 1..(Len(s) - 1) : SubSeq(s, 1, Len(s) - 1)[m] = s[m]
         /\ \A T : (\A m \in 1..(Len(s) - 1) : s[m] \in T) => SubSeq(s, 1, Len(s) - 1) \in Seq(T)
<1>1. Len(s) \in Nat /\ Len(s) # 0
  OBVIOUS
<1>2. Len(s) - 1 \in Int /\ 1 \in Int
  BY <1>1, PrefixArithmetic
<1>3. \A i \in 1..(Len(s) - 1) : s[i] \in S
  BY <1>1
<1>4. /\ Len(SubSeq(s, 1, Len(s) - 1)) =
           (IF 1 <= Len(s) - 1 THEN Len(s) - 1 - 1 + 1 ELSE 0)
      /\ \A i \in 1..(Len(s) - 1 - 1 + 1) : SubSeq(s, 1, Len(s) - 1)[i] = s[1 + i - 1]
  BY <1>2, <1>3, SubSeqProperties
<1>5. /\ (IF 1 <= Len(s) - 1 THEN Len(s) - 1 - 1 + 1 ELSE 0) = Len(s) - 1
      /\ 1..(Len(s) - 1 - 1 + 1) = 1..(Len(s) - 1)
      /\ \A i \in 1..(Len(s) - 1) : 1 + i - 1 = i
  BY <1>1, PrefixArithmetic, Zenon
<1> DEFINE l == IF 1 <= Len(s) - 1 THEN Len(s) - 1 - 1 + 1 ELSE 0
<1>6. Len(SubSeq(s, 1, Len(s) - 1)) = l /\ l = Len(s) - 1
  BY <1>4, <1>5
<1> HIDE DEF l
<1>7. Len(SubSeq(s, 1, Len(s) - 1)) = Len(s) - 1
  BY <1>6, Zenon
<1>8. ASSUME NEW m \in 1..(Len(s) - 1) PROVE SubSeq(s, 1, Len(s) - 1)[m] = s[m]
  <2>1. m \in 1..(Len(s) - 1 - 1 + 1)
    BY <1>5, Zenon
  <2>2. SubSeq(s, 1, Len(s) - 1)[m] = s[1 + m - 1]
    BY <1>4, <2>1, Zenon
  <2>3. 1 + m - 1 = m
    BY <1>5, Zenon
  <2> QED
    BY <2>2, <2>3
<1>9. ASSUME NEW T, \A m \in 1..(Len(s) - 1) : s[m] \in T
      PROVE  SubSeq(s, 1, Len(s) - 1) \in Seq(T)
  BY <1>2, <1>9, SubSeqProperties
<1> QED
  BY <1>7, <1>8, <1>9, Zenon
-----------------------------------------------------------------------------
(* The places of D whose contents f are v. *)
PlacesOf(D, f, v) == {d \in D : f[d] = v}

(* One if the contents of a place are v. *)
Bit(contents, v) == IF contents = v THEN 1 ELSE 0

LEMMA PlacesFinite ==
  ASSUME NEW D, IsFiniteSet(D), NEW f, NEW v
  PROVE  /\ IsFiniteSet(PlacesOf(D, f, v))
         /\ Cardinality(PlacesOf(D, f, v)) \in Nat
  BY FS_Subset, FS_CardinalityType DEF PlacesOf

LEMMA NoPlaces ==
  ASSUME NEW D, IsFiniteSet(D), NEW f, NEW v
  PROVE  Cardinality(PlacesOf(D, f, v)) = 0 <=> \A d \in D : f[d] # v
<1>1. IsFiniteSet(PlacesOf(D, f, v))
  BY PlacesFinite
<1>2. Cardinality(PlacesOf(D, f, v)) = 0 <=> PlacesOf(D, f, v) = {}
  BY <1>1, FS_EmptySet
<1> QED
  BY <1>2 DEF PlacesOf

(* Going from contents f to g takes one from the count of the old contents *)
(* of place d and adds one to the count of the new ones.                   *)
CountMoves(D, f, g, d, v) ==
  Cardinality(PlacesOf(D, g, v)) = Cardinality(PlacesOf(D, f, v)) - Bit(f[d], v) + Bit(g[d], v)

LEMMA PlacesChange ==
  ASSUME NEW D, IsFiniteSet(D), NEW f, NEW g, NEW d \in D, NEW v,
         \A e \in D : e # d => g[e] = f[e]
  PROVE  CountMoves(D, f, g, d, v)
<1> DEFINE A == PlacesOf(D, f, v)
           B == PlacesOf(D, g, v)
<1>1. IsFiniteSet(A) /\ Cardinality(A) \in Nat
  BY PlacesFinite
<1>2. f[d] = v /\ g[d] = v => A = B
  BY DEF PlacesOf
<1>3. f[d] = v /\ g[d] # v => B = A \ {d} /\ d \in A
  BY DEF PlacesOf
<1>4. f[d] # v /\ g[d] = v => B = A \union {d} /\ d \notin A
  BY DEF PlacesOf
<1>5. f[d] # v /\ g[d] # v => A = B
  BY DEF PlacesOf
<1> HIDE DEF A, B
<1>6. d \in A => Cardinality(A \ {d}) = Cardinality(A) - 1
  BY <1>1, FS_RemoveElement
<1>7. d \notin A => Cardinality(A \union {d}) = Cardinality(A) + 1
  BY <1>1, FS_AddElement
<1>8. /\ f[d] = v /\ g[d] = v => Cardinality(B) = Cardinality(A)
      /\ f[d] = v /\ g[d] # v => Cardinality(B) = Cardinality(A) - 1
      /\ f[d] # v /\ g[d] = v => Cardinality(B) = Cardinality(A) + 1
      /\ f[d] # v /\ g[d] # v => Cardinality(B) = Cardinality(A)
  BY <1>2, <1>3, <1>4, <1>5, <1>6, <1>7, Zenon
<1>9. Cardinality(B) = Cardinality(A) - Bit(f[d], v) + Bit(g[d], v)
  BY <1>1, <1>8 DEF Bit
<1> QED
  BY <1>9 DEF A, B, CountMoves

(* Counting two sets without common members. *)
LEMMA CountDisjoint ==
  ASSUME NEW A, NEW B, IsFiniteSet(A), IsFiniteSet(B), A \intersect B = {}
  PROVE  /\ IsFiniteSet(A \union B)
         /\ Cardinality(A \union B) = Cardinality(A) + Cardinality(B)
         /\ Cardinality(A) \in Nat /\ Cardinality(B) \in Nat
<1>1. Cardinality(A) \in Nat /\ Cardinality(B) \in Nat /\ Cardinality(A \intersect B) = 0
  BY FS_CardinalityType, FS_EmptySet
<1>2. /\ IsFiniteSet(A \union B)
      /\ Cardinality(A \union B) = Cardinality(A) + Cardinality(B) - Cardinality(A \intersect B)
  BY FS_Union
<1> QED
  BY <1>1, <1>2

(* A set and its image under a map that separates its members. *)
LEMMA CountImage ==
  ASSUME NEW A, NEW B, IsFiniteSet(A), NEW f,
         f \in [A -> B], \A b \in B : \E a \in A : f[a] = b,
         \A a1, a2 \in A : f[a1] = f[a2] => a1 = a2
  PROVE  IsFiniteSet(B) /\ Cardinality(B) = Cardinality(A)
<1>1. f \in Injection(A, B)
  BY DEF Injection, IsInjective
<1>2. f \in Surjection(A, B)
  BY DEF Surjection
<1> QED
  BY <1>1, <1>2, FS_Surjection
(* A sequence whose members are in T. *)
LEMMA SeqOfMembers ==
  ASSUME NEW S, NEW T, NEW s \in Seq(S), \A i \in 1..Len(s) : s[i] \in T
  PROVE  s \in Seq(T)
<1>1. Len(s) \in Nat /\ s \in [1..Len(s) -> S]
  OBVIOUS
<1>2. s \in [1..Len(s) -> T]
  BY <1>1
<1> QED
  BY <1>1, <1>2
=============================================================================
