-------------------------------- MODULE Ranks --------------------------------
(*****************************************************************************)
(* Ranks: how far a command still is from its end.  A rank is four naturals, *)
(* compared as words are; what lowers a rank at every step comes to an end.  *)
(* The models define their own ranks and the proofs show their steps lower   *)
(* them, which is the half of each command's termination that needs no       *)
(* fairness.                                                                 *)
(*****************************************************************************)
EXTENDS Integers, FiniteSets, TLAPS, FiniteSetTheorems

RankSet == Nat \X Nat \X Nat \X Nat

Lower(s, r) ==
    \/ s[1] < r[1]
    \/ s[1] = r[1] /\ s[2] < r[2]
    \/ s[1] = r[1] /\ s[2] = r[2] /\ s[3] < r[3]
    \/ s[1] = r[1] /\ s[2] = r[2] /\ s[3] = r[3] /\ s[4] < r[4]

-----------------------------------------------------------------------------
LEMMA LessIsWellFounded == IsWellFoundedOn({p \in Nat \X Nat : p[1] < p[2]}, Nat)
BY NatLessThanWellFounded DEF OpToRel

LEMMA Least ==
  ASSUME NEW T \in SUBSET Nat, NEW n \in T
  PROVE  \E m \in T : \A k \in T : m <= k
<1>1. PICK m \in T : \A k \in T : <<k, m>> \notin {p \in Nat \X Nat : p[1] < p[2]}
  BY LessIsWellFounded, WFMin
<1>2. ASSUME NEW k \in T PROVE m <= k
  <2>1. <<k, m>> \in Nat \X Nat
    OBVIOUS
  <2>2. ~(k < m)
    BY <1>1, <2>1
  <2>3. QED
    BY <2>2
<1>3. QED
  BY <1>2

\* The members of T that are least in one component.
LeastOf(T, i) == {r \in T : \A s \in T : r[i] <= s[i]}

LEMMA LeastAt ==
  ASSUME NEW T \in SUBSET RankSet, T # {}, NEW i \in 1 .. 4
  PROVE  LeastOf(T, i) # {} /\ LeastOf(T, i) \in SUBSET RankSet
<1> DEFINE N == {r[i] : r \in T}
<1>1. \A r \in T : r[i] \in Nat
  BY DEF RankSet
<1>2. N \in SUBSET Nat /\ \E n : n \in N
  BY <1>1
<1>3. \E m \in N : \A k \in N : m <= k
  <2> HIDE DEF N
  <2>1. QED
    BY <1>2, Least
<1>4. QED
  BY <1>3 DEF LeastOf

\* Every set of ranks has a lowest one.
LEMMA LowerIsWellFounded ==
  ASSUME NEW T \in SUBSET RankSet, T # {}
  PROVE  \E m \in T : \A r \in T : ~Lower(r, m)
<1> DEFINE A == LeastOf(T, 1)
           B == LeastOf(A, 2)
           C == LeastOf(B, 3)
           D == LeastOf(C, 4)
<1>0. 1 \in 1 .. 4 /\ 2 \in 1 .. 4 /\ 3 \in 1 .. 4 /\ 4 \in 1 .. 4
  OBVIOUS
<1>4. D # {}
  <2>1. A # {} /\ A \in SUBSET RankSet
    BY <1>0, LeastAt
  <2> HIDE DEF A
  <2>2. B # {} /\ B \in SUBSET RankSet
    BY <1>0, <2>1, LeastAt
  <2> HIDE DEF B
  <2>3. C # {} /\ C \in SUBSET RankSet
    BY <1>0, <2>2, LeastAt
  <2> HIDE DEF C
  <2>4. QED
    BY <1>0, <2>3, LeastAt
<1>1. A \in SUBSET T /\ \A u \in A : \A r \in T : u[1] <= r[1]
  BY DEF LeastOf
<1>2. B \in SUBSET A /\ \A u \in B : \A r \in A : u[2] <= r[2]
  BY DEF LeastOf
<1>3. C \in SUBSET B /\ \A u \in C : \A r \in B : u[3] <= r[3]
  BY DEF LeastOf
<1>5. PICK m \in D : /\ m \in C /\ m \in RankSet
                     /\ \A r \in C : m[4] <= r[4]
  BY <1>1, <1>2, <1>3, <1>4 DEF LeastOf
<1>6. ASSUME NEW r \in T, Lower(r, m) PROVE FALSE
  <2>1. m \in A /\ m \in B /\ m \in C /\ m \in T
    BY <1>1, <1>2, <1>3, <1>5
  <2>2. /\ r[1] \in Nat /\ r[2] \in Nat /\ r[3] \in Nat /\ r[4] \in Nat
        /\ m[1] \in Nat /\ m[2] \in Nat /\ m[3] \in Nat /\ m[4] \in Nat
    BY <1>5 DEF RankSet
  <2>4. r[1] = m[1]
    BY <1>1, <1>6, <2>1, <2>2 DEF Lower
  <2>5. r \in A
    BY <2>1, <2>4 DEF LeastOf
  <2>6. r[2] = m[2]
    BY <1>2, <1>6, <2>1, <2>2, <2>4, <2>5 DEF Lower
  <2>7. r \in B
    BY <2>1, <2>5, <2>6 DEF LeastOf
  <2>8. r[3] = m[3]
    BY <1>3, <1>6, <2>1, <2>2, <2>4, <2>6, <2>7 DEF Lower
  <2>9. r \in C
    BY <2>1, <2>7, <2>8 DEF LeastOf
  <2>10. m[4] <= r[4]
    BY <1>5, <2>9
  <2>11. QED
    BY <1>6, <2>2, <2>4, <2>6, <2>8, <2>10 DEF Lower
<1>7. QED
  BY <1>5, <1>6, <1>1, <1>2, <1>3

\* No run lowers its rank for ever: what lowers it at every step stops.
THEOREM NothingLowersForEver ==
  ASSUME NEW rank \in [Nat -> RankSet]
  PROVE  \E n \in Nat : ~Lower(rank[n + 1], rank[n])
<1> DEFINE T == {rank[n] : n \in Nat}
<1>1. T \in SUBSET RankSet /\ T # {}
  OBVIOUS
<1>2. \E m \in T : \A r \in T : ~Lower(r, m)
  <2> HIDE DEF T
  <2>1. QED
    BY <1>1, LowerIsWellFounded
<1>3. PICK n \in Nat : \A r \in T : ~Lower(r, rank[n])
  BY <1>2
<1>4. rank[n + 1] \in T
  OBVIOUS
<1>5. QED
  BY <1>3, <1>4

\* A finite set that loses a member.
LEMMA Fewer ==
  ASSUME NEW S, IsFiniteSet(S), NEW T \in SUBSET S, NEW x \in S \ T
  PROVE  /\ IsFiniteSet(T) /\ Cardinality(S) \in Nat /\ Cardinality(T) \in Nat
         /\ Cardinality(T) < Cardinality(S)
<1>1. /\ IsFiniteSet(T) /\ Cardinality(T) <= Cardinality(S)
      /\ Cardinality(S) = Cardinality(T) => S = T
  BY FS_Subset
<1>2. Cardinality(S) \in Nat /\ Cardinality(T) \in Nat
  BY <1>1, FS_CardinalityType
<1>3. QED
  BY <1>1, <1>2

-----------------------------------------------------------------------------
(* Members of a set S that each go through the levels 0 .. K: what is ahead  *)
(* of them all.                                                              *)
Ahead(S, K, level) == {p \in S \X (0 .. K) : level[p[1]] < p[2]}

LEMMA AheadIsFinite ==
  ASSUME NEW S, IsFiniteSet(S), NEW K \in Nat, NEW f
  PROVE  IsFiniteSet(Ahead(S, K, f)) /\ Cardinality(Ahead(S, K, f)) \in Nat
<1>1. IsFiniteSet(0 .. K)
  BY FS_Interval
<1>2. IsFiniteSet(S \X (0 .. K))
  BY <1>1, FS_Product
<1>3. IsFiniteSet(Ahead(S, K, f))
  BY <1>2, FS_Subset DEF Ahead
<1>4. QED
  BY <1>3, FS_CardinalityType

\* One of them comes to a later level, and none to an earlier one.
LEMMA Advance ==
  ASSUME NEW S, IsFiniteSet(S), NEW K \in Nat,
         NEW f \in [S -> 0 .. K], NEW g \in [S -> 0 .. K],
         \A s \in S : f[s] <= g[s],
         NEW x \in S, f[x] < g[x]
  PROVE  Cardinality(Ahead(S, K, g)) < Cardinality(Ahead(S, K, f))
<1>1. Ahead(S, K, g) \subseteq Ahead(S, K, f)
  BY DEF Ahead
<1>2. <<x, g[x]>> \in Ahead(S, K, f) \ Ahead(S, K, g)
  BY DEF Ahead
<1>3. QED
  BY <1>1, <1>2, AheadIsFinite, Fewer
==============================================================================
