---------------------------- MODULE OrderProofs ----------------------------
(***************************************************************************)
(* Least and greatest elements, which the proofs about lock orders and     *)
(* about the bundles of a day need: a set of natural numbers has a least   *)
(* element, a finite set has one of greatest rank.                         *)
(***************************************************************************)
EXTENDS Integers, FiniteSets, FiniteSetTheorems, WellFoundedInduction, TLAPS

NatLess == {p \in Nat \X Nat : p[1] < p[2]}

\* The natural numbers are well-ordered.
LEMMA LeastNat ==
  ASSUME NEW T, T \subseteq Nat, T # {}
  PROVE  \E x \in T : \A y \in T : x <= y
  <1>1. IsWellFoundedOn(NatLess, Nat)
    BY NatLessThanWellFounded DEF OpToRel, NatLess
  <1>2. PICK x \in T : \A y \in T : ~(<<y, x>> \in NatLess)
    BY <1>1, WFMin
  <1>3. \A y \in T : x <= y
    <2> SUFFICES ASSUME NEW y \in T PROVE x <= y
      OBVIOUS
    <2>1. x \in Nat /\ y \in Nat
      OBVIOUS
    <2>2. ~(y < x)
      BY <1>2, <2>1 DEF NatLess
    <2> QED BY <2>1, <2>2
  <1> QED BY <1>3

\* A finite set has an element of greatest rank: a smallest set without one
\* would, less any element, be a smaller one.
LEMMA GreatestRank ==
  ASSUME NEW S, IsFiniteSet(S), S # {}, NEW rank \in [S -> Nat]
  PROVE  \E x \in S : \A y \in S : rank[y] <= rank[x]
  <1> DEFINE Topped(T) == \E x \in T : \A y \in T : rank[y] <= rank[x]
             Bad == {T \in SUBSET S : T # {} /\ ~Topped(T)}
             Sizes == {Cardinality(T) : T \in Bad}
  <1>0. \A T \in SUBSET S : IsFiniteSet(T) /\ Cardinality(T) \in Nat
    BY FS_Subset, FS_CardinalityType
  <1>1. ASSUME Bad # {} PROVE FALSE
    <2>1. Sizes \subseteq Nat /\ Sizes # {}
      BY <1>0, <1>1
    <2>2. PICK n \in Sizes : \A m \in Sizes : n <= m
      BY <2>1, LeastNat
    <2>3. PICK T \in Bad : n = Cardinality(T)
      OBVIOUS
    <2>4. T \in SUBSET S /\ T # {} /\ ~Topped(T)
      OBVIOUS
    <2>5. PICK a \in T : TRUE
      BY <2>4
    <2> DEFINE U == T \ {a}
    <2>6. Cardinality(U) = n - 1 /\ U \in SUBSET S /\ n \in Nat
      BY <1>0, <2>3, <2>4, <2>5, FS_RemoveElement
    <2>7. U \notin Bad
      <3> SUFFICES ASSUME U \in Bad PROVE FALSE
        OBVIOUS
      <3>1. Cardinality(U) \in Sizes
        OBVIOUS
      <3>2. n <= Cardinality(U)
        <4> HIDE DEF Sizes, U
        <4> QED BY <2>2, <3>1
      <3>3. n <= n - 1 /\ n \in Int
        <4> HIDE DEF U
        <4> QED BY <2>6, <3>2
      <3> QED BY ONLY <3>3
    <2>8. CASE U = {}
      <3>1. T = {a} /\ rank[a] \in Nat
        BY <2>4, <2>5, <2>8
      <3> QED BY <2>4, <3>1
    <2>9. CASE U # {}
      <3>1. PICK b \in U : \A y \in U : rank[y] <= rank[b]
        BY <2>6, <2>7, <2>9
      <3>2. /\ a \in S /\ b \in T /\ rank[a] \in Nat /\ rank[b] \in Nat
            /\ \A y \in T : y = a \/ y \in U
            /\ \A y \in T : rank[y] \in Nat
        BY <2>4, <2>5
      <3>3. CASE rank[a] <= rank[b]
        <4>1. \A y \in T : rank[y] <= rank[b]
          BY <3>1, <3>2, <3>3
        <4> QED BY <2>4, <3>2, <4>1
      <3>4. CASE ~(rank[a] <= rank[b])
        <4>1. \A y \in T : rank[y] <= rank[a]
          BY <3>1, <3>2, <3>4
        <4> QED BY <2>4, <2>5, <4>1
      <3> QED BY <3>3, <3>4
    <2> QED BY <2>8, <2>9
  <1> QED BY <1>1

\* Of sessions that each want a lock there is one that wants the last in the
\* order of ranks and, within a rank, of identifiers.
LEMMA LastInOrder ==
  ASSUME NEW D, IsFiniteSet(D), D # {}, NEW rank \in [D -> Nat], NEW id \in [D -> Nat]
  PROVE  \E s \in D : \A t \in D : \/ rank[t] < rank[s]
                                   \/ rank[t] = rank[s] /\ id[t] <= id[s]
  <1>1. PICK r \in D : \A t \in D : rank[t] <= rank[r]
    BY GreatestRank
  <1> DEFINE E == {t \in D : rank[t] = rank[r]}
             f == [t \in E |-> id[t]]
  <1>2. IsFiniteSet(E) /\ E # {} /\ f \in [E -> Nat]
    BY FS_Subset
  <1>3. PICK s \in E : \A t \in E : f[t] <= f[s]
    <2> HIDE DEF E, f
    <2> QED BY <1>2, GreatestRank
  <1>4. ASSUME NEW t \in D
        PROVE  rank[t] < rank[s] \/ (rank[t] = rank[s] /\ id[t] <= id[s])
    <2>1. rank[t] \in Nat /\ rank[r] \in Nat /\ rank[t] <= rank[r] /\ rank[s] = rank[r]
      BY <1>1
    <2>2. CASE rank[t] = rank[r]
      BY <1>3, <2>1, <2>2
    <2>3. CASE rank[t] # rank[r]
      BY <2>1, <2>3
    <2> QED BY <2>2, <2>3
  <1> QED BY <1>4
=============================================================================
