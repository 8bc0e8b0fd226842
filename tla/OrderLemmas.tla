----------------------------- MODULE OrderLemmas -----------------------------
(***************************************************************************)
(* Numbers and orders, for the proofs about lists that are kept in one.    *)
(***************************************************************************)
EXTENDS Integers, FunctionTheorems, FiniteSetTheorems, WellFoundedInduction, TLAPS

-----------------------------------------------------------------------------
(* Least and greatest.                                                     *)

\* A set of numbers that is not empty has a least.
LEMMA Least ==
  ASSUME NEW S \in SUBSET Nat, S # {}
  PROVE  \E least \in S : \A n \in S : least <= n
<1>1. PICK least \in S : \A n \in S : ~(<<n, least>> \in OpToRel(<, Nat))
  BY NatLessThanWellFounded, WFMin
<1>2. \A n \in S : ~(n < least)
  BY <1>1 DEF OpToRel
<1> QED BY <1>2

\* One of numbers up to a bound has a greatest.
LEMMA Greatest ==
  ASSUME NEW bound \in Nat, NEW S \in SUBSET (1 .. bound), S # {}
  PROVE  \E greatest \in S : \A n \in S : n <= greatest
<1> DEFINE mirrored == {bound - n : n \in S}
<1>1. mirrored \in SUBSET Nat /\ mirrored # {}
  <2>1. \A n \in S : bound - n \in Nat
    OBVIOUS
  <2> QED BY <2>1
<1>2. PICK least \in mirrored : \A n \in mirrored : least <= n
  BY <1>1, Least
<1>3. PICK greatest \in S : least = bound - greatest
  OBVIOUS
<1>4. \A n \in S : n <= greatest
  BY <1>2, <1>3
<1> QED BY <1>4

-----------------------------------------------------------------------------
(* Ranks.                                                                  *)

\* How many come before.
rankIn(S, before, p) == Cardinality({q \in S : <<q, p>> \in before})

\* Whatever orders the members of a finite set numbers them from 0, without a gap.
LEMMA Ranked ==
  ASSUME NEW S, IsFiniteSet(S), NEW before,
         \A p \in S : <<p, p>> \notin before,
         \A p, q, r \in S : <<p, q>> \in before /\ <<q, r>> \in before => <<p, r>> \in before,
         \A p, q \in S : p = q \/ <<p, q>> \in before \/ <<q, p>> \in before
  PROVE  /\ \A p, q \in S : <<p, q>> \in before <=> rankIn(S, before, p) < rankIn(S, before, q)
         /\ \A p \in S : rankIn(S, before, p) \in 0 .. Cardinality(S) - 1
         /\ \A n \in 0 .. Cardinality(S) - 1 : \E p \in S : rankIn(S, before, p) = n
<1> DEFINE earlier(p) == {q \in S : <<q, p>> \in before}
           rank == [p \in S |-> Cardinality(earlier(p))]
           N    == Cardinality(S)
<1>1. N \in Nat
  BY FS_CardinalityType
<1>2. ASSUME NEW p \in S
      PROVE  IsFiniteSet(earlier(p)) /\ rank[p] = Cardinality(earlier(p)) /\ rank[p] \in 0 .. N - 1
  <2>1. earlier(p) \in SUBSET (S \ {p}) /\ rank[p] = Cardinality(earlier(p))
    OBVIOUS
  <2>2. IsFiniteSet(S \ {p}) /\ Cardinality(S \ {p}) = N - 1
    BY FS_RemoveElement
  <2> HIDE DEF earlier, rank, N
  <2>3. IsFiniteSet(earlier(p)) /\ Cardinality(earlier(p)) <= N - 1
    BY <2>1, <2>2, FS_Subset
  <2>4. Cardinality(earlier(p)) \in Nat
    BY <2>3, FS_CardinalityType
  <2> QED BY <1>1, <2>1, <2>3, <2>4
<1>3. ASSUME NEW p \in S, NEW q \in S, <<p, q>> \in before
      PROVE  rank[p] < rank[q]
  <2>1. earlier(p) \in SUBSET earlier(q) /\ p \in earlier(q) /\ p \notin earlier(p)
    BY <1>3
  <2> HIDE DEF earlier, rank, N
  <2>2. /\ Cardinality(earlier(p)) <= Cardinality(earlier(q))
        /\ Cardinality(earlier(p)) # Cardinality(earlier(q))
    BY <1>2, <2>1, FS_Subset
  <2>3. rank[p] \in Int /\ rank[q] \in Int
    BY <1>2
  <2> QED BY <1>2, <2>2, <2>3
<1>4. /\ rank \in [S -> 0 .. N - 1]
      /\ \A p \in S : rank[p] = rankIn(S, before, p)
  <2>1. \A p \in S : rank[p] = rankIn(S, before, p)
    BY DEF rankIn
  <2>2. rank = [p \in S |-> rank[p]]
    OBVIOUS
  <2> HIDE DEF earlier, rank, N
  <2> QED BY <1>2, <2>1, <2>2
<1> HIDE DEF earlier, rank, N
<1>5. ASSUME NEW p \in S, NEW q \in S
      PROVE  /\ rank[p] \in Int /\ rank[q] \in Int
             /\ <<p, q>> \in before <=> rank[p] < rank[q]
             /\ rank[p] = rank[q] => p = q
  <2>1. rank[p] \in Int /\ rank[q] \in Int
    BY <1>2
  <2>2. p = q \/ rank[p] < rank[q] \/ rank[q] < rank[p]
    BY <1>3
  <2>3. rank[p] < rank[q] => <<p, q>> \in before
    <3>1. rank[p] < rank[q] => p # q /\ ~(rank[q] < rank[p])
      BY <2>1
    <3> QED BY <1>3, <3>1
  <2> QED BY <1>3, <2>1, <2>2, <2>3
<1>6. \A n \in 0 .. N - 1 : \E p \in S : rank[p] = n
  <2>1. rank \in Injection(S, 0 .. N - 1)
    BY <1>4, <1>5, Fun_IsInj
  <2>2. IsFiniteSet(0 .. N - 1) /\ Cardinality(0 .. N - 1) = N
    BY <1>1, FS_Interval
  <2>3. Cardinality(S) = N
    BY DEF N
  <2> DEFINE T == 0 .. N - 1
  <2>4. rank \in Injection(S, T) /\ IsFiniteSet(T) /\ Cardinality(S) = Cardinality(T)
    BY <2>1, <2>2, <2>3
  <2> HIDE DEF T
  <2>5. rank \in Surjection(S, T)
    BY <2>4, FS_Injection
  <2>6. \A n \in T : \E p \in S : rank[p] = n
    BY <2>5, Fun_SurjectionProperties
  <2> QED BY <2>6 DEF T
<1> QED BY <1>4, <1>5, <1>6 DEF N

\* A number is numbered by how many of its set are less.
LEMMA Counted ==
  ASSUME NEW S \in SUBSET Nat, IsFiniteSet(S)
  PROVE  /\ Cardinality(S) \in Nat
         /\ \A d, e \in S : d < e <=> Cardinality({f \in S : f < d}) < Cardinality({f \in S : f < e})
         /\ \A e \in S : Cardinality({f \in S : f < e}) \in 0 .. Cardinality(S) - 1
         /\ \A k \in 0 .. Cardinality(S) - 1 : \E e \in S : Cardinality({f \in S : f < e}) = k
<1> DEFINE before == {pair \in S \X S : pair[1] < pair[2]}
<1>1. \A d, e \in S : <<d, e>> \in before <=> d < e
  OBVIOUS
<1>2. \A e \in S : {f \in S : <<f, e>> \in before} = {f \in S : f < e}
  BY <1>1
<1>3. \A e \in S : rankIn(S, before, e) = Cardinality({f \in S : f < e})
  BY <1>2 DEF rankIn
<1>4. Cardinality(S) \in Nat
  BY FS_CardinalityType
<1>5. /\ \A p \in S : <<p, p>> \notin before
      /\ \A p, q, r \in S : <<p, q>> \in before /\ <<q, r>> \in before => <<p, r>> \in before
      /\ \A p, q \in S : p = q \/ <<p, q>> \in before \/ <<q, p>> \in before
  <2>1. \A p \in S : p \in Int
    OBVIOUS
  <2> HIDE DEF before
  <2> QED BY <1>1, <2>1
<1> HIDE DEF before
<1>6. /\ \A p, q \in S : <<p, q>> \in before <=> rankIn(S, before, p) < rankIn(S, before, q)
      /\ \A p \in S : rankIn(S, before, p) \in 0 .. Cardinality(S) - 1
      /\ \A n \in 0 .. Cardinality(S) - 1 : \E p \in S : rankIn(S, before, p) = n
  BY <1>5, Ranked
<1> DEFINE below(e) == Cardinality({f \in S : f < e})
<1>7. \A e \in S : rankIn(S, before, e) = below(e)
  BY <1>3
<1> HIDE DEF below
<1>8. \A d, e \in S : d < e <=> below(d) < below(e)
  <2> TAKE d, e \in S
  <2>1. <<d, e>> \in before <=> below(d) < below(e)
    BY <1>6, <1>7
  <2> QED BY <1>1, <2>1
<1>9. \A e \in S : below(e) \in 0 .. Cardinality(S) - 1
  BY <1>6, <1>7
<1>10. \A k \in 0 .. Cardinality(S) - 1 : \E e \in S : below(e) = k
  BY <1>6, <1>7
<1> QED BY <1>4, <1>8, <1>9, <1>10 DEF below
=============================================================================
