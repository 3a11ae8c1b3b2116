--------------------------- MODULE InOrderProofs ---------------------------
(***************************************************************************)
(* What the proofs of the components need of numbers, finite sets of them, *)
(* the sequences of module InOrder (each lists a set once, increasing, is  *)
(* the only one that does, and a set split at a number gives two of them   *)
(* one after the other), of what is picked from a sequence (of what was    *)
(* picked before, of two sequences one after the other, through a          *)
(* function), and of flattened sequences.                                  *)
(***************************************************************************)
EXTENDS InOrder, SequencesExt, FunctionTheorems, FiniteSetTheorems, WellFoundedInduction, SequenceTheorems, TLAPS

\* Bounded sets of numbers have a greatest element: the one with the fewest
\* elements above it.
LEMMA Greatest ==
    ASSUME NEW n \in Nat, NEW X, X \subseteq 1..n, X # {}
    PROVE  \E k \in X : \A j \in X : j <= k
  <1> DEFINE Above(k) == {j \in X : j > k}
             Family == {Above(k) : k \in X}
  <1>1. IsFiniteSet(X)
    <2>1. IsFiniteSet(1..n)
      BY FS_Interval
    <2> QED BY <2>1, FS_Subset
  <1>2. IsWellFoundedOn(StrictSubsetOrdering(X), SUBSET X)
    BY <1>1, FS_StrictSubsetOrderingWellFounded, FS_FiniteSubsetsOfFinite
  <1>3. Family \subseteq SUBSET X /\ Family # {}
    OBVIOUS
  <1> HIDE DEF Family
  <1>4. PICK A \in Family : \A B \in Family : ~ (<<B, A>> \in StrictSubsetOrdering(X))
    BY <1>2, <1>3, WFMin
  <1>5. PICK k \in X : A = Above(k)
    BY <1>4 DEF Family
  <1>6. ASSUME NEW j \in X, j > k PROVE FALSE
    <2>1. Above(j) \in Family
      BY DEF Family
    <2>2. Above(j) \subseteq Above(k) /\ j \in Above(k) /\ j \notin Above(j)
      <3>1. \A i \in X : i \in Nat
        OBVIOUS
      <3>2. \A i \in X : i > j => i > k
        BY <1>6, <3>1
      <3>3. Above(j) \subseteq Above(k)
        BY <3>2
      <3>4. j \in Above(k)
        BY <1>6
      <3>5. ~(j > j)
        BY <3>1
      <3>6. j \notin Above(j)
        BY <3>5
      <3> QED BY <3>3, <3>4, <3>6
    <2>3. <<Above(j), A>> \in StrictSubsetOrdering(X)
      BY <1>5, <2>2 DEF StrictSubsetOrdering
    <2> QED BY <1>4, <2>1, <2>3
  <1>7. \A j \in X : j <= k
    BY <1>6
  <1> QED
    BY <1>7

\* They have a least one too.
LEMMA Least ==
    ASSUME NEW n \in Nat, NEW X, X \subseteq 1..n, X # {}
    PROVE  \E k \in X : \A j \in X : k <= j
  <1> DEFINE Y == {(n + 1) - k : k \in X}
  <1>1. Y \subseteq 1..n /\ Y # {}
    <2>1. \A k \in X : (n + 1) - k \in 1..n
      OBVIOUS
    <2> QED BY <2>1
  <1>2. \A k \in X : (n + 1) - k \in Y
    OBVIOUS
  <1>3. \A y \in Y : \E k \in X : y = (n + 1) - k
    OBVIOUS
  <1> HIDE DEF Y
  <1>4. PICK y \in Y : \A z \in Y : z <= y
    BY <1>1, Greatest
  <1>5. PICK k \in X : y = (n + 1) - k
    BY <1>3
  <1>6. ASSUME NEW j \in X PROVE k <= j
    <2>1. (n + 1) - j <= (n + 1) - k
      BY <1>2, <1>4, <1>5
    <2> QED BY <2>1
  <1> QED BY <1>6

\* Induction over the numbers, of what a set holds.
LEMMA Induction ==
    ASSUME NEW X, 0 \in X, \A n \in Nat : n \in X => n + 1 \in X
    PROVE  Nat \subseteq X
  <1>1. SUFFICES ASSUME Nat \ X # {} PROVE FALSE
    OBVIOUS
  <1>2. IsWellFoundedOn(OpToRel(<, Nat), Nat)
    BY NatLessThanWellFounded
  <1>3. PICK k \in Nat \ X : \A j \in Nat \ X : ~(<<j, k>> \in OpToRel(<, Nat))
    BY <1>1, <1>2, WFMin
  <1>4. k # 0 /\ k \in Nat
    OBVIOUS
  <1>5. k - 1 \in Nat \ X /\ k - 1 < k
    BY <1>4
  <1>6. <<k - 1, k>> \in OpToRel(<, Nat)
    BY <1>4, <1>5 DEF OpToRel
  <1> QED
    BY <1>3, <1>5, <1>6

----------------------------------------------------------------------------
(* How many numbers of a set are up to one of them. *)

LEMMA FiniteRange ==
    ASSUME NEW n \in Nat, NEW S, S \subseteq 1..n
    PROVE  IsFiniteSet(S) /\ Cardinality(S) \in Nat
  <1>1. IsFiniteSet(1..n)
    BY FS_Interval
  <1>2. IsFiniteSet(S)
    BY <1>1, FS_Subset
  <1> QED
    BY <1>2, FS_CardinalityType

LEMMA FinitePart ==
    ASSUME NEW S, IsFiniteSet(S), S \subseteq Nat, NEW k
    PROVE  /\ UpTo(S, k) \subseteq S /\ IsFiniteSet(UpTo(S, k))
           /\ Cardinality(UpTo(S, k)) \in 0..Cardinality(S)
           /\ Cardinality(S) \in Nat
  <1>1. UpTo(S, k) \subseteq S
    BY DEF UpTo
  <1>2. IsFiniteSet(UpTo(S, k)) /\ Cardinality(UpTo(S, k)) <= Cardinality(S)
    BY <1>1, FS_Subset
  <1> QED
    BY <1>1, <1>2, FS_CardinalityType

LEMMA RankGrows ==
    ASSUME NEW S, IsFiniteSet(S), S \subseteq Nat, NEW k \in S, NEW l \in S, k < l
    PROVE  Cardinality(UpTo(S, k)) < Cardinality(UpTo(S, l))
  <1>0. \A j \in S : j \in Nat
    OBVIOUS
  <1>1. ASSUME NEW j \in UpTo(S, k) PROVE j \in UpTo(S, l)
    <2>1. j \in S /\ j <= k
      BY DEF UpTo
    <2>2. j \in Nat /\ k \in Nat /\ l \in Nat
      BY <1>0, <2>1
    <2>3. j <= l
      BY <2>1, <2>2
    <2> QED BY <2>1, <2>3 DEF UpTo
  <1>2. l \in UpTo(S, l) /\ l \notin UpTo(S, k)
    BY <1>0 DEF UpTo
  <1>3. /\ Cardinality(UpTo(S, k)) <= Cardinality(UpTo(S, l))
        /\ Cardinality(UpTo(S, k)) # Cardinality(UpTo(S, l))
    BY <1>1, <1>2, FinitePart, FS_Subset
  <1>4. Cardinality(UpTo(S, k)) \in Nat /\ Cardinality(UpTo(S, l)) \in Nat
    BY FinitePart, FS_CardinalityType
  <1> QED
    BY <1>3, <1>4

\* Each number has a place, the next one has a later place.
LEMMA Ranks ==
    ASSUME NEW S, IsFiniteSet(S), S \subseteq Nat
    PROVE  /\ \A k \in S : Cardinality(UpTo(S, k)) \in 1..Cardinality(S)
           /\ \A k, l \in S : Cardinality(UpTo(S, k)) = Cardinality(UpTo(S, l)) => k = l
           /\ \A i \in 1..Cardinality(S) : \E k \in S : Cardinality(UpTo(S, k)) = i
  <1> DEFINE rank == [k \in S |-> Cardinality(UpTo(S, k))]
             n == Cardinality(S)
  <1>1. n \in Nat
    BY FS_CardinalityType
  <1>2. ASSUME NEW k \in S PROVE Cardinality(UpTo(S, k)) \in 1..n
    <2>1. k \in UpTo(S, k)
      BY DEF UpTo
    <2>2. Cardinality(UpTo(S, k)) # 0
      BY <2>1, FinitePart, FS_EmptySet
    <2>3. Cardinality(UpTo(S, k)) \in 0..n
      BY FinitePart
    <2> QED BY <1>1, <2>2, <2>3
  <1>3. ASSUME NEW k \in S, NEW l \in S, Cardinality(UpTo(S, k)) = Cardinality(UpTo(S, l))
        PROVE  k = l
    <2>0. Cardinality(UpTo(S, k)) \in 1..n
      BY <1>2
    <2>1. /\ ~(Cardinality(UpTo(S, k)) < Cardinality(UpTo(S, l)))
          /\ ~(Cardinality(UpTo(S, l)) < Cardinality(UpTo(S, k)))
      BY <1>1, <1>3, <2>0
    <2>3. ~(k < l) /\ ~(l < k)
      BY <2>1, RankGrows
    <2>2. k \in Nat /\ l \in Nat
      OBVIOUS
    <2> QED BY <2>2, <2>3
  <1>4. rank \in Injection(S, 1..n)
    BY <1>2, <1>3, Fun_IsInj
  <1>5. IsFiniteSet(1..n) /\ Cardinality(1..n) = n
    BY <1>1, FS_Interval
  <1>6. rank \in Surjection(S, 1..n)
    BY <1>4, <1>5, FS_Injection
  <1> HIDE DEF rank
  <1>7. \A i \in 1..n : \E k \in S : rank[k] = i
    BY <1>6, Fun_SurjectionProperties
  <1> QED
    BY <1>2, <1>3, <1>7 DEF rank

\* Every number of the set once, in increasing order.
Increases(w) == \A i, j \in DOMAIN w : i < j => w[i] < w[j]
Covers(w, S) == \A k \in S : \E i \in DOMAIN w : w[i] = k

LEMMA InOrderProperties ==
    ASSUME NEW S, IsFiniteSet(S), S \subseteq Nat
    PROVE  /\ InOrder(S) \in [1..Cardinality(S) -> S]
           /\ InOrder(S) \in Seq(S) /\ Len(InOrder(S)) = Cardinality(S)
           /\ Increases(InOrder(S)) /\ Covers(InOrder(S), S)
  <1> DEFINE w == InOrder(S)
             n == Cardinality(S)
             Rank(k) == Cardinality(UpTo(S, k))
  <1>1. n \in Nat
    BY FS_CardinalityType
  <1>2. DOMAIN w = 1..n /\ \A i \in 1..n : w[i] = CHOOSE k \in S : Rank(k) = i
    BY DEF InOrder
  <1>3. /\ \A k \in S : Rank(k) \in 1..n
        /\ \A k, l \in S : Rank(k) = Rank(l) => k = l
        /\ \A i \in 1..n : \E k \in S : Rank(k) = i
    BY Ranks
  <1>4. \A k, l \in S : k < l => Rank(k) < Rank(l)
    BY RankGrows
  <1> HIDE DEF Rank, n
  <1>5. \A i \in 1..n : w[i] \in S /\ Rank(w[i]) = i
    BY <1>2, <1>3
  <1>6. w = [i \in 1..n |-> CHOOSE k \in S : Rank(k) = i]
    BY DEF InOrder, n, Rank
  <1>7. w \in [1..n -> S]
    BY <1>2, <1>5, <1>6
  <1> HIDE DEF w
  <1>8. w \in Seq(S) /\ Len(w) = n
    BY <1>1, <1>7, LenProperties, IsASeq
  <1>9. Covers(w, S)
    BY <1>2, <1>3, <1>5 DEF Covers
  <1>10. Increases(w)
    <2> SUFFICES ASSUME NEW i \in 1..n, NEW j \in 1..n, i < j PROVE w[i] < w[j]
      BY <1>2 DEF Increases
    <2>1. w[i] \in S /\ w[j] \in S /\ Rank(w[i]) = i /\ Rank(w[j]) = j
      BY <1>5
    <2>2. i \in Nat /\ j \in Nat /\ ~(j < i) /\ i # j
      BY <1>1
    <2>3. ~(w[j] < w[i])
      BY <1>4, <2>1, <2>2
    <2>4. w[i] # w[j]
      BY <2>1, <2>2
    <2>5. w[i] \in Nat /\ w[j] \in Nat
      BY <2>1
    <2> QED BY <2>3, <2>4, <2>5
  <1> QED
    BY <1>7, <1>8, <1>9, <1>10 DEF w, n

\* There is one such sequence only.
LEMMA InOrderUnique ==
    ASSUME NEW S, S \subseteq Nat, NEW w \in Seq(S), Increases(w), Covers(w, S)
    PROVE  IsFiniteSet(S) /\ w = InOrder(S)
  <1> DEFINE n == Len(w)
  <1>1. n \in Nat /\ DOMAIN w = 1..n /\ w \in [1..n -> S]
    BY LenProperties
  <1>2. \A i \in 1..n : w[i] \in S
    BY <1>1
  <1> HIDE DEF n
  <1>3. ASSUME NEW i \in 1..n, NEW j \in 1..n PROVE i <= j <=> w[i] <= w[j]
    <2>1. i < j => w[i] < w[j]
      BY <1>1 DEF Increases
    <2>2. j < i => w[j] < w[i]
      BY <1>1 DEF Increases
    <2>3. w[i] \in Nat /\ w[j] \in Nat
      BY <1>2
    <2>4. i \in Nat /\ j \in Nat
      BY <1>1
    <2> QED BY <2>1, <2>2, <2>3, <2>4
  <1>4. \A i, j \in 1..n : w[i] = w[j] => i = j
    BY <1>1, <1>2, <1>3
  <1>5. \A k \in S : \E i \in 1..n : w[i] = k
    BY <1>1 DEF Covers
  <1>6. w \in Injection(1..n, S) /\ w \in Surjection(1..n, S)
    BY <1>1, <1>4, <1>5, Fun_IsInj, Fun_IsSurj
  <1>7. IsFiniteSet(1..n) /\ Cardinality(1..n) = n
    BY <1>1, FS_Interval
  <1>8. IsFiniteSet(S) /\ Cardinality(S) = n
    BY <1>6, <1>7, FS_Surjection
  <1>9. ASSUME NEW i \in 1..n PROVE Cardinality(UpTo(S, w[i])) = i
    <2> DEFINE part == [h \in 1..i |-> w[h]]
               T == UpTo(S, w[i])
    <2>1. i \in Nat /\ \A h \in 1..i : h \in 1..n /\ h <= i
      BY <1>1
    <2>2. ASSUME NEW h \in 1..i PROVE w[h] \in T
      BY <1>2, <1>3, <2>1 DEF UpTo
    <2>3. ASSUME NEW k \in T PROVE \E h \in 1..i : w[h] = k
      <3>1. k \in S /\ k <= w[i]
        BY DEF UpTo
      <3>2. PICK h \in 1..n : w[h] = k
        BY <1>5, <3>1
      <3>3. h <= i
        BY <1>3, <3>1, <3>2
      <3> QED BY <1>1, <3>2, <3>3
    <2> HIDE DEF T
    <2>4. part \in [1..i -> T]
      BY <2>2
    <2>5. part \in Injection(1..i, T)
      <3>1. \A g, h \in 1..i : part[g] = part[h] => g = h
        BY <1>4, <2>1
      <3> HIDE DEF part
      <3> QED BY <2>4, <3>1, Fun_IsInj
    <2>6. part \in Surjection(1..i, T)
      <3>1. \A k \in T : \E h \in 1..i : part[h] = k
        BY <2>3
      <3> HIDE DEF part
      <3> QED BY <2>4, <3>1, Fun_IsSurj
    <2>7. IsFiniteSet(1..i) /\ Cardinality(1..i) = i
      BY <2>1, FS_Interval
    <2> HIDE DEF part
    <2>8. Cardinality(T) = i
      BY <2>5, <2>6, <2>7, FS_Surjection
    <2> QED BY <2>8 DEF T
  <1>10. ASSUME NEW i \in 1..n PROVE InOrder(S)[i] = w[i]
    <2>1. InOrder(S)[i] = CHOOSE k \in S : Cardinality(UpTo(S, k)) = i
      BY <1>8, <1>10 DEF InOrder
    <2>2. w[i] \in S /\ Cardinality(UpTo(S, w[i])) = i
      BY <1>2, <1>9
    <2>3. \A k, l \in S : Cardinality(UpTo(S, k)) = Cardinality(UpTo(S, l)) => k = l
      BY <1>8, Ranks
    <2> QED BY <2>1, <2>2, <2>3
  <1>11. InOrder(S) \in [1..n -> S]
    BY <1>8, InOrderProperties
  <1> QED
    BY <1>1, <1>8, <1>10, <1>11

LEMMA InOrderEmpty == InOrder({}) = <<>>
  <1>1. <<>> \in Seq({}) /\ DOMAIN <<>> = {}
    BY EmptySeq
  <1> QED
    BY <1>1, InOrderUnique DEF Increases, Covers

\* A set split at a number.
LEMMA InOrderSplit ==
    ASSUME NEW S, IsFiniteSet(S), S \subseteq Nat, NEW T, IsFiniteSet(T), T \subseteq Nat,
           \A k \in S : \A l \in T : k < l
    PROVE  InOrder(S \cup T) = InOrder(S) \o InOrder(T)
  <1> DEFINE U == S \cup T
  <1>0. PICK v, w : v = InOrder(S) /\ w = InOrder(T)
    OBVIOUS
  <1>1. /\ v \in Seq(S) /\ Increases(v) /\ Covers(v, S)
        /\ w \in Seq(T) /\ Increases(w) /\ Covers(w, T)
    BY <1>0, InOrderProperties
  <1>2. v \in Seq(U) /\ w \in Seq(U)
    BY <1>1
  <1>3. /\ DOMAIN v = 1..Len(v) /\ Len(v) \in Nat /\ \A i \in 1..Len(v) : v[i] \in S
        /\ DOMAIN w = 1..Len(w) /\ Len(w) \in Nat /\ \A i \in 1..Len(w) : w[i] \in T
    BY <1>1
  <1>4. /\ v \o w \in Seq(U) /\ Len(v \o w) = Len(v) + Len(w)
        /\ \A i \in 1..(Len(v) + Len(w)) : (v \o w)[i] = IF i <= Len(v) THEN v[i] ELSE w[i - Len(v)]
    BY <1>2, ConcatProperties
  <1>5. PICK c : c = v \o w
    OBVIOUS
  <1>6. DOMAIN c = 1..(Len(v) + Len(w))
    BY <1>4, <1>5, LenProperties
  <1>7. \A i \in 1..(Len(v) + Len(w)) : c[i] = IF i <= Len(v) THEN v[i] ELSE w[i - Len(v)]
    BY <1>4, <1>5
  <1>8. Increases(c)
    <2> SUFFICES ASSUME NEW i \in 1..(Len(v) + Len(w)), NEW j \in 1..(Len(v) + Len(w)), i < j
                 PROVE  c[i] < c[j]
      BY <1>6 DEF Increases
    <2>1. CASE j <= Len(v)
      BY <1>1, <1>3, <1>7, <2>1 DEF Increases
    <2>2. CASE i <= Len(v) /\ ~(j <= Len(v))
      <3>1. c[i] \in S /\ c[j] \in T
        BY <1>3, <1>7, <2>2
      <3> QED BY <3>1
    <2>3. CASE ~(i <= Len(v))
      <3>1. /\ i - Len(v) \in 1..Len(w) /\ j - Len(v) \in 1..Len(w)
            /\ i - Len(v) < j - Len(v) /\ ~(j <= Len(v))
        BY <1>3, <2>3
      <3>2. w[i - Len(v)] < w[j - Len(v)]
        BY <1>1, <1>3, <3>1 DEF Increases
      <3> QED BY <1>7, <2>3, <3>1, <3>2
    <2> QED BY <1>3, <2>1, <2>2, <2>3
  <1>9. Covers(c, U)
    <2>1. ASSUME NEW k \in S PROVE \E i \in 1..(Len(v) + Len(w)) : c[i] = k
      <3>1. PICK i \in 1..Len(v) : v[i] = k
        BY <1>1, <1>3 DEF Covers
      <3>2. i \in 1..(Len(v) + Len(w)) /\ i <= Len(v)
        BY <1>3
      <3> QED BY <1>7, <3>1, <3>2
    <2>2. ASSUME NEW k \in T PROVE \E i \in 1..(Len(v) + Len(w)) : c[i] = k
      <3>1. PICK i \in 1..Len(w) : w[i] = k
        BY <1>1, <1>3 DEF Covers
      <3>2. /\ Len(v) + i \in 1..(Len(v) + Len(w)) /\ ~(Len(v) + i <= Len(v))
            /\ (Len(v) + i) - Len(v) = i
        BY <1>3
      <3>3. c[Len(v) + i] = k
        BY <1>7, <3>1, <3>2
      <3> QED BY <3>2, <3>3
    <2> QED BY <1>6, <2>1, <2>2 DEF Covers
  <1>10. c = InOrder(U)
    BY <1>4, <1>5, <1>8, <1>9, InOrderUnique
  <1> QED
    BY <1>0, <1>5, <1>10

\* What a sequence has at some of its places is there in their order.
LEMMA PickProperties ==
    ASSUME NEW S, NEW s \in Seq(S), NEW places, places \subseteq DOMAIN s
    PROVE  /\ Pick(s, places) \in Seq(S) /\ Len(Pick(s, places)) = Cardinality(places)
           /\ Cardinality(places) \in Nat
           /\ InOrder(places) \in [1..Cardinality(places) -> places]
           /\ Increases(InOrder(places)) /\ Covers(InOrder(places), places)
           /\ \A i \in 1..Cardinality(places) : Pick(s, places)[i] = s[InOrder(places)[i]]
  <1>1. Len(s) \in Nat /\ DOMAIN s = 1..Len(s)
    BY LenProperties
  <1>2. IsFiniteSet(places) /\ Cardinality(places) \in Nat /\ places \subseteq Nat
    BY <1>1, FiniteRange
  <1>3. /\ InOrder(places) \in [1..Cardinality(places) -> places]
        /\ Increases(InOrder(places)) /\ Covers(InOrder(places), places)
    BY <1>2, InOrderProperties
  <1>4. \A i \in 1..Cardinality(places) : s[InOrder(places)[i]] \in S
    BY <1>3, ElementOfSeq, <1>1
  <1>5. Pick(s, places) \in [1..Cardinality(places) -> S]
    BY <1>4 DEF Pick
  <1> QED
    BY <1>2, <1>3, <1>5 DEF Pick

\* A sequence that lists a set once, in order, tells its size.
LEMMA InOrderIs ==
    ASSUME NEW S, S \subseteq Nat, NEW w \in Seq(S), Increases(w), Covers(w, S)
    PROVE  InOrder(S) = w /\ Cardinality(S) = Len(w)
  <1>1. InOrder(S) = w /\ IsFiniteSet(S)
    BY InOrderUnique
  <1> QED BY <1>1, InOrderProperties

LEMMA PickNone == ASSUME NEW s PROVE Pick(s, {}) = <<>>
  <1>1. Cardinality({}) = 0
    BY FS_EmptySet
  <1>2. [i \in 1..0 |-> s[InOrder({})[i]]] = <<>>
    OBVIOUS
  <1> QED BY <1>1, <1>2 DEF Pick

\* Q has the places that the members of T have in the order of P.
ChosenOf(P, Q, T) ==
    /\ Q \subseteq 1..Cardinality(P) /\ T \subseteq P
    /\ \A q \in 1..Cardinality(P) : q \in Q <=> InOrder(P)[q] \in T

\* What is picked of what was picked.
LEMMA PickOfPick ==
    ASSUME NEW S, NEW s \in Seq(S), NEW P, P \subseteq DOMAIN s,
           NEW Q, NEW T, ChosenOf(P, Q, T)
    PROVE  Pick(Pick(s, P), Q) = Pick(s, T)
  <1> DEFINE p == Pick(s, P)
             v == InOrder(P)
             u == InOrder(Q)
             n == Cardinality(P)
             m == Cardinality(Q)
             w == [i \in 1..m |-> v[u[i]]]
  <1>0. Len(s) \in Nat /\ DOMAIN s = 1..Len(s) /\ Q \subseteq 1..n /\ T \subseteq P
    BY LenProperties DEF ChosenOf
  <1>1. /\ p \in Seq(S) /\ Len(p) = n /\ n \in Nat
        /\ v \in [1..n -> P] /\ Increases(v) /\ Covers(v, P)
        /\ \A i \in 1..n : p[i] = s[v[i]]
    BY PickProperties
  <1>2. DOMAIN p = 1..n
    BY <1>1, LenProperties
  <1>21. Q \subseteq DOMAIN p
    BY <1>0, <1>2
  <1> HIDE DEF p
  <1>3. /\ Len(Pick(p, Q)) = m /\ m \in Nat
        /\ u \in [1..m -> Q] /\ Increases(u) /\ Covers(u, Q)
        /\ \A i \in 1..m : Pick(p, Q)[i] = p[u[i]]
    BY <1>1, <1>21, PickProperties
  <1>31. Pick(p, Q) = [i \in 1..m |-> p[u[i]]]
    BY DEF Pick
  <1>32. \A q \in 1..n : q \in Q <=> v[q] \in T
    BY DEF ChosenOf
  <1> HIDE DEF p, v, u, n, m
  <1>4. \A i \in 1..m : u[i] \in Q /\ u[i] \in 1..n
    BY <1>0, <1>3
  <1>5. \A i \in 1..m : v[u[i]] \in T
    BY <1>4, <1>32
  <1>6. w \in Seq(T) /\ Len(w) = m
    <2>1. w \in [1..m -> T]
      BY <1>5
    <2> HIDE DEF w
    <2> QED BY <1>3, <2>1
  <1>7. Increases(w)
    <2> SUFFICES ASSUME NEW i \in 1..m, NEW j \in 1..m, i < j PROVE v[u[i]] < v[u[j]]
      BY DEF Increases
    <2>1. u[i] < u[j]
      BY <1>3 DEF Increases
    <2> QED BY <1>1, <1>4, <2>1 DEF Increases
  <1>8. Covers(w, T)
    <2> SUFFICES ASSUME NEW k \in T PROVE \E i \in 1..m : v[u[i]] = k
      BY DEF Covers
    <2>1. PICK q \in 1..n : v[q] = k
      BY <1>0, <1>1 DEF Covers
    <2>2. PICK i \in 1..m : u[i] = q
      BY <1>3, <1>32, <2>1 DEF Covers
    <2> QED BY <2>1, <2>2
  <1>9. \A i \in 1..m : p[u[i]] = s[w[i]]
    BY <1>1, <1>4
  <1> HIDE DEF w
  <1>10. T \subseteq Nat
    BY <1>0
  <1>11. Pick(s, T) = [i \in 1..m |-> s[w[i]]]
    <2>1. Pick(s, T) = [i \in 1..Len(w) |-> s[w[i]]]
      <3>1. InOrder(T) = w /\ Cardinality(T) = Len(w)
        BY <1>6, <1>7, <1>8, <1>10, InOrderIs
      <3> QED BY <3>1 DEF Pick
    <2> QED BY <1>6, <2>1
  <1>12. Pick(p, Q) = Pick(s, T)
    BY <1>9, <1>11, <1>31
  <1> QED BY <1>12 DEF p

\* What comes before an element of what was picked.
LEMMA EarlierPicked ==
    ASSUME NEW S, NEW s \in Seq(S), NEW P, P \subseteq DOMAIN s, NEW q \in 1..Cardinality(P)
    PROVE  /\ InOrder(P)[q] \in P /\ Pick(s, P)[q] = s[InOrder(P)[q]]
           /\ \A j \in 1..(q - 1) : \E k \in P : k < InOrder(P)[q] /\ Pick(s, P)[j] = s[k]
           /\ \A k \in P : k < InOrder(P)[q] => \E j \in 1..(q - 1) : Pick(s, P)[j] = s[k]
  <1> DEFINE p == Pick(s, P)
             v == InOrder(P)
             n == Cardinality(P)
  <1>0. Len(s) \in Nat /\ DOMAIN s = 1..Len(s)
    BY LenProperties
  <1>1. /\ n \in Nat /\ v \in [1..n -> P] /\ Increases(v) /\ Covers(v, P)
        /\ \A i \in 1..n : p[i] = s[v[i]]
    BY PickProperties
  <1>11. q \in 1..n
    OBVIOUS
  <1> HIDE DEF p, v, n
  <1>2. ASSUME NEW j \in 1..(q - 1) PROVE \E k \in P : k < v[q] /\ p[j] = s[k]
    <2>1. j \in 1..n /\ j < q
      BY <1>1, <1>11
    <2>2. v[j] < v[q]
      BY <1>1, <1>11, <2>1 DEF Increases
    <2> QED BY <1>1, <2>1, <2>2
  <1>3. ASSUME NEW k \in P, k < v[q] PROVE \E j \in 1..(q - 1) : p[j] = s[k]
    <2>1. PICK j \in 1..n : v[j] = k
      BY <1>1 DEF Covers
    <2>2. v[q] \in Nat /\ k \in Nat
      BY <1>0, <1>1, <1>11
    <2>3. j # q /\ ~(q < j)
      <3>1. q < j => v[q] < v[j]
        BY <1>1, <1>11 DEF Increases
      <3>2. ~(v[q] < v[j]) /\ v[q] # v[j]
        BY <1>3, <2>1, <2>2
      <3> QED BY <3>1, <3>2
    <2>4. j \in 1..(q - 1)
      BY <1>1, <1>11, <2>3
    <2> QED BY <1>1, <2>1, <2>4
  <1> QED BY <1>1, <1>11, <1>2, <1>3 DEF p, v

\* What is picked of two sequences, the one after the other.
Shifted(n, Q) == {n + q : q \in Q}
IsConcat(c, p, q) == c = p \o q

LEMMA PickConcat ==
    ASSUME NEW S, NEW s \in Seq(S), NEW t \in Seq(S),
           NEW P, P \subseteq DOMAIN s, NEW Q, Q \subseteq DOMAIN t
    PROVE  IsConcat(Pick(s \o t, P \cup Shifted(Len(s), Q)), Pick(s, P), Pick(t, Q))
  <1> DEFINE a == Len(s)
             T == P \cup Shifted(a, Q)
             v == InOrder(P)
             u == InOrder(Q)
             n == Cardinality(P)
             m == Cardinality(Q)
             p == Pick(s, P)
             r == Pick(t, Q)
             w == [i \in 1..(n + m) |-> IF i <= n THEN v[i] ELSE a + u[i - n]]
  <1>0. a \in Nat /\ DOMAIN s = 1..a /\ Len(t) \in Nat /\ DOMAIN t = 1..Len(t)
    BY LenProperties
  <1>1. /\ p \in Seq(S) /\ Len(p) = n /\ n \in Nat
        /\ v \in [1..n -> P] /\ Increases(v) /\ Covers(v, P)
        /\ \A i \in 1..n : p[i] = s[v[i]]
    BY PickProperties
  <1>2. /\ r \in Seq(S) /\ Len(r) = m /\ m \in Nat
        /\ u \in [1..m -> Q] /\ Increases(u) /\ Covers(u, Q)
        /\ \A i \in 1..m : r[i] = t[u[i]]
    BY PickProperties
  <1>3. /\ p \o r \in Seq(S) /\ Len(p \o r) = n + m
        /\ \A i \in 1..(n + m) : (p \o r)[i] = IF i <= n THEN p[i] ELSE r[i - n]
    BY <1>1, <1>2, ConcatProperties
  <1>4. /\ s \o t \in Seq(S)
        /\ \A i \in 1..(a + Len(t)) : (s \o t)[i] = IF i <= a THEN s[i] ELSE t[i - a]
    BY ConcatProperties
  <1>41. T = P \cup {a + q : q \in Q}
    BY DEF Shifted
  <1> HIDE DEF p, r, v, u, n, m, a, T
  <1>5. ASSUME NEW i \in 1..n
        PROVE  v[i] \in P /\ v[i] \in T /\ v[i] \in 1..a /\ (s \o t)[v[i]] = p[i]
    <2>1. v[i] \in P /\ v[i] \in 1..a
      BY <1>0, <1>1
    <2> QED BY <1>0, <1>1, <1>4, <1>41, <2>1
  <1>6. ASSUME NEW i \in 1..m
        PROVE  /\ u[i] \in Q /\ u[i] \in 1..Len(t) /\ a + u[i] \in T
               /\ (s \o t)[a + u[i]] = r[i]
    <2>1. u[i] \in Q /\ u[i] \in 1..Len(t)
      BY <1>0, <1>2
    <2>2. a + u[i] \in 1..(a + Len(t)) /\ ~(a + u[i] <= a) /\ (a + u[i]) - a = u[i]
      BY <1>0, <2>1
    <2>3. (s \o t)[a + u[i]] = t[u[i]]
      BY <1>4, <2>2
    <2> QED BY <1>2, <1>41, <2>1, <2>3
  <1>7. ASSUME NEW i \in 1..(n + m), ~(i <= n) PROVE i - n \in 1..m
    BY <1>1, <1>2, <1>7
  <1>8. w \in Seq(T) /\ Len(w) = n + m
    <2>1. \A i \in 1..(n + m) : w[i] \in T
      BY <1>1, <1>2, <1>5, <1>6, <1>7
    <2>2. w \in [1..(n + m) -> T]
      BY <2>1
    <2>3. n + m \in Nat
      BY <1>1, <1>2
    <2> HIDE DEF w
    <2> QED BY <2>2, <2>3
  <1>9. Increases(w)
    <2> SUFFICES ASSUME NEW i \in 1..(n + m), NEW j \in 1..(n + m), i < j PROVE w[i] < w[j]
      BY DEF Increases
    <2>1. CASE j <= n
      <3>1. i \in 1..n /\ j \in 1..n
        BY <1>1, <1>2, <2>1
      <3>2. v[i] < v[j]
        BY <1>1, <3>1 DEF Increases
      <3> QED BY <2>1, <3>1, <3>2
    <2>2. CASE i <= n /\ ~(j <= n)
      <3>1. i \in 1..n /\ j - n \in 1..m
        BY <1>1, <1>2, <1>7, <2>2
      <3>2. v[i] \in 1..a /\ u[j - n] \in 1..Len(t)
        BY <1>5, <1>6, <3>1
      <3>3. v[i] < a + u[j - n]
        BY <1>0, <3>2
      <3> QED BY <2>2, <3>3
    <2>3. CASE ~(i <= n)
      <3>1. i - n \in 1..m /\ j - n \in 1..m /\ i - n < j - n /\ ~(j <= n)
        BY <1>1, <1>2, <1>7, <2>3
      <3>2. u[i - n] < u[j - n] /\ u[i - n] \in 1..Len(t) /\ u[j - n] \in 1..Len(t)
        BY <1>2, <1>6, <3>1 DEF Increases
      <3>3. a + u[i - n] < a + u[j - n]
        BY <1>0, <3>2
      <3> QED BY <2>3, <3>1, <3>3
    <2> QED BY <2>1, <2>2, <2>3
  <1>10. Covers(w, T)
    <2> SUFFICES ASSUME NEW k \in T PROVE \E i \in 1..(n + m) : w[i] = k
      BY DEF Covers
    <2>1. CASE k \in P
      <3>1. PICK i \in 1..n : v[i] = k
        BY <1>1, <2>1 DEF Covers
      <3>2. i \in 1..(n + m) /\ i <= n
        BY <1>1, <1>2
      <3> QED BY <3>1, <3>2
    <2>2. CASE k \notin P
      <3>1. PICK q \in Q : k = a + q
        BY <1>41, <2>2
      <3>2. PICK i \in 1..m : u[i] = q
        BY <1>2 DEF Covers
      <3>3. n + i \in 1..(n + m) /\ ~(n + i <= n) /\ (n + i) - n = i
        BY <1>1, <1>2
      <3>4. w[n + i] = k
        BY <3>1, <3>2, <3>3
      <3> QED BY <3>3, <3>4
    <2> QED BY <2>1, <2>2
  <1>11. ASSUME NEW i \in 1..(n + m) PROVE (p \o r)[i] = (s \o t)[w[i]]
    <2>1. CASE i <= n
      <3>1. i \in 1..n
        BY <2>1
      <3> QED BY <1>3, <1>5, <2>1, <3>1
    <2>2. CASE ~(i <= n)
      <3>1. i - n \in 1..m
        BY <1>7, <2>2
      <3> QED BY <1>3, <1>6, <2>2, <3>1
    <2> QED BY <2>1, <2>2
  <1> HIDE DEF w
  <1>12. T \subseteq Nat
    <2>1. \A q \in Q : a + q \in Nat
      BY <1>0
    <2> QED BY <1>0, <1>41, <2>1
  <1>13. Pick(s \o t, T) = [i \in 1..(n + m) |-> (s \o t)[w[i]]]
    <2>1. PICK z : z = s \o t
      OBVIOUS
    <2>2. Pick(z, T) = [i \in 1..Len(w) |-> z[w[i]]]
      <3>1. InOrder(T) = w /\ Cardinality(T) = Len(w)
        BY <1>8, <1>9, <1>10, <1>12, InOrderIs
      <3> QED BY <3>1 DEF Pick
    <2> QED BY <1>8, <2>1, <2>2
  <1>14. p \o r = [i \in 1..(n + m) |-> (p \o r)[i]]
    BY <1>3, LenProperties
  <1>15. Pick(s \o t, T) = p \o r
    BY <1>11, <1>13, <1>14
  <1> QED BY <1>15 DEF p, r, T, a, IsConcat

\* A sequence with a function applied to each of its elements.
Through(f, s) == [i \in DOMAIN s |-> f[s[i]]]

LEMMA ThroughTyped ==
    ASSUME NEW S, NEW T, NEW f \in [S -> T], NEW s \in Seq(S)
    PROVE  /\ Through(f, s) \in Seq(T) /\ Len(Through(f, s)) = Len(s)
           /\ DOMAIN Through(f, s) = DOMAIN s
  <1>1. Len(s) \in Nat /\ DOMAIN s = 1..Len(s) /\ \A i \in 1..Len(s) : s[i] \in S
    BY LenProperties, ElementOfSeq
  <1>2. Through(f, s) \in [1..Len(s) -> T]
    BY <1>1 DEF Through
  <1> QED BY <1>1, <1>2

LEMMA ThroughPicked ==
    ASSUME NEW S, NEW s \in Seq(S), NEW P, P \subseteq DOMAIN s, NEW f
    PROVE  Pick(Through(f, s), P) = Through(f, Pick(s, P))
  <1> DEFINE v == InOrder(P)
             n == Cardinality(P)
  <1>1. v \in [1..n -> P]
    BY PickProperties
  <1> HIDE DEF v, n
  <1>2. \A i \in 1..n : v[i] \in DOMAIN s
    BY <1>1
  <1>3. Pick(s, P) = [i \in 1..n |-> s[v[i]]]
    BY DEF Pick, v, n
  <1>4. Pick(Through(f, s), P) = [i \in 1..n |-> Through(f, s)[v[i]]]
    BY DEF Pick, v, n
  <1>5. \A i \in 1..n : Through(f, s)[v[i]] = f[s[v[i]]]
    BY <1>2 DEF Through
  <1>6. Through(f, Pick(s, P)) = [i \in 1..n |-> f[s[v[i]]]]
    BY <1>3 DEF Through
  <1> QED BY <1>4, <1>5, <1>6

LEMMA ThroughConcat ==
    ASSUME NEW S, NEW T, NEW f \in [S -> T], NEW s \in Seq(S), NEW t \in Seq(S)
    PROVE  IsConcat(Through(f, s \o t), Through(f, s), Through(f, t))
  <1> DEFINE a == Len(s)
             b == Len(t)
             u == s \o t
             x == Through(f, s)
             y == Through(f, t)
             z == Through(f, u)
  <1>1. a \in Nat /\ b \in Nat /\ DOMAIN s = 1..a /\ DOMAIN t = 1..b
    BY LenProperties
  <1>2. /\ u \in Seq(S) /\ Len(u) = a + b
        /\ \A i \in 1..(a + b) : u[i] = IF i <= a THEN s[i] ELSE t[i - a]
    BY ConcatProperties
  <1> HIDE DEF u
  <1>3. DOMAIN u = 1..(a + b)
    BY <1>2, LenProperties
  <1>4. /\ x \in Seq(T) /\ Len(x) = a /\ y \in Seq(T) /\ Len(y) = b
        /\ z \in Seq(T) /\ Len(z) = a + b
    <2>1. ASSUME NEW q \in Seq(S)
          PROVE  Through(f, q) \in Seq(T) /\ Len(Through(f, q)) = Len(q)
      BY ThroughTyped
    <2> QED BY <1>2, <2>1
  <1>5. /\ \A i \in 1..a : x[i] = f[s[i]]
        /\ \A i \in 1..b : y[i] = f[t[i]]
        /\ \A i \in 1..(a + b) : z[i] = f[u[i]]
    BY <1>1, <1>3 DEF Through
  <1> HIDE DEF x, y, z, a, b
  <1>6. /\ x \o y \in Seq(T) /\ Len(x \o y) = a + b
        /\ \A i \in 1..(a + b) : (x \o y)[i] = IF i <= a THEN x[i] ELSE y[i - a]
    BY <1>4, ConcatProperties
  <1>7. ASSUME NEW i \in 1..(a + b) PROVE z[i] = (x \o y)[i]
    <2>1. CASE i <= a
      <3>1. i \in 1..a
        BY <2>1
      <3> QED BY <1>2, <1>5, <1>6, <2>1, <3>1
    <2>2. CASE ~(i <= a)
      <3>1. i - a \in 1..b
        BY <1>1, <2>2
      <3>2. u[i] = t[i - a] /\ (x \o y)[i] = y[i - a]
        BY <1>2, <1>6, <2>2
      <3> QED BY <1>5, <3>1, <3>2
    <2> QED BY <2>1, <2>2
  <1>8. z = x \o y
    BY <1>4, <1>6, <1>7, SeqEqual
  <1> QED BY <1>8 DEF x, y, z, u, IsConcat

----------------------------------------------------------------------------
(* Sequences one after the other: FlattenSeq of module SequencesExt. *)

\* FlattenSeq is what its recursion says: there is a function that meets it.
LEMMA FlattenRecursion ==
    ASSUME NEW ss, NEW m \in Nat \ {0}, Len(ss) = m
    PROVE  \E f : /\ f[1] = ss[1] /\ \A i \in 2..m : f[i] = f[i - 1] \o ss[i]
                  /\ FlattenSeq(ss) = f[m]
  <1> DEFINE Recursive(f, n) == f = [i \in 1..n |-> IF i = 1 THEN ss[i] ELSE f[i - 1] \o ss[i]]
             X == {n \in Nat : \E f : Recursive(f, n)}
  <1>1. 0 \in X
    <2>1. Recursive([i \in 1..0 |-> ss], 0)
      OBVIOUS
    <2> QED BY <2>1
  <1>2. ASSUME NEW n \in Nat, n \in X PROVE n + 1 \in X
    <2>1. PICK f : Recursive(f, n)
      BY <1>2
    <2>2. PICK g : g = [i \in 1..(n + 1) |-> IF i = 1 THEN ss[i] ELSE f[i - 1] \o ss[i]]
      OBVIOUS
    <2>3. ASSUME NEW i \in 1..n PROVE g[i] = f[i]
      <3>1. i \in 1..(n + 1)
        OBVIOUS
      <3>2. g[i] = IF i = 1 THEN ss[i] ELSE f[i - 1] \o ss[i]
        BY <2>2, <3>1
      <3>3. f[i] = IF i = 1 THEN ss[i] ELSE f[i - 1] \o ss[i]
        BY <2>1
      <3> QED BY <3>2, <3>3
    <2>4. \A i \in 1..(n + 1) : i # 1 => i - 1 \in 1..n
      OBVIOUS
    <2>5. Recursive(g, n + 1)
      BY <2>2, <2>3, <2>4
    <2> HIDE DEF Recursive
    <2> QED BY <2>5
  <1>3. m \in X
    <2> HIDE DEF X
    <2>1. Nat \subseteq X
      BY <1>1, <1>2, Induction
    <2> QED BY <2>1
  <1> DEFINE f == CHOOSE f : Recursive(f, m)
  <1>4. FlattenSeq(ss) = f[m]
    BY Zenon DEF FlattenSeq
  <1>5. Recursive(f, m)
    BY <1>3
  <1> HIDE DEF f
  <1>6. ASSUME NEW i \in 1..m PROVE f[i] = IF i = 1 THEN ss[i] ELSE f[i - 1] \o ss[i]
    BY <1>5
  <1>7. f[1] = ss[1] /\ \A i \in 2..m : f[i] = f[i - 1] \o ss[i]
    <2>1. 1 \in 1..m /\ \A i \in 2..m : i \in 1..m /\ i # 1
      OBVIOUS
    <2> QED BY <1>6, <2>1
  <1> QED
    BY <1>4, <1>7

\* Where the elements of flattened sequences come from: the sequence and the
\* place in it.
Flattened(v, ss, k, block, place) ==
    /\ block \in [1..Len(v) -> 1..k] /\ place \in [1..Len(v) -> Nat]
    /\ \A i \in 1..Len(v) : /\ place[i] \in 1..Len(ss[block[i]])
                            /\ v[i] = ss[block[i]][place[i]]
    /\ \A i, j \in 1..Len(v) :
          i < j => block[i] < block[j] \/ (block[i] = block[j] /\ place[i] < place[j])
    /\ \A b \in 1..k : \A p \in 1..Len(ss[b]) :
          \E i \in 1..Len(v) : block[i] = b /\ place[i] = p

LEMMA FlattenedMore ==
    ASSUME NEW S, NEW k \in Nat, NEW ss, ss[k + 1] \in Seq(S), NEW v \in Seq(S),
           NEW block, NEW place, Flattened(v, ss, k, block, place)
    PROVE  \E b, p : Flattened(v \o ss[k + 1], ss, k + 1, b, p)
  <1> DEFINE w == ss[k + 1]
             u == v \o w
             n == Len(v)
             b == [i \in 1..Len(u) |-> IF i <= n THEN block[i] ELSE k + 1]
             p == [i \in 1..Len(u) |-> IF i <= n THEN place[i] ELSE i - n]
  <1>1. /\ n \in Nat /\ Len(w) \in Nat /\ Len(u) = n + Len(w)
        /\ \A i \in 1..Len(u) : u[i] = IF i <= n THEN v[i] ELSE w[i - n]
    BY ConcatProperties, LenProperties
  <1>2. /\ block \in [1..n -> 1..k] /\ place \in [1..n -> Nat]
        /\ \A i \in 1..n : place[i] \in 1..Len(ss[block[i]]) /\ v[i] = ss[block[i]][place[i]]
        /\ \A i, j \in 1..n :
              i < j => block[i] < block[j] \/ (block[i] = block[j] /\ place[i] < place[j])
        /\ \A c \in 1..k : \A q \in 1..Len(ss[c]) : \E i \in 1..n : block[i] = c /\ place[i] = q
    BY DEF Flattened
  <1> HIDE DEF u, n
  <1>3. \A i \in 1..Len(u) : (i <= n => i \in 1..n) /\ (~(i <= n) => i - n \in 1..Len(w))
    BY <1>1
  <1>4. \A i \in 1..n : i \in 1..Len(u) /\ b[i] = block[i] /\ p[i] = place[i]
    BY <1>1
  <1>5. \A i \in 1..Len(u) : ~(i <= n) => b[i] = k + 1 /\ p[i] = i - n
    OBVIOUS
  <1>6. b \in [1..Len(u) -> 1..(k + 1)] /\ p \in [1..Len(u) -> Nat]
    BY <1>2, <1>3
  <1> HIDE DEF b, p
  <1>7. \A i \in 1..Len(u) : p[i] \in 1..Len(ss[b[i]]) /\ u[i] = ss[b[i]][p[i]]
    <2> SUFFICES ASSUME NEW i \in 1..Len(u)
                 PROVE  p[i] \in 1..Len(ss[b[i]]) /\ u[i] = ss[b[i]][p[i]]
      OBVIOUS
    <2>1. CASE i <= n
      BY <1>1, <1>2, <1>3, <1>4, <2>1
    <2>2. CASE ~(i <= n)
      <3>1. b[i] = k + 1 /\ p[i] = i - n /\ i - n \in 1..Len(w) /\ u[i] = w[i - n]
        BY <1>1, <1>3, <1>5, <2>2
      <3> QED BY <3>1
    <2> QED BY <2>1, <2>2
  <1>8. ASSUME NEW i \in 1..Len(u), NEW j \in 1..Len(u), i < j
        PROVE  b[i] < b[j] \/ (b[i] = b[j] /\ p[i] < p[j])
    <2>1. CASE j <= n
      <3>1. i \in 1..n /\ j \in 1..n
        BY <1>1, <1>8, <2>1
      <3> QED BY <1>2, <1>4, <1>8, <3>1
    <2>2. CASE ~(j <= n) /\ i <= n
      <3>1. b[i] \in 1..k /\ b[j] = k + 1
        BY <1>2, <1>3, <1>4, <1>5, <2>2
      <3> QED BY <3>1
    <2>3. CASE ~(i <= n)
      <3>1. ~(j <= n)
        BY <1>1, <1>8, <2>3
      <3> QED BY <1>1, <1>5, <1>8, <2>3, <3>1
    <2> QED BY <2>1, <2>2, <2>3
  <1>9. ASSUME NEW c \in 1..(k + 1), NEW q \in 1..Len(ss[c])
        PROVE  \E i \in 1..Len(u) : b[i] = c /\ p[i] = q
    <2>1. CASE c \in 1..k
      BY <1>2, <1>4, <2>1
    <2>2. CASE c = k + 1
      <3>1. n + q \in 1..Len(u) /\ ~(n + q <= n) /\ (n + q) - n = q
        BY <1>1, <2>2
      <3> QED BY <1>5, <2>2, <3>1
    <2> QED BY <2>1, <2>2
  <1>10. Flattened(u, ss, k + 1, b, p)
    BY <1>6, <1>7, <1>8, <1>9 DEF Flattened
  <1> QED
    BY <1>10 DEF u

LEMMA FlattenProperties ==
    ASSUME NEW S, NEW ss \in Seq(Seq(S))
    PROVE  /\ FlattenSeq(ss) \in Seq(S)
           /\ \E block, place : Flattened(FlattenSeq(ss), ss, Len(ss), block, place)
  <1> DEFINE m == Len(ss)
  <1>1. m \in Nat /\ \A i \in 1..m : ss[i] \in Seq(S)
    BY LenProperties, ElementOfSeq
  <1>2. CASE m = 0
    <2>1. FlattenSeq(ss) = << >>
      BY <1>2, EmptySeq DEF FlattenSeq
    <2>2. Flattened(<< >>, ss, 0, [i \in 1..0 |-> 0], [i \in 1..0 |-> 0])
      <3>1. Len(<< >>) = 0 /\ 1..0 = {}
        OBVIOUS
      <3> QED BY <3>1 DEF Flattened
    <2> QED BY <1>2, <2>1, <2>2, EmptySeq
  <1>3. CASE m # 0
    <2>0. m \in Nat \ {0}
      BY <1>1, <1>3
    <2> HIDE DEF m
    <2>1. PICK f : /\ f[1] = ss[1] /\ \A i \in 2..m : f[i] = f[i - 1] \o ss[i]
                   /\ FlattenSeq(ss) = f[m]
      BY <2>0, FlattenRecursion DEF m
    <2> DEFINE Good(v, k) == v \in Seq(S) /\ \E block, place : Flattened(v, ss, k, block, place)
               X == {n \in Nat : n + 1 <= m => Good(f[n + 1], n + 1)}
    <2>2. 0 \in X
      <3>1. Flattened(<< >>, ss, 0, [i \in 1..0 |-> 0], [i \in 1..0 |-> 0])
        <4>1. Len(<< >>) = 0 /\ 1..0 = {}
          OBVIOUS
        <4> QED BY <4>1 DEF Flattened
      <3>2. ss[1] \in Seq(S) /\ << >> \in Seq(S)
        BY <1>1, <2>0, EmptySeq
      <3>3. << >> \o ss[1] = ss[1]
        BY <3>2, ConcatEmptySeq
      <3>4. \E block, place : Flattened(<< >> \o ss[0 + 1], ss, 0 + 1, block, place)
        <4> DEFINE z == 0
                   e == << >>
        <4>1. z \in Nat /\ ss[z + 1] \in Seq(S) /\ e \in Seq(S)
          BY <3>2
        <4>2. \E block, place : Flattened(e, ss, z, block, place)
          BY <3>1
        <4> HIDE DEF z, e
        <4>3. \E block, place : Flattened(e \o ss[z + 1], ss, z + 1, block, place)
          BY <4>1, <4>2, FlattenedMore
        <4> QED BY <4>3 DEF z, e
      <3>5. Good(f[0 + 1], 0 + 1)
        BY <2>1, <3>2, <3>3, <3>4
      <3> QED BY <3>5
    <2>3. ASSUME NEW n \in Nat, n \in X PROVE n + 1 \in X
      <3> SUFFICES ASSUME (n + 1) + 1 <= m PROVE Good(f[(n + 1) + 1], (n + 1) + 1)
        OBVIOUS
      <3>1. n + 1 <= m /\ (n + 1) + 1 \in 2..m /\ ((n + 1) + 1) - 1 = n + 1 /\ n + 1 \in Nat
        BY <2>0
      <3>2. Good(f[n + 1], n + 1)
        BY <2>3, <3>1
      <3>3. ss[(n + 1) + 1] \in Seq(S)
        BY <1>1, <3>1 DEF m
      <3>4. f[(n + 1) + 1] = f[n + 1] \o ss[(n + 1) + 1]
        BY <2>1, <3>1
      <3> HIDE DEF X
      <3>5. \E block, place : Flattened(f[n + 1] \o ss[(n + 1) + 1], ss, (n + 1) + 1, block, place)
        BY <3>1, <3>2, <3>3, FlattenedMore
      <3>6. f[(n + 1) + 1] \in Seq(S)
        BY <3>2, <3>3, <3>4, ConcatProperties
      <3> QED BY <3>4, <3>5, <3>6
    <2> HIDE DEF X
    <2>4. Nat \subseteq X
      BY <2>2, <2>3, Induction
    <2>5. m - 1 \in X /\ (m - 1) + 1 = m
      BY <2>0, <2>4
    <2>6. Good(f[m], m)
      BY <2>0, <2>5 DEF X
    <2> QED BY <2>1, <2>6 DEF m
  <1> QED
    BY <1>2, <1>3
=============================================================================
