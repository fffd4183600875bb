---- MODULE NatLemmas ----
(***************************************************************************)
(* Facts the proofs of this project share: about the naturals, derived     *)
(* from the well-foundedness of < (induction is stated over a set, so that *)
(* it can be used without instantiating a predicate); how often a sequence *)
(* has an element of a set; the rank of an element in a set of naturals;   *)
(* the elements of a sequence when some are put at its end or taken off;   *)
(* and the size of a bag over one element.                                 *)
(***************************************************************************)
EXTENDS Naturals, Sequences, FiniteSets, Bags, WellFoundedInduction,
        NaturalsInduction, FiniteSetTheorems, SequenceTheorems, TLAPS

\* A set of naturals that is not empty has a least element: the CHOOSE of the
\* first request in a buffer, or of the lowest free descriptor, is defined.
LEMMA SmallestNat ==
    ASSUME NEW S \in SUBSET Nat, S # {}
    PROVE  \E i \in S : \A j \in S : i <= j
<1> DEFINE R == {ss \in Nat \X Nat : ss[1] < ss[2]}
<1>1. IsWellFoundedOn(R, Nat)
  BY NatLessThanWellFounded DEF OpToRel
<1>2. \A i, j \in Nat : j < i => <<j, i>> \in R
  OBVIOUS
<1> HIDE DEF R
<1>3. PICK i \in S : \A j \in S : ~ (<<j, i>> \in R)
  BY <1>1, WFMin
<1>4. SUFFICES ASSUME NEW j \in S PROVE i <= j
  OBVIOUS
<1>5. i \in Nat /\ j \in Nat
  OBVIOUS
<1>6. ~ (<<j, i>> \in R)
  BY <1>3
<1>7. ~ (j < i)
  BY <1>2, <1>5, <1>6
<1> QED BY <1>5, <1>7

\* Induction over a set of naturals.
LEMMA SetInduction ==
    ASSUME NEW T, 0 \in T, \A n \in Nat : n \in T => n + 1 \in T
    PROVE  Nat \subseteq T
<1>1. SUFFICES ASSUME Nat \ T # {} PROVE FALSE
  OBVIOUS
<1>2. PICK m \in Nat \ T : \A j \in Nat \ T : m <= j
  BY <1>1, SmallestNat
<1>3. m # 0 /\ m - 1 \in Nat
  BY <1>2
<1>4. m - 1 \in T
  BY <1>2, <1>3
<1> QED BY <1>2, <1>3, <1>4

---------------------------------------------------------------------------
(* Counting in a sequence.                                                 *)

\* Where the elements of s that are in V stand, and how many there are.
Indices(s, V) == {i \in DOMAIN s : s[i] \in V}
Count(s, V)   == Cardinality(Indices(s, V))

LEMMA CountNat ==
    ASSUME NEW S, NEW s \in Seq(S), NEW V
    PROVE  IsFiniteSet(Indices(s, V)) /\ Count(s, V) \in Nat
<1>1. Len(s) \in Nat /\ DOMAIN s = 1..Len(s)
  BY LenProperties
<1>2. IsFiniteSet(1..Len(s))
  BY <1>1, FS_Interval
<1>3. Indices(s, V) \in SUBSET (1..Len(s))
  BY <1>1 DEF Indices
<1>4. IsFiniteSet(Indices(s, V))
  BY <1>2, <1>3, FS_Subset
<1> QED BY <1>4, FS_CardinalityType DEF Count

\* Moving a set of naturals by n does not change its size.
LEMMA ShiftedSize ==
    ASSUME NEW I \in SUBSET Nat, IsFiniteSet(I), NEW n \in Nat
    PROVE  /\ IsFiniteSet({i + n : i \in I})
           /\ Cardinality({i + n : i \in I}) = Cardinality(I)
<1> DEFINE f == [i \in I |-> i + n]
           J == {i + n : i \in I}
<1>1. f \in Bijection(I, J)
  BY DEF Bijection, Injection, Surjection, IsInjective
<1>2. ExistsBijection(I, J)
  BY <1>1 DEF ExistsBijection
<1> QED BY <1>2, FS_Bijection

LEMMA CountConcat ==
    ASSUME NEW S, NEW s \in Seq(S), NEW t \in Seq(S), NEW V
    PROVE  Count(s \o t, V) = Count(s, V) + Count(t, V)
<1> DEFINE I == Indices(s, V)
           J == {i + Len(s) : i \in Indices(t, V)}
<1>1. /\ Len(s) \in Nat /\ DOMAIN s = 1..Len(s) /\ Len(t) \in Nat /\ DOMAIN t = 1..Len(t)
      /\ DOMAIN (s \o t) = 1..(Len(s) + Len(t))
      /\ \A i \in 1..(Len(s) + Len(t)) :
            (s \o t)[i] = IF i <= Len(s) THEN s[i] ELSE t[i - Len(s)]
  BY LenProperties, ConcatProperties
<1>2. Indices(s \o t, V) = I \cup J
  <2>1. ASSUME NEW i \in Indices(s \o t, V) PROVE i \in I \cup J
    <3>1. i \in 1..(Len(s) + Len(t)) /\ (s \o t)[i] \in V
      BY <1>1, <2>1 DEF Indices
    <3>2. CASE i <= Len(s)
      BY <1>1, <3>1, <3>2 DEF Indices
    <3>3. CASE ~ (i <= Len(s))
      <4>1. i - Len(s) \in 1..Len(t) /\ t[i - Len(s)] \in V /\ i = (i - Len(s)) + Len(s)
        BY <1>1, <3>1, <3>3
      <4> QED BY <1>1, <4>1 DEF Indices
    <3> QED BY <3>2, <3>3
  <2>2. ASSUME NEW i \in I PROVE i \in Indices(s \o t, V)
    BY <1>1 DEF Indices
  <2>3. ASSUME NEW j \in Indices(t, V) PROVE j + Len(s) \in Indices(s \o t, V)
    <3>1. /\ j \in 1..Len(t) /\ t[j] \in V
      BY <1>1 DEF Indices
    <3>2. j + Len(s) \in 1..(Len(s) + Len(t)) /\ ~ (j + Len(s) <= Len(s))
          /\ (j + Len(s)) - Len(s) = j
      BY <1>1, <3>1
    <3>3. (s \o t)[j + Len(s)] = t[j]
      BY <1>1, <3>2
    <3> QED BY <1>1, <3>1, <3>2, <3>3 DEF Indices
  <2> QED BY <2>1, <2>2, <2>3
<1>3. /\ IsFiniteSet(I) /\ IsFiniteSet(Indices(t, V))
      /\ Cardinality(I) = Count(s, V) /\ Cardinality(Indices(t, V)) = Count(t, V)
      /\ Count(s, V) \in Nat /\ Count(t, V) \in Nat
  BY CountNat DEF Count
<1>4. IsFiniteSet(J) /\ Cardinality(J) = Count(t, V)
  <2>1. Indices(t, V) \in SUBSET Nat
    BY <1>1 DEF Indices
  <2> QED BY <1>1, <1>3, <2>1, ShiftedSize
<1>5. I \cap J = {}
  BY <1>1 DEF Indices
<1> HIDE DEF I, J
<1>6. Cardinality(I \cup J) = Cardinality(I) + Cardinality(J) - Cardinality(I \cap J)
  BY <1>3, <1>4, FS_Union
<1>7. Cardinality(I \cap J) = 0
  BY <1>5, FS_EmptySet
<1> QED BY <1>2, <1>3, <1>4, <1>6, <1>7 DEF Count

LEMMA CountSingle ==
    ASSUME NEW e, NEW V
    PROVE  Count(<<e>>, V) = IF e \in V THEN 1 ELSE 0
<1>1. CASE e \in V
  <2>1. Indices(<<e>>, V) = {1}
    BY <1>1 DEF Indices
  <2> QED BY <1>1, <2>1, FS_Singleton DEF Count
<1>2. CASE e \notin V
  <2>1. Indices(<<e>>, V) = {}
    BY <1>2 DEF Indices
  <2> QED BY <1>2, <2>1, FS_EmptySet DEF Count
<1> QED BY <1>1, <1>2

LEMMA CountEmpty ==
    ASSUME NEW V
    PROVE  Count(<<>>, V) = 0
<1>1. Indices(<<>>, V) = {}
  BY DEF Indices
<1> QED BY <1>1, FS_EmptySet DEF Count

LEMMA CountAppend ==
    ASSUME NEW S, NEW s \in Seq(S), NEW e \in S, NEW V
    PROVE  Count(Append(s, e), V) = Count(s, V) + IF e \in V THEN 1 ELSE 0
<1>1. Append(s, e) = s \o <<e>> /\ <<e>> \in Seq(S)
  BY AppendIsConcat
<1>2. Count(s \o <<e>>, V) = Count(s, V) + Count(<<e>>, V)
  BY <1>1, CountConcat
<1>3. Count(<<e>>, V) = IF e \in V THEN 1 ELSE 0
  BY CountSingle
<1> QED BY <1>1, <1>2, <1>3

LEMMA CountTail ==
    ASSUME NEW S, NEW s \in Seq(S), s # <<>>, NEW V
    PROVE  Count(s, V) = Count(Tail(s), V) + IF Head(s) \in V THEN 1 ELSE 0
<1>1. Head(s) \in S /\ Tail(s) \in Seq(S) /\ <<Head(s)>> \in Seq(S)
  BY HeadTailProperties
<1>2. s = <<Head(s)>> \o Tail(s)
  OBVIOUS
<1>3. Count(<<Head(s)>> \o Tail(s), V) = Count(<<Head(s)>>, V) + Count(Tail(s), V)
  BY <1>1, CountConcat
<1>4. Count(<<Head(s)>>, V) \in Nat /\ Count(Tail(s), V) \in Nat
  BY <1>1, CountNat
<1>5. Count(<<Head(s)>>, V) = IF Head(s) \in V THEN 1 ELSE 0
  BY CountSingle
<1>6. Count(s, V) = Count(<<Head(s)>>, V) + Count(Tail(s), V)
  BY <1>2, <1>3
<1> QED BY <1>4, <1>5, <1>6

\* A sequence cut in two.
LEMMA CountCut ==
    ASSUME NEW S, NEW s \in Seq(S), NEW n \in 0..Len(s), NEW V
    PROVE  Count(s, V) = Count(SubSeq(s, 1, n), V) + Count(SubSeq(s, n + 1, Len(s)), V)
<1>1. Len(s) \in Nat /\ n \in Nat
  BY LenProperties
<1>2. SubSeq(s, 1, n) \in Seq(S) /\ SubSeq(s, n + 1, Len(s)) \in Seq(S)
  BY <1>1
<1>3. SubSeq(s, 1, n) \o SubSeq(s, n + 1, Len(s)) = s
  <2>1. 1 \in 1..Len(s) + 1 /\ n \in 1 - 1 .. Len(s) /\ Len(s) \in n..Len(s)
    BY <1>1
  <2>2. SubSeq(s, 1, n) \o SubSeq(s, n + 1, Len(s)) = SubSeq(s, 1, Len(s))
    BY <2>1, ConcatAdjacentSubSeq
  <2> QED BY <2>2, SubSeqFull
<1> DEFINE a == SubSeq(s, 1, n)
           b == SubSeq(s, n + 1, Len(s))
<1>4. Count(a \o b, V) = Count(a, V) + Count(b, V)
  BY <1>2, CountConcat
<1> QED BY <1>3, <1>4

LEMMA CountNone ==
    ASSUME NEW S, NEW s \in Seq(S), NEW V
    PROVE  Count(s, V) = 0 <=> \A i \in DOMAIN s : s[i] \notin V
<1>1. Count(s, V) = 0 <=> Indices(s, V) = {}
  BY CountNat, FS_EmptySet DEF Count
<1> QED BY <1>1 DEF Indices

LEMMA CountOnce ==
    ASSUME NEW S, NEW s \in Seq(S), NEW V, Count(s, V) = 1,
           NEW i \in DOMAIN s, NEW j \in DOMAIN s, s[i] \in V, s[j] \in V
    PROVE  i = j
<1>1. PICK x : Indices(s, V) = {x}
  BY CountNat, FS_Singleton DEF Count
<1> QED BY <1>1 DEF Indices

---------------------------------------------------------------------------
(* Which element of I is i, counted from the least.                         *)

Rank(i, I) == Cardinality({j \in I : j <= i})

LEMMA RankOrder ==
    ASSUME NEW I \in SUBSET Nat, IsFiniteSet(I), NEW i \in I
    PROVE  /\ Rank(i, I) \in 1..Cardinality(I)
           /\ \A k \in I : k < i => Rank(k, I) < Rank(i, I)
<1> DEFINE B(k) == {j \in I : j <= k}
<1>0. Cardinality(I) \in Nat
  BY FS_CardinalityType
<1>1. \A k \in I : IsFiniteSet(B(k)) /\ Cardinality(B(k)) \in Nat /\ Cardinality(B(k)) <= Cardinality(I)
  <2> SUFFICES ASSUME NEW k \in I
               PROVE  IsFiniteSet(B(k)) /\ Cardinality(B(k)) \in Nat /\ Cardinality(B(k)) <= Cardinality(I)
    OBVIOUS
  <2>1. B(k) \in SUBSET I
    OBVIOUS
  <2>2. IsFiniteSet(B(k)) /\ Cardinality(B(k)) <= Cardinality(I)
    BY <2>1, FS_Subset
  <2> QED BY <2>2, FS_CardinalityType
<1>2. Cardinality(B(i)) # 0
  <2>1. i \in B(i)
    OBVIOUS
  <2> QED BY <1>1, <2>1, FS_EmptySet
<1>3. ASSUME NEW k \in I, k < i PROVE Cardinality(B(k)) < Cardinality(B(i))
  <2>0. k \in Nat /\ i \in Nat /\ k < i /\ I \subseteq Nat
    BY <1>3
  <2>4. i \in B(i) /\ i \notin B(k)
    BY <2>0
  <2>5. \A j \in B(k) : j \in I /\ j <= i
    BY <2>0
  <2>1. B(k) \in SUBSET B(i) /\ i \in B(i) /\ i \notin B(k)
    BY <2>4, <2>5
  <2>2. Cardinality(B(k)) <= Cardinality(B(i))
    BY <1>1, <2>1, FS_Subset
  <2>3. Cardinality(B(k)) # Cardinality(B(i))
    <3>1. B(i) # B(k)
      BY <2>1
    <3> QED BY <1>1, <2>1, <3>1, FS_Subset
  <2> QED BY <1>1, <1>3, <2>2, <2>3
<1> QED BY <1>0, <1>1, <1>2, <1>3 DEF Rank

\* The k-th element of a finite set of naturals exists, and is one.
LEMMA RankOnto ==
    ASSUME NEW I \in SUBSET Nat, IsFiniteSet(I)
    PROVE  /\ \A k \in 1..Cardinality(I) : \E i \in I : Rank(i, I) = k
           /\ \A i, j \in I : Rank(i, I) = Rank(j, I) => i = j
<1> DEFINE T == 1..Cardinality(I)
           f == [i \in I |-> Rank(i, I)]
<1>1. Cardinality(I) \in Nat
  BY FS_CardinalityType
<1>2. \A i \in I : Rank(i, I) \in T
  BY RankOrder
<1>3. \A i, j \in I : Rank(i, I) = Rank(j, I) => i = j
  <2> SUFFICES ASSUME NEW i \in I, NEW j \in I, Rank(i, I) = Rank(j, I), i # j PROVE FALSE
    OBVIOUS
  <2>1. Rank(i, I) \in Nat /\ Rank(j, I) \in Nat
    BY <1>1, <1>2
  <2>2. CASE i < j
    <3>1. Rank(i, I) < Rank(j, I)
      BY <2>2, RankOrder
    <3> QED BY <2>1, <3>1
  <2>3. CASE j < i
    <3>1. Rank(j, I) < Rank(i, I)
      BY <2>3, RankOrder
    <3> QED BY <2>1, <3>1
  <2> QED BY <2>2, <2>3
<1>4. f \in Injection(I, T)
  BY <1>2, <1>3 DEF Injection, IsInjective
<1>5. IsFiniteSet(T) /\ Cardinality(T) = Cardinality(I)
  BY <1>1, FS_Interval
<1>6. f \in Surjection(I, T)
  BY <1>4, <1>5, FS_Injection
<1>7. \A k \in T : \E i \in I : f[i] = k
  BY <1>6 DEF Surjection
<1> QED BY <1>3, <1>7

LEMMA RankNat ==
    ASSUME NEW I \in SUBSET Nat, IsFiniteSet(I), NEW n \in Nat
    PROVE  /\ IsFiniteSet({i \in I : i <= n}) /\ Rank(n, I) \in Nat
           /\ Cardinality(I) \in Nat /\ Rank(n, I) <= Cardinality(I)
<1> DEFINE B == {i \in I : i <= n}
<1>1. B \in SUBSET I
  OBVIOUS
<1>2. IsFiniteSet(B) /\ Cardinality(B) <= Cardinality(I)
  BY <1>1, FS_Subset
<1> QED BY <1>2, FS_CardinalityType DEF Rank

LEMMA RankMono ==
    ASSUME NEW I \in SUBSET Nat, IsFiniteSet(I), NEW m \in Nat, NEW n \in Nat, m <= n
    PROVE  Rank(m, I) <= Rank(n, I)
<1> DEFINE B == {i \in I : i <= m}
           C == {i \in I : i <= n}
<1>1. IsFiniteSet(C)
  BY RankNat
<1>0. \A i \in I : i \in Nat /\ (i <= m => i <= n)
  OBVIOUS
<1>2. B \in SUBSET C
  BY <1>0
<1>3. Cardinality(B) <= Cardinality(C)
  BY <1>1, <1>2, FS_Subset
<1> QED BY <1>3 DEF Rank

\* What lies above n, counted from n on.
Above(n, I) == {j \in Nat \ {0} : j + n \in I}

LEMMA RankSplit ==
    ASSUME NEW I \in SUBSET Nat, IsFiniteSet(I), NEW n \in Nat
    PROVE  /\ Above(n, I) \in SUBSET Nat /\ IsFiniteSet(Above(n, I))
           /\ Cardinality(I) = Rank(n, I) + Cardinality(Above(n, I))
           /\ \A k \in Nat : Rank(n + k, I) = Rank(n, I) + Rank(k, Above(n, I))
<1> DEFINE J == Above(n, I)
           H == {i \in I : n < i}
           f == [i \in H |-> i - n]
<1>1. J \in SUBSET Nat
  BY DEF Above
<1>2. IsFiniteSet(H)
  <2>1. H \in SUBSET I
    OBVIOUS
  <2> QED BY <2>1, FS_Subset
<1>3. f \in Bijection(H, J)
  <2>1. \A i \in H : f[i] \in J
    BY DEF Above
  <2>2. \A i, k \in H : f[i] = f[k] => i = k
    OBVIOUS
  <2>3. \A j \in J : j + n \in H /\ f[j + n] = j
    BY DEF Above
  <2> QED BY <2>1, <2>2, <2>3 DEF Bijection, Injection, Surjection, IsInjective
<1>4. IsFiniteSet(J)
  BY <1>2, <1>3, FS_Bijection DEF ExistsBijection
<1>5. ASSUME NEW L \in SUBSET J
      PROVE  Cardinality({i \in I : i <= n} \cup {j + n : j \in L}) = Rank(n, I) + Cardinality(L)
  <2> DEFINE A == {i \in I : i <= n}
             B == {j + n : j \in L}
  <2>1. IsFiniteSet(L) /\ L \in SUBSET Nat
    BY <1>1, <1>4, FS_Subset
  <2>2. IsFiniteSet(B) /\ Cardinality(B) = Cardinality(L)
    BY <2>1, ShiftedSize
  <2>3. IsFiniteSet(A) /\ Cardinality(A) = Rank(n, I)
    BY RankNat DEF Rank
  <2>4. A \cap B = {}
    <3>1. \A j \in L : j \in Nat \ {0} /\ ~ (j + n <= n)
      BY DEF Above
    <3> QED BY <3>1
  <2> HIDE DEF A, B
  <2>5. Cardinality(A \cup B) = Cardinality(A) + Cardinality(B) - Cardinality(A \cap B)
    BY <2>2, <2>3, FS_Union
  <2>6. Cardinality(A \cap B) = 0
    BY <2>4, FS_EmptySet
  <2>7. Cardinality(A) \in Nat /\ Cardinality(B) \in Nat
    BY <2>2, <2>3, FS_CardinalityType
  <2>8. Cardinality(A \cup B) = Rank(n, I) + Cardinality(L)
    BY <2>2, <2>3, <2>5, <2>6, <2>7
  <2> QED BY <2>8 DEF A, B
<1>6. Cardinality(I) = Rank(n, I) + Cardinality(J)
  <2>1. I = {i \in I : i <= n} \cup {j + n : j \in J}
    <3>1. ASSUME NEW i \in I, ~ (i <= n) PROVE i - n \in J /\ i = (i - n) + n
      BY <3>1 DEF Above
    <3>2. \A j \in J : j + n \in I
      BY DEF Above
    <3> HIDE DEF J
    <3> QED BY <3>1, <3>2
  <2>2. J \in SUBSET J
    OBVIOUS
  <2> HIDE DEF J
  <2> QED BY <1>5, <2>1, <2>2
<1>7. ASSUME NEW k \in Nat PROVE Rank(n + k, I) = Rank(n, I) + Rank(k, J)
  <2> DEFINE L == {j \in J : j <= k}
  <2>1. {i \in I : i <= n + k} = {i \in I : i <= n} \cup {j + n : j \in L}
    <3>1. ASSUME NEW i \in I, i <= n + k, ~ (i <= n) PROVE i - n \in L /\ i = (i - n) + n
      BY <3>1 DEF Above
    <3>2. \A j \in L : j + n \in I /\ j + n <= n + k
      BY DEF Above
    <3>3. \A i \in I : i <= n => i <= n + k
      OBVIOUS
    <3> HIDE DEF L, J
    <3> QED BY <3>1, <3>2, <3>3
  <2>2. L \in SUBSET J
    OBVIOUS
  <2>3. Rank(k, J) = Cardinality(L)
    BY DEF Rank
  <2>4. Rank(n + k, I) = Cardinality({i \in I : i <= n + k})
    BY DEF Rank
  <2> HIDE DEF L, J
  <2> QED BY <1>5, <2>1, <2>2, <2>3, <2>4
<1> QED BY <1>1, <1>4, <1>6, <1>7

\* The rank depends on what is below only.
LEMMA RankBelow ==
    ASSUME NEW I \in SUBSET Nat, NEW n \in Nat, NEW i \in Nat, i <= n
    PROVE  Rank(i, {j \in I : j <= n}) = Rank(i, I)
<1>0. \A k \in I : k \in Nat /\ (k <= i => k <= n)
  OBVIOUS
<1>1. {k \in {j \in I : j <= n} : k <= i} = {k \in I : k <= i}
  BY <1>0
<1> QED BY <1>1 DEF Rank

\* A bounded set of naturals has a largest element.
LEMMA LargestNat ==
    ASSUME NEW n \in Nat, NEW S \in SUBSET (0..n), S # {}
    PROVE  \E i \in S : \A j \in S : j <= i
<1> DEFINE M == {n - i : i \in S}
<1>0. \A i \in S : i \in Nat /\ i <= n /\ n - i \in Nat
  OBVIOUS
<1>1. M \in SUBSET Nat /\ M # {}
  BY <1>0
<1>2. PICK m \in M : \A k \in M : m <= k
  BY <1>1, SmallestNat
<1>3. PICK i \in S : m = n - i
  BY <1>2
<1>4. ASSUME NEW j \in S PROVE j <= i
  <2>1. n - j \in M
    OBVIOUS
  <2>2. n - i <= n - j
    BY <1>2, <1>3, <2>1
  <2> QED BY <1>0, <2>2
<1> QED BY <1>4

\* The quotient of two naturals.
LEMMA DivBounds ==
    ASSUME NEW a \in Nat, NEW b \in Nat \ {0}
    PROVE  a \div b \in Nat /\ b * (a \div b) <= a /\ a < b * (a \div b) + b
    OBVIOUS

---------------------------------------------------------------------------
(* Sequences.                                                             *)

\* The first element taken off.
LEMMA HeadOff ==
    ASSUME NEW S, NEW p \in Seq(S), p # <<>>
    PROVE  /\ Head(p) = p[1] /\ 1 \in DOMAIN p /\ Head(p) \in S
           /\ Tail(p) \in Seq(S)
           /\ \A i \in DOMAIN Tail(p) :
                 i \in Nat /\ i # 0 /\ i + 1 \in DOMAIN p /\ Tail(p)[i] = p[i + 1]
           /\ \A i \in DOMAIN p :
                 i \in Nat /\ (i # 1 => i - 1 \in DOMAIN Tail(p) /\ Tail(p)[i - 1] = p[i])
<1>1. Len(p) \in Nat /\ Len(p) # 0 /\ DOMAIN p = 1..Len(p)
  BY LenProperties, EmptySeq
<1>2. /\ Tail(p) \in Seq(S) /\ Len(Tail(p)) = Len(p) - 1 /\ Head(p) \in S
      /\ DOMAIN Tail(p) = 1..(Len(p) - 1)
      /\ \A i \in 1..(Len(p) - 1) : Tail(p)[i] = p[i + 1]
  BY <1>1, HeadTailProperties, LenProperties
<1>3. Head(p) = p[1] /\ 1 \in DOMAIN p
  BY <1>1
<1>4. ASSUME NEW i \in DOMAIN Tail(p)
      PROVE  i \in Nat /\ i # 0 /\ i + 1 \in DOMAIN p /\ Tail(p)[i] = p[i + 1]
  BY <1>1, <1>2
<1>5. ASSUME NEW i \in DOMAIN p
      PROVE  i \in Nat /\ (i # 1 => i - 1 \in DOMAIN Tail(p) /\ Tail(p)[i - 1] = p[i])
  <2>1. i \in Nat
    BY <1>1
  <2>2. ASSUME i # 1 PROVE i - 1 \in DOMAIN Tail(p) /\ Tail(p)[i - 1] = p[i]
    <3>1. i - 1 \in 1..(Len(p) - 1) /\ (i - 1) + 1 = i
      BY <1>1, <2>2
    <3> QED BY <1>2, <3>1
  <2> QED BY <2>1, <2>2
<1> QED BY <1>2, <1>3, <1>4, <1>5

\* An element put at the end.
LEMMA EndOn ==
    ASSUME NEW S, NEW p \in Seq(S), NEW e \in S
    PROVE  /\ Append(p, e) \in Seq(S) /\ Len(p) \in Nat
           /\ DOMAIN p = 1..Len(p) /\ DOMAIN Append(p, e) = 1..(Len(p) + 1)
           /\ \A i \in DOMAIN p : i \in DOMAIN Append(p, e) /\ Append(p, e)[i] = p[i]
           /\ Append(p, e)[Len(p) + 1] = e
           /\ \A i \in DOMAIN Append(p, e) : i \in DOMAIN p \/ i = Len(p) + 1
<1>1. Len(p) \in Nat /\ DOMAIN p = 1..Len(p)
  BY LenProperties
<1>2. /\ Append(p, e) \in Seq(S) /\ Len(Append(p, e)) = Len(p) + 1
      /\ \A i \in 1..Len(p) : Append(p, e)[i] = p[i]
      /\ Append(p, e)[Len(p) + 1] = e
  BY AppendProperties
<1>3. DOMAIN Append(p, e) = 1..(Len(p) + 1)
  BY <1>2, LenProperties
<1> QED BY <1>1, <1>2, <1>3

\* An element put at the end of the second of two sequences.
LEMMA AppendLater ==
    ASSUME NEW S, NEW d \in Seq(S), NEW s \in Seq(S), NEW e \in S
    PROVE  d \o Append(s, e) = Append(d \o s, e) /\ d \o s \in Seq(S)
<1>1. Append(s, e) = s \o <<e>> /\ d \o s \in Seq(S) /\ <<e>> \in Seq(S)
  BY AppendIsConcat, ConcatProperties
<1>2. Append(d \o s, e) = (d \o s) \o <<e>>
  BY <1>1, AppendIsConcat
<1>3. (d \o s) \o <<e>> = d \o (s \o <<e>>)
  BY <1>1, ConcatAssociative
<1> QED BY <1>1, <1>2, <1>3

\* A sequence put at the end.
LEMMA JoinOn ==
    ASSUME NEW S, NEW q \in Seq(S), NEW s \in Seq(S)
    PROVE  /\ q \o s \in Seq(S) /\ Len(q) \in Nat /\ Len(s) \in Nat
           /\ DOMAIN q = 1..Len(q) /\ DOMAIN s = 1..Len(s)
           /\ DOMAIN (q \o s) = 1..(Len(q) + Len(s))
           /\ \A i \in DOMAIN q : i \in DOMAIN (q \o s) /\ (q \o s)[i] = q[i]
           /\ \A i \in DOMAIN s : Len(q) + i \in DOMAIN (q \o s) /\ (q \o s)[Len(q) + i] = s[i]
           /\ \A i \in DOMAIN (q \o s) :
                 i \in DOMAIN q \/ (i - Len(q) \in DOMAIN s /\ i = Len(q) + (i - Len(q))
                                    /\ (q \o s)[i] = s[i - Len(q)])
<1>1. /\ Len(q) \in Nat /\ DOMAIN q = 1..Len(q) /\ Len(s) \in Nat /\ DOMAIN s = 1..Len(s)
  BY LenProperties
<1>2. /\ q \o s \in Seq(S) /\ Len(q \o s) = Len(q) + Len(s)
      /\ \A i \in 1..(Len(q) + Len(s)) :
            (q \o s)[i] = IF i <= Len(q) THEN q[i] ELSE s[i - Len(q)]
  BY ConcatProperties
<1>3. DOMAIN (q \o s) = 1..(Len(q) + Len(s))
  BY <1>2, LenProperties
<1> DEFINE m == Len(q)
           n == Len(s)
           t == q \o s
<1>4. /\ m \in Nat /\ n \in Nat /\ DOMAIN q = 1..m /\ DOMAIN s = 1..n /\ DOMAIN t = 1..(m + n)
      /\ \A i \in 1..(m + n) : t[i] = IF i <= m THEN q[i] ELSE s[i - m]
  BY <1>1, <1>2, <1>3
<1> HIDE DEF m, n, t
<1>5. \A i \in DOMAIN q : i \in DOMAIN t /\ t[i] = q[i]
  BY <1>4
<1>6. ASSUME NEW i \in DOMAIN s PROVE m + i \in DOMAIN t /\ t[m + i] = s[i]
  <2>1. m + i \in 1..(m + n) /\ ~ (m + i <= m) /\ (m + i) - m = i
    BY <1>4
  <2> QED BY <1>4, <2>1
<1>7. ASSUME NEW i \in DOMAIN t
      PROVE  i \in DOMAIN q \/ (i - m \in DOMAIN s /\ i = m + (i - m) /\ t[i] = s[i - m])
  <2>1. i \in DOMAIN q \/ (i - m \in 1..n /\ i = m + (i - m) /\ ~ (i <= m))
    BY <1>4
  <2> QED BY <1>4, <2>1
<1> QED BY <1>1, <1>2, <1>3, <1>5, <1>6, <1>7 DEF m, n, t

\* Three sequences, one after the other.
LEMMA ThreeParts ==
    ASSUME NEW S, NEW a \in Seq(S), NEW b \in Seq(S), NEW c \in Seq(S)
    PROVE  a \o (b \o c) = (a \o b) \o c
    BY ConcatAssociative

\* The first of two sequences loses its head.
LEMMA QueueHead ==
    ASSUME NEW S, NEW d \in Seq(S), NEW s \in Seq(S), d # <<>>
    PROVE  /\ d \o s \in Seq(S) /\ d \o s # <<>>
           /\ Head(d \o s) = Head(d) /\ Tail(d \o s) = Tail(d) \o s
           /\ Tail(d) \in Seq(S) /\ Head(d) \in S
<1>1. /\ d \o s \in Seq(S) /\ Len(d \o s) = Len(d) + Len(s)
      /\ \A i \in 1..(Len(d) + Len(s)) :
            (d \o s)[i] = IF i <= Len(d) THEN d[i] ELSE s[i - Len(d)]
  BY ConcatProperties
<1>2. Len(d) \in Nat /\ Len(s) \in Nat /\ Len(d) # 0
  BY LenProperties, EmptySeq
<1>3. d \o s # <<>>
  BY <1>1, <1>2
<1>4. /\ Head(d) = d[1] /\ Head(d) \in S /\ Tail(d) \in Seq(S) /\ Len(Tail(d)) = Len(d) - 1
      /\ \A i \in 1..Len(Tail(d)) : Tail(d)[i] = d[i + 1]
  BY HeadTailProperties, HeadOff
<1>5. /\ Head(d \o s) = (d \o s)[1] /\ Tail(d \o s) \in Seq(S)
      /\ Len(Tail(d \o s)) = Len(d \o s) - 1
      /\ \A i \in 1..Len(Tail(d \o s)) : Tail(d \o s)[i] = (d \o s)[i + 1]
  BY <1>1, <1>3, HeadTailProperties, HeadOff
<1>6. /\ Tail(d) \o s \in Seq(S) /\ Len(Tail(d) \o s) = Len(Tail(d)) + Len(s)
      /\ \A i \in 1..(Len(Tail(d)) + Len(s)) :
            (Tail(d) \o s)[i] = IF i <= Len(Tail(d)) THEN Tail(d)[i] ELSE s[i - Len(Tail(d))]
  BY <1>4, ConcatProperties
<1> DEFINE n == Len(d)
           k == Len(s)
           t == Tail(d)
           x == Tail(d \o s)
           y == Tail(d) \o s
           z == d \o s
<1>7. /\ n \in Nat /\ k \in Nat /\ n # 0 /\ Len(t) = n - 1 /\ Len(x) = n + k - 1 /\ Len(y) = n + k - 1
  BY <1>1, <1>2, <1>4, <1>5, <1>6
<1>8. /\ \A i \in 1..(n + k) : z[i] = IF i <= n THEN d[i] ELSE s[i - n]
      /\ \A i \in 1..Len(t) : t[i] = d[i + 1]
      /\ \A i \in 1..Len(x) : x[i] = z[i + 1]
      /\ \A i \in 1..(Len(t) + k) : y[i] = IF i <= Len(t) THEN t[i] ELSE s[i - Len(t)]
      /\ x \in Seq(S) /\ y \in Seq(S) /\ Head(d) = d[1] /\ Head(z) = z[1]
  BY <1>1, <1>4, <1>5, <1>6
<1> HIDE DEF n, k, t, x, y, z
<1>9. Head(z) = Head(d)
  BY <1>7, <1>8
<1>10. ASSUME NEW i \in 1..Len(x) PROVE x[i] = y[i]
  <2>1. i \in Nat /\ i + 1 \in 1..(n + k) /\ i \in 1..(Len(t) + k) /\ i \in 1..Len(x)
    BY <1>7
  <2>2. x[i] = z[i + 1]
    BY <1>8
  <2>3. CASE i <= n - 1
    <3>1. i + 1 <= n /\ i \in 1..Len(t) /\ i <= Len(t)
      BY <1>7, <2>1, <2>3
    <3> QED BY <1>8, <2>1, <2>2, <3>1
  <2>4. CASE ~ (i <= n - 1)
    <3>1. ~ (i + 1 <= n) /\ ~ (i <= Len(t)) /\ i + 1 - n = i - Len(t)
      BY <1>7, <2>1, <2>4
    <3>2. y[i] = s[i - Len(t)]
      BY <1>8, <2>1, <3>1
    <3> DEFINE j == i + 1
    <3>3. j \in 1..(n + k) /\ ~ (j <= n) /\ j - n = i - Len(t)
      BY <1>7, <2>1, <2>4
    <3>5. x[i] = z[j]
      BY <2>2, Zenon
    <3> HIDE DEF j
    <3>4. z[j] = s[j - n]
      BY <1>8, <3>3
    <3> QED BY <3>2, <3>3, <3>4, <3>5, Zenon
  <2> QED BY <2>3, <2>4
<1>11. x = y
  BY <1>7, <1>8, <1>10, SeqEqual
<1> QED BY <1>1, <1>3, <1>4, <1>9, <1>11 DEF x, y, z

\* The beginning and the rest of a sequence.
LEMMA CutIndices ==
    ASSUME NEW S, NEW q \in Seq(S), NEW n \in 0..Len(q)
    PROVE  /\ SubSeq(q, 1, n) \in Seq(S) /\ SubSeq(q, n + 1, Len(q)) \in Seq(S)
           /\ DOMAIN SubSeq(q, 1, n) = 1..n
           /\ DOMAIN SubSeq(q, n + 1, Len(q)) = 1..(Len(q) - n)
           /\ \A i \in 1..n : i \in DOMAIN q /\ SubSeq(q, 1, n)[i] = q[i]
           /\ \A i \in 1..(Len(q) - n) :
                 i + n \in DOMAIN q /\ SubSeq(q, n + 1, Len(q))[i] = q[i + n]
<1>1. Len(q) \in Nat /\ DOMAIN q = 1..Len(q) /\ n \in Nat /\ n <= Len(q)
  BY LenProperties
<1>2. SubSeq(q, 1, n) \in Seq(S) /\ SubSeq(q, n + 1, Len(q)) \in Seq(S)
  BY <1>1
<1>3. Len(SubSeq(q, 1, n)) = n
  BY <1>1
<1>4. DOMAIN SubSeq(q, 1, n) = 1..n /\ DOMAIN SubSeq(q, n + 1, Len(q)) = 1..(Len(q) - n)
  BY <1>1
<1>5. \A i \in 1..n : i \in DOMAIN q /\ SubSeq(q, 1, n)[i] = q[i]
  BY <1>1
<1>6. ASSUME NEW i \in 1..(Len(q) - n)
      PROVE  i + n \in DOMAIN q /\ SubSeq(q, n + 1, Len(q))[i] = q[i + n]
  <2>1. (n + 1) + i - 1 = i + n /\ i + n \in 1..Len(q)
    BY <1>1
  <2> QED BY <1>1, <2>1
<1> QED BY <1>2, <1>4, <1>5, <1>6

\* What is left when n elements are taken off.
LEMMA CutLen ==
    ASSUME NEW S, NEW q \in Seq(S), NEW n \in 0..Len(q)
    PROVE  Len(SubSeq(q, n + 1, Len(q))) = Len(q) - n
<1>1. Len(q) \in Nat /\ n \in Nat /\ n <= Len(q)
  BY LenProperties
<1> QED BY <1>1

---------------------------------------------------------------------------
(* Bags.                                                                  *)

\* A bag over at most one element has as many as there are copies of it.
LEMMA OneElementBag ==
    ASSUME NEW r, NEW B, DOMAIN B = {r}, B[r] \in Nat
    PROVE  BagCardinality(B) = B[r]
<1> DEFINE Rec(X) == [S \in SUBSET DOMAIN B |->
                         LET elt == CHOOSE e \in S : TRUE
                         IN  IF S = {} THEN 0 ELSE B[elt] + X[S \ {elt}]]
           D == [S \in SUBSET DOMAIN B |-> IF S = {} THEN 0 ELSE B[r]]
           C == CHOOSE X : X = Rec(X)
<1>1. D = Rec(D)
  <2>1. ASSUME NEW S \in SUBSET DOMAIN B PROVE D[S] = Rec(D)[S]
    <3>1. CASE S = {}
      BY <3>1
    <3>2. CASE S = {r}
      <4>1. (CHOOSE e \in S : TRUE) = r
        BY <3>2
      <4>2. S \ {r} = {} /\ {} \in SUBSET DOMAIN B
        BY <3>2
      <4> QED BY <3>2, <4>1, <4>2
    <3> QED BY <3>1, <3>2
  <2> QED BY <2>1
<1>2. C = Rec(C)
  <2> HIDE DEF Rec, D
  <2> QED BY <1>1
<1>3. BagCardinality(B) = C[DOMAIN B]
  BY DEF BagCardinality
<1>4. C[{}] = 0 /\ C[DOMAIN B] = B[r] + C[{}]
  <2> HIDE DEF C
  <2>1. Rec(C)[{}] = 0
    OBVIOUS
  <2>2. (CHOOSE e \in DOMAIN B : TRUE) = r
    OBVIOUS
  <2>3. Rec(C)[DOMAIN B] = B[r] + C[{}]
    BY <2>2
  <2>4. \A S : C[S] = Rec(C)[S]
    <3> HIDE DEF Rec
    <3> QED BY <1>2
  <2> QED BY <2>1, <2>3, <2>4
<1> QED BY <1>3, <1>4

\* The empty bag has nothing.
LEMMA NoElementBag ==
    ASSUME NEW B, DOMAIN B = {}
    PROVE  BagCardinality(B) = 0
<1> DEFINE Rec(X) == [S \in SUBSET DOMAIN B |->
                         LET elt == CHOOSE e \in S : TRUE
                         IN  IF S = {} THEN 0 ELSE B[elt] + X[S \ {elt}]]
           D == [S \in SUBSET DOMAIN B |-> 0]
           C == CHOOSE X : X = Rec(X)
<1>1. D = Rec(D)
  OBVIOUS
<1>2. C = Rec(C)
  <2> HIDE DEF Rec, D
  <2> QED BY <1>1
<1>3. BagCardinality(B) = C[DOMAIN B]
  BY DEF BagCardinality
<1>4. C[{}] = 0
  <2> HIDE DEF C
  <2>1. Rec(C)[{}] = 0
    OBVIOUS
  <2>2. C[{}] = Rec(C)[{}]
    <3> HIDE DEF Rec
    <3> QED BY <1>2
  <2> QED BY <2>1, <2>2
<1> QED BY <1>3, <1>4
====
