----------------------------- MODULE ListLemmas -----------------------------
(***************************************************************************)
(* Facts about finite sets of numbers and about lists that the theorems on *)
(* the models rest on: what is first, and what is left when an element is  *)
(* removed.                                                                *)
(***************************************************************************)
EXTENDS SequencesExt, SequenceTheorems, FiniteSetTheorems, TLAPS

\* Among finite sets there is a smallest: what is false of some set is false of
\* one of whose proper subsets it is true.  (Induction, without an operator.)
LEMMA SmallestCounterexample ==
    ASSUME NEW S, IsFiniteSet(S), NEW T \in SUBSET (SUBSET S), T # {}
    PROVE  \E U \in T : \A V \in SUBSET S : V \subseteq U /\ V # U => V \notin T
<1>1. T \subseteq FiniteSubsetsOf(S)
  BY FS_FiniteSubsetsOfFinite
<1>2. PICK U \in T : \A V \in T : ~(<<V, U>> \in StrictSubsetOrdering(S))
  BY <1>1, FS_StrictSubsetOrderingWellFounded, WFMin
<1>3. \A V \in T : ~(V \subseteq U /\ V # U)
  BY <1>2 DEF StrictSubsetOrdering
<1>4. QED
  BY <1>3

\* A finite set has a first element in a total order.
LEMMA Extreme ==
    ASSUME NEW S, IsFiniteSet(S), S # {}, NEW R,
           \A x, y \in S : <<x, y>> \in R \/ <<y, x>> \in R,
           \A x, y, z \in S : <<x, y>> \in R /\ <<y, z>> \in R => <<x, z>> \in R
    PROVE  \E m \in S : \A n \in S : <<m, n>> \in R
<1> DEFINE First(m, U) == m \in U /\ \A n \in U : <<m, n>> \in R
           T == {U \in SUBSET S : U # {} /\ ~ \E m \in U : First(m, U)}
<1>1. SUFFICES ASSUME T # {} PROVE FALSE
  OBVIOUS
<1>2. PICK U \in T : \A V \in SUBSET S : V \subseteq U /\ V # U => V \notin T
  <2>1. T \in SUBSET (SUBSET S) /\ T # {}
    BY <1>1
  <2> HIDE DEF T
  <2>2. QED
    BY ONLY IsFiniteSet(S), <2>1, SmallestCounterexample
<1>3. PICK x \in U : TRUE
  OBVIOUS
<1>4. CASE U \ {x} = {}
  BY <1>4
<1>5. CASE U \ {x} # {}
  <2> DEFINE V == U \ {x}
  <2>0. V \in SUBSET S /\ V \subseteq U /\ V # U /\ x \in U
    OBVIOUS
  <2>1. PICK m \in V : First(m, V)
    <3>1. V \notin T
      BY <1>2, <2>0
    <3>2. QED
      BY <1>5, <2>0, <3>1
  <2>a. \A n \in U : n \in V \/ n = x
    OBVIOUS
  <2>2. CASE <<m, x>> \in R
    BY <2>1, <2>2
  <2>3. CASE <<x, m>> \in R
    <3>1. \A n \in U : <<x, n>> \in R
      BY <2>1, <2>3
    <3>2. QED
      BY <3>1
  <2>4. QED
    BY <2>1, <2>2, <2>3
<1>6. QED
  BY <1>4, <1>5

\* A finite set of numbers has a least one, and Min is it.
LEMMA Least ==
    ASSUME NEW S \in SUBSET Int, IsFiniteSet(S), S # {}
    PROVE  Min(S) \in S /\ \A n \in S : Min(S) <= n
<1> DEFINE R == {p \in Int \X Int : p[1] <= p[2]}
<1>1. \A x, y \in Int : <<x, y>> \in R <=> x <= y
  OBVIOUS
<1> HIDE DEF R
<1>2. \E m \in S : \A n \in S : <<m, n>> \in R
  <2>1. /\ \A x, y \in S : <<x, y>> \in R \/ <<y, x>> \in R
        /\ \A x, y, z \in S : <<x, y>> \in R /\ <<y, z>> \in R => <<x, z>> \in R
    BY <1>1
  <2>2. QED
    BY <2>1, Extreme
<1>3. \E m \in S : \A n \in S : m <= n
  BY <1>1, <1>2
<1>4. QED
  BY <1>3 DEF Min

\* A finite set of numbers has a greatest one, and Max is it.
LEMMA Greatest ==
    ASSUME NEW S \in SUBSET Int, IsFiniteSet(S), S # {}
    PROVE  Max(S) \in S /\ \A n \in S : Max(S) >= n
<1> DEFINE R == {p \in Int \X Int : p[1] >= p[2]}
<1>1. \A x, y \in Int : <<x, y>> \in R <=> x >= y
  OBVIOUS
<1> HIDE DEF R
<1>2. \E m \in S : \A n \in S : <<m, n>> \in R
  <2>1. /\ \A x, y \in S : <<x, y>> \in R \/ <<y, x>> \in R
        /\ \A x, y, z \in S : <<x, y>> \in R /\ <<y, z>> \in R => <<x, z>> \in R
    BY <1>1
  <2>2. QED
    BY <2>1, Extreme
<1>3. \E m \in S : \A n \in S : m >= n
  BY <1>1, <1>2
<1>4. QED
  BY <1>3 DEF Max

StrictOrder(I, R) ==
    /\ \A i \in I : <<i, i>> \notin R
    /\ \A i, j, k \in I : <<i, j>> \in R /\ <<j, k>> \in R => <<i, k>> \in R
    /\ \A i, j \in I : i # j => <<i, j>> \in R \/ <<j, i>> \in R

Ahead(I, R, i) == {j \in I : <<j, i>> \in R}

\* How many come before an element says where it is in the order.
LEMMA Ranks ==
    ASSUME NEW I, IsFiniteSet(I), NEW R, StrictOrder(I, R)
    PROVE  /\ \A i \in I : Cardinality(Ahead(I, R, i)) \in 0..(Cardinality(I) - 1)
           /\ \A i, j \in I : <<i, j>> \in R => Cardinality(Ahead(I, R, i)) < Cardinality(Ahead(I, R, j))
           /\ \A i, j \in I : Cardinality(Ahead(I, R, i)) = Cardinality(Ahead(I, R, j)) => i = j
<1> DEFINE Pred(i) == Ahead(I, R, i)
<1>1. /\ \A i \in I : Pred(i) \in SUBSET (I \ {i}) /\ i \notin Pred(i)
      /\ \A i, j \in I : <<i, j>> \in R => Pred(i) \cup {i} \in SUBSET Pred(j)
  <2>1. \A i \in I : Pred(i) \in SUBSET I /\ \A j \in I : j \in Pred(i) <=> <<j, i>> \in R
    BY DEF Ahead
  <2> HIDE DEF Pred
  <2>2. \A i \in I : i \notin Pred(i)
    BY <2>1 DEF StrictOrder
  <2>3. \A i, j \in I : <<i, j>> \in R => Pred(i) \cup {i} \in SUBSET Pred(j)
    BY ONLY <2>1, StrictOrder(I, R) DEF StrictOrder
  <2>4. QED
    BY ONLY <2>1, <2>2, <2>3
<1> HIDE DEF Pred
<1>2. ASSUME NEW i \in I
      PROVE  IsFiniteSet(Pred(i)) /\ Cardinality(Pred(i)) \in 0..(Cardinality(I) - 1)
  <2>1. IsFiniteSet(I \ {i}) /\ Cardinality(I \ {i}) = Cardinality(I) - 1
    BY FS_RemoveElement
  <2>2. Pred(i) \in SUBSET (I \ {i})
    BY <1>1
  <2>3. IsFiniteSet(Pred(i)) /\ Cardinality(Pred(i)) <= Cardinality(I \ {i})
    BY ONLY <2>1, <2>2, FS_Subset
  <2>4. Cardinality(Pred(i)) \in Nat /\ Cardinality(I) \in Nat
    BY <2>3, FS_CardinalityType
  <2>5. QED
    BY <2>1, <2>3, <2>4
<1>3. ASSUME NEW i \in I, NEW j \in I, <<i, j>> \in R
      PROVE  Cardinality(Pred(i)) < Cardinality(Pred(j))
  <2>1. IsFiniteSet(Pred(i)) /\ IsFiniteSet(Pred(j))
    BY <1>2
  <2>2. Pred(i) \cup {i} \in SUBSET Pred(j) /\ i \notin Pred(i)
    BY <1>1, <1>3
  <2>3. Cardinality(Pred(i) \cup {i}) = Cardinality(Pred(i)) + 1
    BY <2>1, <2>2, FS_AddElement
  <2>4. Cardinality(Pred(i) \cup {i}) <= Cardinality(Pred(j))
    BY <2>1, <2>2, FS_Subset
  <2>5. Cardinality(Pred(i)) \in Nat /\ Cardinality(Pred(j)) \in Nat
    BY <2>1, FS_CardinalityType
  <2>6. QED
    BY <2>3, <2>4, <2>5
<1>4. ASSUME NEW i \in I, NEW j \in I, Cardinality(Pred(i)) = Cardinality(Pred(j))
      PROVE  i = j
  <2>1. Cardinality(Pred(i)) \in Nat
    BY <1>2
  <2>2. <<i, j>> \notin R /\ <<j, i>> \notin R
    BY <1>3, <1>4, <2>1
  <2>3. QED
    BY <2>2 DEF StrictOrder
<1>5. QED
  BY <1>2, <1>3, <1>4 DEF Pred

\* In a strict total order of a finite set every place is taken: some element has
\* n - 1 others before it.
LEMMA EveryRankTaken ==
    ASSUME NEW I, IsFiniteSet(I), NEW R, StrictOrder(I, R), NEW n \in 1..Cardinality(I)
    PROVE  \E i \in I : Cardinality(Ahead(I, R, i)) = n - 1
<1> DEFINE N == Cardinality(I)
           rank == [i \in I |-> 1 + Cardinality(Ahead(I, R, i))]
<1>1. N \in Nat
  BY FS_CardinalityType
<1>2. /\ \A i \in I : Cardinality(Ahead(I, R, i)) \in 0..(N - 1)
      /\ \A i, j \in I : Cardinality(Ahead(I, R, i)) = Cardinality(Ahead(I, R, j)) => i = j
  BY Ranks
<1> HIDE DEF N
<1>3. rank \in [I -> 1..N] /\ \A i \in I : rank[i] = 1 + Cardinality(Ahead(I, R, i))
  BY <1>1, <1>2
<1> HIDE DEF rank
<1>4. \A i, j \in I : rank[i] = rank[j] => i = j
  BY <1>1, <1>2, <1>3
<1>5. rank \in Injection(I, 1..N)
  BY <1>3, <1>4 DEF Injection, IsInjective
<1>6. IsFiniteSet(1..N) /\ Cardinality(1..N) = N
  BY <1>1, FS_Interval
<1>7. rank \in Surjection(I, 1..N)
  BY <1>5, <1>6, FS_Injection DEF N
<1>8. PICK i \in I : rank[i] = n
  BY <1>7 DEF Surjection, N
<1>9. QED
  BY <1>1, <1>2, <1>3, <1>8 DEF N

-----------------------------------------------------------------------------
\* A list without its element at p.
LEMMA ElementRemoved ==
    ASSUME NEW S, NEW s \in Seq(S), NEW p \in 1..Len(s)
    PROVE  /\ RemoveAt(s, p) \in Seq(S)
           /\ Len(RemoveAt(s, p)) = Len(s) - 1
           /\ \A k \in 1..(Len(s) - 1) : RemoveAt(s, p)[k] = IF k < p THEN s[k] ELSE s[k + 1]
<1> DEFINE a == SubSeq(s, 1, p - 1)
           b == SubSeq(s, p + 1, Len(s))
<1>0. Len(s) \in Nat /\ \A i \in 1..Len(s) : s[i] \in S
  BY ElementOfSeq
<1>1. a \in Seq(S) /\ Len(a) = p - 1 /\ \A k \in 1..(p - 1) : a[k] = s[k]
  BY <1>0, SubSeqProperties
<1>2. b \in Seq(S) /\ Len(b) = Len(s) - p /\ \A k \in 1..(Len(s) - p) : b[k] = s[p + k]
  BY <1>0, SubSeqProperties
<1> HIDE DEF a, b
<1>3. /\ a \o b \in Seq(S) /\ Len(a \o b) = Len(s) - 1
      /\ \A k \in 1..(Len(s) - 1) : (a \o b)[k] = IF k <= p - 1 THEN a[k] ELSE b[k - (p - 1)]
  BY <1>0, <1>1, <1>2, ConcatProperties
<1>4. ASSUME NEW k \in 1..(Len(s) - 1) PROVE (a \o b)[k] = IF k < p THEN s[k] ELSE s[k + 1]
  <2>1. CASE k < p
    BY <1>0, <1>1, <1>3, <2>1
  <2>2. CASE ~(k < p)
    <3>0. ~(k <= p - 1)
      BY <1>0, <2>2
    <3>1. (a \o b)[k] = b[k - (p - 1)]
      BY <1>3, <3>0
    <3>2. k - (p - 1) \in 1..(Len(s) - p) /\ p + (k - (p - 1)) = k + 1
      BY <1>0, <2>2
    <3>3. QED
      BY <1>2, <2>2, <3>1, <3>2
  <2>3. QED
    BY <2>1, <2>2
<1>5. QED
  BY <1>3, <1>4 DEF RemoveAt, a, b

\* RemoveFirst takes away one occurrence of what it is given.
LEMMA RemovesOne ==
    ASSUME NEW S, NEW s \in Seq(S), NEW e, \E i \in 1..Len(s) : s[i] = e
    PROVE  \E p \in 1..Len(s) : s[p] = e /\ RemoveFirst(s, e) = RemoveAt(s, p)
<1> DEFINE I == {i \in 1..Len(s) : s[i] = e}
<1>1. Len(s) \in Nat
  OBVIOUS
<1>2. IsFiniteSet(I) /\ I \in SUBSET Int /\ I # {}
  <2>1. IsFiniteSet(1..Len(s))
    BY <1>1, FS_Interval
  <2>2. QED
    BY <2>1, FS_Subset
<1>3. Min(I) \in I
  BY <1>2, Least
<1>4. RemoveFirst(s, e) = RemoveAt(s, Min(I))
  BY <1>2 DEF RemoveFirst, SelectInSeq
<1>5. QED
  BY <1>3, <1>4

\* A list with x put in front of it and cut off after n elements.
LEMMA PushedAndCut ==
    ASSUME NEW S, NEW s \in Seq(S), NEW x \in S, NEW n \in 1..(Len(s) + 1)
    PROVE  LET t == SubSeq(<<x>> \o s, 1, n) IN
           /\ t \in Seq(S) /\ Len(t) = n /\ t[1] = x
           /\ \A k \in 2..n : t[k] = s[k - 1]
<1> DEFINE u == <<x>> \o s
<1>0. Len(s) \in Nat
  OBVIOUS
<1>1. /\ u \in Seq(S) /\ Len(u) = Len(s) + 1 /\ u[1] = x
      /\ \A k \in 2..(Len(s) + 1) : u[k] = s[k - 1]
  <2>1. <<x>> \in Seq(S) /\ Len(<<x>>) = 1 /\ <<x>>[1] = x
    OBVIOUS
  <2>2. /\ u \in Seq(S) /\ Len(u) = 1 + Len(s)
        /\ \A k \in 1..(1 + Len(s)) : u[k] = IF k <= 1 THEN <<x>>[k] ELSE s[k - 1]
    BY <2>1, ConcatProperties
  <2>3. QED
    BY <1>0, <2>1, <2>2
<1> HIDE DEF u
<1>2. /\ SubSeq(u, 1, n) \in Seq(S) /\ Len(SubSeq(u, 1, n)) = n
      /\ \A k \in 1..n : SubSeq(u, 1, n)[k] = u[k]
  <2>1. \A k \in 1..n : u[k] \in S
    BY <1>0, <1>1, ElementOfSeq
  <2>2. QED
    BY <2>1, SubSeqProperties
<1>3. QED
  BY <1>0, <1>1, <1>2 DEF u

=============================================================================
