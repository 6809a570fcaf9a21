----------------------------- MODULE DataProofs -----------------------------
(***************************************************************************)
(* Facts of numbers, finite sums and sequences on which the proofs of      *)
(* several modules rest.                                                   *)
(***************************************************************************)
EXTENDS Integers, Sequences, FiniteSets, FiniteSetTheorems, TLAPS

-----------------------------------------------------------------------------
(* Induction. *)

\* Induction over the natural numbers, for a set of them.
LEMMA SetInduction ==
    ASSUME NEW S, 0 \in S, \A n \in Nat : n \in S => n + 1 \in S
    PROVE  Nat \subseteq S
<1> SUFFICES ASSUME NEW n \in Nat, n \notin S
             PROVE  FALSE
  OBVIOUS
<1> DEFINE T == {i \in 0..n : i \in S}
           f == [i \in T |-> i + 1]
<1>1. IsFiniteSet(T) /\ 0 \in T
  <2>1. IsFiniteSet(0..n) /\ T \in SUBSET (0..n)
    BY FS_Interval
  <2>2. IsFiniteSet(T)
    BY <2>1, FS_Subset
  <2> QED
    BY <2>2
<1>2. IsFiniteSet(T \ {0}) /\ Cardinality(T \ {0}) < Cardinality(T)
  <2>1. Cardinality(T) \in Nat
    BY <1>1, FS_CardinalityType
  <2> HIDE DEF T
  <2>2. Cardinality(T \ {0}) = Cardinality(T) - 1 /\ IsFiniteSet(T \ {0})
    BY <1>1, FS_RemoveElement
  <2> QED
    BY <2>1, <2>2
<1>3. f \in [T -> T \ {0}]
  <2>1. ASSUME NEW i \in T
        PROVE  i + 1 \in T \ {0}
    <3>1. i \in Nat /\ i <= n /\ i # n /\ i + 1 \in S
      BY <2>1
    <3> QED
      BY <3>1
  <2> QED
    BY <2>1
<1>4. PICK i, j \in T : i # j /\ f[i] = f[j]
  <2> HIDE DEF T, f
  <2> QED
    BY <1>1, <1>2, <1>3, FS_PigeonHole
<1> QED
  BY <1>4

\* Of a set of natural numbers with a member there is a least one.
LEMMA LeastNumber ==
    ASSUME NEW S \in SUBSET Nat, NEW m \in S
    PROVE  \E k \in S : k <= m /\ \A j \in S : k <= j
<1> SUFFICES ASSUME \A k \in S : k <= m => \E j \in S : j < k PROVE FALSE
  OBVIOUS
<1> DEFINE G == {n \in Nat : \A j \in S : j <= m => j > n}
<1>1. \A k \in S : k <= m => \E j \in S : j < k /\ j <= m
  OBVIOUS
<1>2. 0 \in G
  BY <1>1
<1>3. ASSUME NEW n \in Nat, n \in G PROVE n + 1 \in G
  <2> SUFFICES ASSUME NEW j \in S, j <= m, j <= n + 1 PROVE FALSE
    OBVIOUS
  <2>1. PICK k \in S : k < j /\ k <= m
    BY <1>1
  <2>2. k > n
    BY <1>3, <2>1
  <2> QED
    BY <2>1, <2>2
<1> HIDE DEF G
<1>4. m \in G
  BY <1>2, <1>3, SetInduction
<1> QED
  BY <1>4 DEF G

-----------------------------------------------------------------------------
(* Sums over finite sets, as the folds of the model compute them. *)

Pick(s) == CHOOSE x \in s : TRUE
\* g gives the sums of f over the subsets of S, as the fold computes them.
IsSum(g, f, S) ==
    g = [s \in SUBSET S |-> IF s = {} THEN 0 ELSE f[Pick(s)] + g[s \ {Pick(s)}]]

LEMMA SubsetFacts ==
    ASSUME NEW S, IsFiniteSet(S)
    PROVE  \A s \in SUBSET S :
              /\ IsFiniteSet(s) /\ Cardinality(s) \in Nat
              /\ Cardinality(s) = 0 <=> s = {}
              /\ \A x \in s : /\ s \ {x} \in SUBSET S
                             /\ Cardinality(s \ {x}) = Cardinality(s) - 1
              /\ s # {} => Pick(s) \in s
<1>1. \A s \in SUBSET S : IsFiniteSet(s) /\ Cardinality(s) \in Nat
  BY FS_Subset, FS_CardinalityType
<1>2. \A s \in SUBSET S : s # {} => Pick(s) \in s
  BY DEF Pick
<1>3. \A s \in SUBSET S : \A x \in s : /\ s \ {x} \in SUBSET S
                                       /\ Cardinality(s \ {x}) = Cardinality(s) - 1
  BY <1>1, FS_RemoveElement
<1>4. \A s \in SUBSET S : Cardinality(s) = 0 <=> s = {}
  BY <1>1, FS_EmptySet
<1> QED
  BY <1>1, <1>2, <1>3, <1>4

LEMMA SumExists ==
    ASSUME NEW S, IsFiniteSet(S), NEW f
    PROVE  \E g : IsSum(g, f, S)
<1> DEFINE Small(n) == {s \in SUBSET S : Cardinality(s) <= n}
           IsPart(g, n) ==
              g = [s \in Small(n) |-> IF s = {} THEN 0 ELSE f[Pick(s)] + g[s \ {Pick(s)}]]
           G == {n \in Nat : \E g : IsPart(g, n)}
<1>1. 0 \in G
  <2> DEFINE g == [s \in Small(0) |-> 0]
  <2>1. \A s \in Small(0) : s = {}
    BY SubsetFacts
  <2>2. g = [s \in Small(0) |-> IF s = {} THEN 0 ELSE f[Pick(s)] + g[s \ {Pick(s)}]]
    BY <2>1
  <2> QED
    BY <2>2
<1>2. ASSUME NEW n \in Nat, n \in G
      PROVE  n + 1 \in G
  <2>1. PICK g : IsPart(g, n)
    BY <1>2
  <2> DEFINE h == [s \in Small(n + 1) |-> IF s = {} THEN 0 ELSE f[Pick(s)] + g[s \ {Pick(s)}]]
  <2>2. \A s \in Small(n + 1) : s # {} => s \ {Pick(s)} \in Small(n)
    BY SubsetFacts
  <2>3. \A s \in Small(n) : s \in Small(n + 1) /\ h[s] = g[s]
    <3>1. \A s \in Small(n) : s \in Small(n + 1)
      BY SubsetFacts
    <3>2. \A s \in Small(n) : g[s] = IF s = {} THEN 0 ELSE f[Pick(s)] + g[s \ {Pick(s)}]
      BY <2>1
    <3> QED
      BY <3>1, <3>2
  <2>4. \A s \in Small(n + 1) : s # {} => h[s \ {Pick(s)}] = g[s \ {Pick(s)}]
    BY <2>2, <2>3
  <2> HIDE DEF Small
  <2>5. IsPart(h, n + 1)
    BY <2>4
  <2> HIDE DEF h, IsPart
  <2>6. n + 1 \in Nat
    OBVIOUS
  <2> QED
    BY <2>5, <2>6
<1>3. Cardinality(S) \in G
  <2> HIDE DEF G
  <2>1. Nat \subseteq G
    BY <1>1, <1>2, SetInduction
  <2> QED
    BY <2>1, SubsetFacts
<1>4. Small(Cardinality(S)) = SUBSET S
  BY FS_Subset
<1> QED
  BY <1>3, <1>4 DEF IsSum

\* Two such functions agree where the values do.
LEMMA SumUnique ==
    ASSUME NEW S, NEW T, NEW f, NEW e, NEW g, NEW h, IsSum(g, f, S), IsSum(h, e, T),
           NEW U, IsFiniteSet(U), U \subseteq S, U \subseteq T, \A x \in U : f[x] = e[x]
    PROVE  g[U] = h[U]
<1> DEFINE G == {n \in Nat : \A s \in SUBSET U : Cardinality(s) = n => g[s] = h[s]}
<1>1. \A s \in SUBSET U : /\ g[s] = IF s = {} THEN 0 ELSE f[Pick(s)] + g[s \ {Pick(s)}]
                         /\ h[s] = IF s = {} THEN 0 ELSE e[Pick(s)] + h[s \ {Pick(s)}]
  <2>1. \A s \in SUBSET U : s \in SUBSET S /\ s \in SUBSET T
    OBVIOUS
  <2> QED
    BY <2>1 DEF IsSum
<1>2. 0 \in G
  BY <1>1, SubsetFacts
<1>3. ASSUME NEW n \in Nat, n \in G
      PROVE  n + 1 \in G
  <2> SUFFICES ASSUME NEW s \in SUBSET U, Cardinality(s) = n + 1
               PROVE  g[s] = h[s]
    OBVIOUS
  <2>1. s # {} /\ Pick(s) \in s /\ s \ {Pick(s)} \in SUBSET U /\ Cardinality(s \ {Pick(s)}) = n
    BY SubsetFacts
  <2>2. g[s \ {Pick(s)}] = h[s \ {Pick(s)}]
    BY <1>3, <2>1
  <2> QED
    BY <1>1, <2>1, <2>2
<1> HIDE DEF G
<1>4. Cardinality(U) \in G
  BY <1>2, <1>3, SetInduction, SubsetFacts
<1> QED
  BY <1>4 DEF G

LEMMA SumType ==
    ASSUME NEW S, NEW f, NEW g, IsSum(g, f, S), IsFiniteSet(S), \A x \in S : f[x] \in Nat
    PROVE  \A s \in SUBSET S : g[s] \in Nat
<1> DEFINE G == {n \in Nat : \A s \in SUBSET S : Cardinality(s) = n => g[s] \in Nat}
<1>1. \A s \in SUBSET S : g[s] = IF s = {} THEN 0 ELSE f[Pick(s)] + g[s \ {Pick(s)}]
  BY DEF IsSum
<1>2. 0 \in G
  BY <1>1, SubsetFacts
<1>3. ASSUME NEW n \in Nat, n \in G
      PROVE  n + 1 \in G
  <2> SUFFICES ASSUME NEW s \in SUBSET S, Cardinality(s) = n + 1
               PROVE  g[s] \in Nat
    OBVIOUS
  <2>1. s # {} /\ Pick(s) \in s /\ s \ {Pick(s)} \in SUBSET S /\ Cardinality(s \ {Pick(s)}) = n
    BY SubsetFacts
  <2>2. g[s \ {Pick(s)}] \in Nat /\ f[Pick(s)] \in Nat
    BY <1>3, <2>1
  <2>3. g[s] = f[Pick(s)] + g[s \ {Pick(s)}]
    BY <1>1, <2>1
  <2> QED
    BY <2>2, <2>3
<1> HIDE DEF G
<1>4. Nat \subseteq G
  BY <1>2, <1>3, SetInduction
<1> QED
  BY <1>4, SubsetFacts DEF G

\* The order in which the elements are added does not matter.
LEMMA SumInsert ==
    ASSUME NEW S, NEW f, NEW g, IsSum(g, f, S), IsFiniteSet(S), \A x \in S : f[x] \in Nat
    PROVE  \A s \in SUBSET S : \A x \in s : g[s] = f[x] + g[s \ {x}]
<1> DEFINE G == {n \in Nat : \A s \in SUBSET S : Cardinality(s) = n =>
                               \A x \in s : g[s] = f[x] + g[s \ {x}]}
<1>1. \A s \in SUBSET S : g[s] = IF s = {} THEN 0 ELSE f[Pick(s)] + g[s \ {Pick(s)}]
  BY DEF IsSum
<1>2. 0 \in G
  BY SubsetFacts
<1>3. ASSUME NEW n \in Nat, n \in G
      PROVE  n + 1 \in G
  <2> SUFFICES ASSUME NEW s \in SUBSET S, Cardinality(s) = n + 1, NEW x \in s
               PROVE  g[s] = f[x] + g[s \ {x}]
    OBVIOUS
  <2>1. s # {} /\ Pick(s) \in s /\ s \ {Pick(s)} \in SUBSET S /\ Cardinality(s \ {Pick(s)}) = n
    BY SubsetFacts
  <2>2. g[s] = f[Pick(s)] + g[s \ {Pick(s)}]
    BY <1>1, <2>1
  <2>3. CASE x = Pick(s)
    BY <2>2, <2>3
  <2>4. CASE x # Pick(s)
    <3> DEFINE p == Pick(s)
               r == (s \ {p}) \ {x}
    <3>1. g[s \ {p}] = f[x] + g[r]
      BY <1>3, <2>1, <2>4
    <3>2. /\ s \ {x} \in SUBSET S /\ Cardinality(s \ {x}) = n /\ p \in s \ {x}
          /\ (s \ {x}) \ {p} = r
      BY <2>1, <2>4, SubsetFacts
    <3>3. g[s \ {x}] = f[p] + g[r]
      BY <1>3, <3>2
    <3>4. f[x] \in Nat /\ f[p] \in Nat /\ g[r] \in Nat
      BY <2>1, SumType
    <3> HIDE DEF p, r
    <3> QED
      BY <2>2, <3>1, <3>3, <3>4 DEF p
  <2> QED
    BY <2>3, <2>4
<1> HIDE DEF G
<1>4. Nat \subseteq G
  BY <1>2, <1>3, SetInduction
<1> SUFFICES ASSUME NEW s \in SUBSET S
             PROVE  \A x \in s : g[s] = f[x] + g[s \ {x}]
  OBVIOUS
<1>5. Cardinality(s) \in G
  BY <1>4, SubsetFacts
<1> QED
  BY <1>5 DEF G

-----------------------------------------------------------------------------
(* Prefixes of sequences. *)

\* A prefix of a sequence, and a prefix of that prefix.
LEMMA PrefixType ==
    ASSUME NEW T, NEW s \in Seq(T), NEW k \in 0..Len(s)
    PROVE  SubSeq(s, 1, k) \in Seq(T) /\ Len(SubSeq(s, 1, k)) = k
  OBVIOUS

LEMMA PrefixOfPrefix ==
    ASSUME NEW T, NEW s \in Seq(T), NEW h \in 0..Len(s), NEW k \in 0..h
    PROVE  SubSeq(SubSeq(s, 1, h), 1, k) = SubSeq(s, 1, k)
  OBVIOUS

\* What is left without the last element.
LEMMA FrontShorter ==
    ASSUME NEW T, NEW s \in Seq(T), s # <<>>
    PROVE  /\ Len(s) - 1 \in 0..Len(s)
           /\ SubSeq(s, 1, Len(s) - 1) \in Seq(T)
           /\ Len(SubSeq(s, 1, Len(s) - 1)) = Len(s) - 1
<1>1. Len(s) - 1 \in 0..Len(s)
  OBVIOUS
<1> QED
  BY <1>1, PrefixType

\* A sequence has the prefixes of its front.
LEMMA PrefixOfFront ==
    ASSUME NEW T, NEW a \in Seq(T), NEW s \in Seq(T), s # <<>>,
           NEW f, f = SubSeq(s, 1, Len(s) - 1), Len(a) <= Len(f), SubSeq(f, 1, Len(a)) = a
    PROVE  Len(a) <= Len(s) /\ SubSeq(s, 1, Len(a)) = a
<1>1. Len(a) \in 0..(Len(s) - 1) /\ Len(a) <= Len(s)
  BY FrontShorter
<1>2. SubSeq(f, 1, Len(a)) = SubSeq(s, 1, Len(a))
  BY <1>1, FrontShorter, PrefixOfPrefix
<1> QED
  BY <1>1, <1>2

-----------------------------------------------------------------------------
(* Sorted sequences. *)

LEMMA SameElements ==
    ASSUME NEW X, NEW s \in Seq(X), NEW t \in Seq(X), Len(s) = Len(t),
           \A k \in 1..Len(s) : s[k] = t[k]
    PROVE  s = t
OBVIOUS

\* Two sequences in the same strict order of the same elements are the same.
Ascending(s, rank) == \A a, b \in DOMAIN s : a < b => rank[s[a]] < rank[s[b]]
Within(s, t) == \A a \in DOMAIN s : \E b \in DOMAIN t : s[a] = t[b]
Ranked(s, rank) == \A a \in DOMAIN s : rank[s[a]] \in Int

LEMMA SortedIsUnique ==
    ASSUME NEW X, NEW s \in Seq(X), NEW t \in Seq(X), NEW rank,
           Ranked(s, rank), Ranked(t, rank), Ascending(s, rank), Ascending(t, rank),
           Within(s, t), Within(t, s)
    PROVE  s = t
<1>1. DOMAIN s = 1..Len(s) /\ DOMAIN t = 1..Len(t) /\ Len(s) \in Nat /\ Len(t) \in Nat
  OBVIOUS
<1>2. ASSUME NEW a \in DOMAIN s, NEW b \in DOMAIN s, a < b PROVE rank[s[a]] < rank[s[b]]
  BY <1>2 DEF Ascending
<1>3. ASSUME NEW a \in DOMAIN t, NEW b \in DOMAIN t, a < b PROVE rank[t[a]] < rank[t[b]]
  BY <1>3 DEF Ascending
<1> DEFINE Same(k) == (k <= Len(s) <=> k <= Len(t)) /\ (k <= Len(s) => s[k] = t[k])
           G == {m \in Nat : \A k \in 1..m : Same(k)}
<1>4. 0 \in G
  OBVIOUS
<1>5. ASSUME NEW m \in Nat, m \in G PROVE m + 1 \in G
  <2>1. \A k \in 1..m : Same(k)
    BY <1>5
  <2>2. PICK n : n = m + 1
    OBVIOUS
  <2>3. n \in Nat /\ n >= 1 /\ \A k \in 1..n : k \in 1..m \/ k = n
    BY <2>2
  <2>4. ASSUME NEW b \in DOMAIN t, n <= Len(s), s[n] = t[b] PROVE b >= n
    <3>1. CASE b \in 1..m
      <4>1. b <= Len(s) /\ s[b] = t[b]
        BY <1>1, <2>1, <3>1
      <4>2. b \in DOMAIN s /\ n \in DOMAIN s /\ b < n
        BY <1>1, <2>2, <2>3, <2>4, <3>1, <4>1
      <4>3. s[n] = s[b] /\ rank[s[b]] < rank[s[n]] /\ rank[s[b]] \in Int
        <5>1. rank[s[b]] < rank[s[n]]
          BY <1>2, <4>2
        <5>2. rank[s[b]] \in Int
          BY <4>2 DEF Ranked
        <5> QED
          BY <2>4, <4>1, <5>1, <5>2
      <4> QED
        BY <4>3
    <3> QED
      BY <1>1, <2>2, <3>1
  <2>5. ASSUME NEW a \in DOMAIN s, n <= Len(t), t[n] = s[a] PROVE a >= n
    <3>1. CASE a \in 1..m
      <4>1. a <= Len(t) /\ s[a] = t[a]
        BY <1>1, <2>1, <3>1
      <4>2. a \in DOMAIN t /\ n \in DOMAIN t /\ a < n
        BY <1>1, <2>2, <2>3, <2>5, <3>1, <4>1
      <4>3. t[n] = t[a] /\ rank[t[a]] < rank[t[n]] /\ rank[t[a]] \in Int
        <5>1. rank[t[a]] < rank[t[n]]
          BY <1>3, <4>2
        <5>2. rank[t[a]] \in Int
          BY <4>2 DEF Ranked
        <5> QED
          BY <2>5, <4>1, <5>1, <5>2
      <4> QED
        BY <4>3
    <3> QED
      BY <1>1, <2>2, <3>1
  <2>6. n <= Len(s) => n <= Len(t)
    <3> SUFFICES ASSUME n <= Len(s) PROVE n <= Len(t)
      OBVIOUS
    <3>1. n \in DOMAIN s
      BY <1>1, <2>3
    <3>2. PICK b \in DOMAIN t : s[n] = t[b]
      BY <3>1 DEF Within
    <3> QED
      BY <1>1, <2>3, <2>4, <3>2
  <2>7. n <= Len(t) => n <= Len(s)
    <3> SUFFICES ASSUME n <= Len(t) PROVE n <= Len(s)
      OBVIOUS
    <3>1. n \in DOMAIN t
      BY <1>1, <2>3
    <3>2. PICK a \in DOMAIN s : t[n] = s[a]
      BY <3>1 DEF Within
    <3> QED
      BY <1>1, <2>3, <2>5, <3>2
  <2>8. ASSUME n <= Len(s) PROVE s[n] = t[n]
    <3>1. n \in DOMAIN s /\ n \in DOMAIN t /\ n <= Len(t)
      BY <1>1, <2>3, <2>6, <2>8
    <3>2. PICK b \in DOMAIN t : s[n] = t[b]
      BY <3>1 DEF Within
    <3>3. PICK a \in DOMAIN s : t[n] = s[a]
      BY <3>1 DEF Within
    <3>4. b >= n /\ a >= n
      BY <2>4, <2>5, <2>8, <3>1, <3>2, <3>3
    <3>5. CASE a = n
      BY <3>3, <3>5
    <3>6. CASE a # n
      <4>1. a > n /\ a \in Int /\ b \in Int
        BY <1>1, <2>3, <3>4, <3>6
      <4>2. rank[s[n]] < rank[s[a]]
        BY <1>2, <3>1, <4>1
      <4>3. b = n \/ rank[t[n]] < rank[t[b]]
        <5>1. b = n \/ n < b
          BY <2>3, <3>4, <4>1
        <5> QED
          BY <1>3, <3>1, <5>1
      <4>4. rank[s[n]] \in Int /\ rank[t[n]] \in Int
        BY <3>1 DEF Ranked
      <4>5. PICK p, r : p = rank[s[n]] /\ r = rank[t[n]]
        OBVIOUS
      <4>6. rank[s[a]] = r /\ rank[t[b]] = p
        BY <3>2, <3>3, <4>5
      <4>7. p < r /\ (b = n \/ r < p) /\ p \in Int /\ r \in Int
        BY <4>2, <4>3, <4>4, <4>5, <4>6
      <4>8. b = n
        BY <4>7
      <4> QED
        BY <3>2, <4>8
    <3> QED
      BY <3>5, <3>6
  <2>9. Same(n)
    BY <2>6, <2>7, <2>8
  <2>10. \A k \in 1..n : Same(k)
    BY <2>1, <2>3, <2>9
  <2> QED
    BY <2>2, <2>3, <2>10
<1> HIDE DEF G
<1>6. \A m \in Nat : m \in G
  BY <1>4, <1>5, SetInduction
<1>7. \A k \in 1..(Len(s) + Len(t) + 1) : Same(k)
  <2>1. Len(s) + Len(t) + 1 \in Nat
    BY <1>1
  <2> QED
    BY <1>6, <2>1 DEF G
<1> HIDE DEF Same
<1>8. Len(s) = Len(t)
  <2>1. Len(s) > 0 => Same(Len(s))
    BY <1>1, <1>7
  <2>2. Len(t) > 0 => Same(Len(t))
    BY <1>1, <1>7
  <2>3. Len(s) > 0 => Len(s) <= Len(t)
    BY <1>1, <2>1 DEF Same
  <2>4. Len(t) > 0 => Len(t) <= Len(s)
    BY <1>1, <2>2 DEF Same
  <2>5. PICK m, n : m = Len(s) /\ n = Len(t)
    OBVIOUS
  <2>6. m \in Nat /\ n \in Nat /\ (m > 0 => m <= n) /\ (n > 0 => n <= m)
    BY <1>1, <2>3, <2>4, <2>5
  <2>7. m = n
    BY <2>6
  <2> QED
    BY <2>5, <2>7
<1>9. \A k \in 1..Len(s) : s[k] = t[k]
  BY <1>1, <1>7 DEF Same
<1> QED
  BY <1>8, <1>9, SameElements
=============================================================================
