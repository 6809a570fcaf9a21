------------------------- MODULE ChannelBankProofs --------------------------
(***************************************************************************)
(* What holds of ChannelBank for every number of channels, frames and L1   *)
(* blocks, channel timeout, bank size and Canyon block.  The invariant     *)
(* IBank says of the bank that it holds, of each channel of the batcher    *)
(* that can still be completed in time, every frame L1 has given it, and   *)
(* of the reads that they are those L1 asks for, in the order of the       *)
(* frames that complete them.                                              *)
(***************************************************************************)
EXTENDS ChannelBank, SequenceTheorems, DataProofs

-----------------------------------------------------------------------------
(* The accounted size of a queue of channels. *)

SizesOf(q) == [i \in DOMAIN q |-> q[i].size]

LEMMA SizesType ==
    ASSUME NEW q \in Seq(BankChannel)
    PROVE  /\ DOMAIN q = 1..Len(q) /\ IsFiniteSet(1..Len(q))
           /\ \A i \in 1..Len(q) : q[i] \in BankChannel /\ SizesOf(q)[i] = q[i].size
                                   /\ SizesOf(q)[i] \in Nat
<1>1. DOMAIN q = 1..Len(q) /\ IsFiniteSet(1..Len(q)) /\ \A i \in 1..Len(q) : q[i] \in BankChannel
  BY FS_Interval
<1> QED
  BY <1>1 DEF SizesOf, BankChannel

LEMMA TotalIsSum ==
    ASSUME NEW q \in Seq(BankChannel)
    PROVE  \E g : IsSum(g, SizesOf(q), 1..Len(q)) /\ TotalSize(q) = g[1..Len(q)]
<1> DEFINE S == 1..Len(q)
           z == SizesOf(q)
           Eq(g) ==
              g = [s \in SUBSET S |-> IF s = {} THEN 0 ELSE z[Pick(s)] + g[s \ {Pick(s)}]]
           h == CHOOSE g : Eq(g)
<1>1. PICK g : IsSum(g, z, S)
  BY SizesType, SumExists
<1>2. \A k : IsSum(k, z, S) <=> Eq(k)
  BY DEF IsSum
<1>3. DOMAIN z = S
  BY SizesType DEF SizesOf
<1>4. TotalSize(q) = h[S]
  BY <1>3 DEF TotalSize, FoldFunction, FoldFunctionOnSet, MapThenFoldSet, Pick, SizesOf
<1> HIDE DEF Eq, h
<1>5. Eq(h)
  BY <1>1, <1>2 DEF h
<1> QED
  BY <1>2, <1>4, <1>5

LEMMA TotalOfEmpty == TotalSize(<<>>) = 0
<1>1. <<>> \in Seq(BankChannel) /\ 1..Len(<<>>) = {}
  OBVIOUS
<1>2. PICK g : IsSum(g, SizesOf(<<>>), {}) /\ TotalSize(<<>>) = g[{}]
  BY <1>1, TotalIsSum
<1> QED
  BY <1>2 DEF IsSum

LEMMA TotalType ==
    ASSUME NEW q \in Seq(BankChannel)
    PROVE  TotalSize(q) \in Nat
<1>1. PICK g : IsSum(g, SizesOf(q), 1..Len(q)) /\ TotalSize(q) = g[1..Len(q)]
  BY TotalIsSum
<1> QED
  BY <1>1, SizesType, SumType

LEMMA TotalOfAppend ==
    ASSUME NEW q \in Seq(BankChannel), NEW x \in BankChannel
    PROVE  TotalSize(Append(q, x)) = TotalSize(q) + x.size
<1> DEFINE n == Len(q)
           r == Append(q, x)
<1>1. n \in Nat /\ r \in Seq(BankChannel) /\ Len(r) = n + 1 /\ r[n + 1] = x
         /\ \A i \in 1..n : r[i] = q[i]
  OBVIOUS
<1>2. (1..(n + 1)) \ {n + 1} = 1..n /\ 1..n \subseteq 1..(n + 1) /\ n + 1 \in 1..(n + 1)
  BY <1>1
<1> HIDE DEF r, n
<1>3. /\ IsFiniteSet(1..n) /\ IsFiniteSet(1..(n + 1))
      /\ \A i \in 1..n : SizesOf(q)[i] = q[i].size
      /\ \A i \in 1..(n + 1) : SizesOf(r)[i] = r[i].size /\ SizesOf(r)[i] \in Nat
  BY <1>1, SizesType DEF n
<1>4. PICK A, B, f, e : A = 1..n /\ B = 1..(n + 1) /\ f = SizesOf(q) /\ e = SizesOf(r)
  OBVIOUS
<1>5. PICK g : IsSum(g, f, A) /\ TotalSize(q) = g[A]
  BY <1>4, TotalIsSum DEF n
<1>6. PICK h : IsSum(h, e, B) /\ TotalSize(r) = h[B]
  BY <1>1, <1>4, TotalIsSum
<1>7. /\ IsFiniteSet(A) /\ IsFiniteSet(B) /\ A \subseteq B /\ n + 1 \in B /\ B \ {n + 1} = A
      /\ \A i \in B : e[i] \in Nat
      /\ e[n + 1] = x.size
  BY <1>1, <1>2, <1>3, <1>4
<1>8. \A i \in A : f[i] = e[i]
  BY <1>1, <1>2, <1>3, <1>4
<1>9. g[A] = h[A]
  BY <1>5, <1>6, <1>7, <1>8, SumUnique
<1>10. IsSum(h, e, B) /\ IsFiniteSet(B) /\ \A i \in B : e[i] \in Nat
  BY <1>6, <1>7
<1>11. h[B] = e[n + 1] + h[B \ {n + 1}]
  BY <1>7, <1>10, SumInsert
<1>12. TotalSize(q) \in Nat /\ x.size \in Nat
  BY TotalType DEF BankChannel
<1>13. TotalSize(r) = x.size + TotalSize(q)
  BY <1>5, <1>6, <1>7, <1>9, <1>11
<1>14. TotalSize(Append(q, x)) = x.size + TotalSize(q)
  BY <1>13 DEF r
<1> QED
  BY <1>12, <1>14

\* The queue without its i-th channel.
Removed(q, i) == SubSeq(q, 1, i - 1) \o SubSeq(q, i + 1, Len(q))

LEMMA RemovedFacts ==
    ASSUME NEW X, NEW q \in Seq(X), NEW i \in 1..Len(q)
    PROVE  /\ Removed(q, i) \in Seq(X) /\ Len(Removed(q, i)) = Len(q) - 1
           /\ \A j \in 1..(Len(q) - 1) : Removed(q, i)[j] = IF j < i THEN q[j] ELSE q[j + 1]
<1>1. i - 1 \in 0..Len(q) /\ SubSeq(q, 1, i - 1) \in Seq(X) /\ Len(SubSeq(q, 1, i - 1)) = i - 1
  OBVIOUS
<1>2. \A j \in 1..(i - 1) : SubSeq(q, 1, i - 1)[j] = q[j]
  OBVIOUS
<1>3. SubSeq(q, i + 1, Len(q)) \in Seq(X) /\ Len(SubSeq(q, i + 1, Len(q))) = Len(q) - i
  OBVIOUS
<1>4. \A j \in 1..(Len(q) - i) : SubSeq(q, i + 1, Len(q))[j] = q[i + j]
  OBVIOUS
<1> DEFINE a == SubSeq(q, 1, i - 1)
           b == SubSeq(q, i + 1, Len(q))
<1> HIDE DEF a, b
<1>5. /\ a \in Seq(X) /\ Len(a) = i - 1 /\ b \in Seq(X) /\ Len(b) = Len(q) - i
      /\ \A j \in 1..(i - 1) : a[j] = q[j]
      /\ \A j \in 1..(Len(q) - i) : b[j] = q[i + j]
  BY <1>1, <1>2, <1>3, <1>4 DEF a, b
<1>6. /\ a \o b \in Seq(X) /\ Len(a \o b) = Len(q) - 1
      /\ \A j \in 1..(Len(q) - 1) : (a \o b)[j] = IF j < i THEN a[j] ELSE b[j - i + 1]
  <2>1. PICK k, l : k = i - 1 /\ l = Len(q) - i
    OBVIOUS
  <2>2. k \in Nat /\ l \in Nat /\ k + l = Len(q) - 1 /\ Len(a) = k /\ Len(b) = l
    BY <1>5, <2>1
  <2>3. /\ a \o b \in Seq(X) /\ Len(a \o b) = k + l
        /\ \A j \in 1..(k + l) : (a \o b)[j] = IF j <= k THEN a[j] ELSE b[j - k]
    <3>1. a \in Seq(X) /\ b \in Seq(X)
      BY <1>5
    <3>2. /\ a \o b \in Seq(X) /\ Len(a \o b) = Len(a) + Len(b)
          /\ \A j \in 1..(Len(a) + Len(b)) :
                (a \o b)[j] = IF j <= Len(a) THEN a[j] ELSE b[j - Len(a)]
      BY <3>1, ConcatProperties
    <3> QED
      BY <2>2, <3>2
  <2>4. \A j \in 1..(k + l) : (j <= k <=> j < i) /\ j - k = j - i + 1
    BY <2>1, <2>2
  <2> QED
    BY <2>2, <2>3, <2>4
<1>7. \A j \in 1..(Len(q) - 1) : j >= i => j - i + 1 \in 1..(Len(q) - i) /\ i + (j - i + 1) = j + 1
  OBVIOUS
<1>8. \A j \in 1..(Len(q) - 1) : (a \o b)[j] = IF j < i THEN q[j] ELSE q[j + 1]
  BY <1>5, <1>6, <1>7
<1>9. Removed(q, i) = a \o b
  BY DEF Removed, a, b
<1> QED
  BY <1>6, <1>8, <1>9

LEMMA RemovedOfAppend ==
    ASSUME NEW X, NEW f \in Seq(X), NEW x \in X, NEW i \in 1..Len(f)
    PROVE  Removed(Append(f, x), i) = Append(Removed(f, i), x)
<1> DEFINE q == Append(f, x)
           a == Removed(q, i)
           b == Append(Removed(f, i), x)
           n == Len(f)
<1>1. n \in Nat /\ q \in Seq(X) /\ Len(q) = n + 1 /\ i \in 1..(n + 1) /\ n >= 1
         /\ q[n + 1] = x /\ \A j \in 1..n : q[j] = f[j]
  OBVIOUS
<1> HIDE DEF q, n
<1>2. /\ a \in Seq(X) /\ Len(a) = n
      /\ \A j \in 1..n : a[j] = IF j < i THEN q[j] ELSE q[j + 1]
  <2>1. Len(q) - 1 = n /\ i \in 1..Len(q)
    BY <1>1
  <2> QED
    BY <1>1, <2>1, RemovedFacts
<1>3. /\ Removed(f, i) \in Seq(X) /\ Len(Removed(f, i)) = n - 1
      /\ \A j \in 1..(n - 1) : Removed(f, i)[j] = IF j < i THEN f[j] ELSE f[j + 1]
  BY RemovedFacts DEF n
<1>4. /\ b \in Seq(X) /\ Len(b) = n /\ b[n] = x
      /\ \A j \in 1..(n - 1) : b[j] = Removed(f, i)[j]
  BY <1>1, <1>3
<1> HIDE DEF a, b
<1>5. ASSUME NEW j \in 1..n PROVE a[j] = b[j]
  <2>1. CASE j = n
    <3>1. a[j] = q[n + 1]
      BY <1>1, <1>2, <2>1 DEF n
    <3> QED
      BY <1>1, <1>4, <2>1, <3>1
  <2>2. CASE j # n
    <3>1. j \in 1..(n - 1) /\ j + 1 \in 1..n
      BY <1>1, <2>2
    <3>2. b[j] = IF j < i THEN f[j] ELSE f[j + 1]
      BY <1>3, <1>4, <3>1
    <3> QED
      BY <1>1, <1>2, <3>1, <3>2
  <2> QED
    BY <2>1, <2>2
<1>6. a = b
  BY <1>2, <1>4, <1>5
<1> QED
  BY <1>6 DEF a, b, q

LEMMA TotalOfRemoved ==
    ASSUME NEW q \in Seq(BankChannel), NEW i \in 1..Len(q)
    PROVE  TotalSize(q) = q[i].size + TotalSize(Removed(q, i))
<1> DEFINE G == {n \in Nat : \A r \in Seq(BankChannel) : Len(r) = n =>
                    \A j \in 1..n : TotalSize(r) = r[j].size + TotalSize(Removed(r, j))}
<1>1. 0 \in G
  OBVIOUS
<1>2. ASSUME NEW n \in Nat, n \in G
      PROVE  n + 1 \in G
  <2> SUFFICES ASSUME NEW r \in Seq(BankChannel), Len(r) = n + 1, NEW j \in 1..(n + 1)
               PROVE  TotalSize(r) = r[j].size + TotalSize(Removed(r, j))
    OBVIOUS
  <2>1. PICK f, x : f = SubSeq(r, 1, n) /\ x = r[n + 1]
    OBVIOUS
  <2>2. f \in Seq(BankChannel) /\ x \in BankChannel /\ Len(f) = n /\ \A k \in 1..n : f[k] = r[k]
    BY <2>1
  <2>3. r = Append(f, x)
    BY <2>1
  <2>4. TotalSize(r) = TotalSize(f) + x.size
    BY <2>2, <2>3, TotalOfAppend
  <2>5. TotalSize(f) \in Nat /\ x.size \in Nat
    BY <2>2, TotalType DEF BankChannel
  <2>6. CASE j = n + 1
    <3>1. Removed(r, j) \in Seq(BankChannel) /\ Len(Removed(r, j)) = n
             /\ \A k \in 1..n : Removed(r, j)[k] = r[k]
      <4>1. j \in 1..Len(r) /\ Len(r) - 1 = n /\ \A k \in 1..n : k < j
        BY <2>6
      <4> QED
        BY <4>1, RemovedFacts
    <3>2. Removed(r, j) = f
      BY <2>2, <3>1
    <3> QED
      <4>1. r[j].size = x.size
        BY <2>1, <2>6
      <4> QED
        BY <2>4, <2>5, <3>2, <4>1
  <2>7. CASE j # n + 1
    <3>1. j \in 1..n
      BY <2>7
    <3>2. Removed(r, j) = Append(Removed(f, j), x)
      BY <2>2, <2>3, <3>1, RemovedOfAppend
    <3>3. Removed(f, j) \in Seq(BankChannel)
      BY <2>2, <3>1, RemovedFacts
    <3>4. TotalSize(f) = f[j].size + TotalSize(Removed(f, j))
      BY <1>2, <2>2, <3>1
    <3>5. TotalSize(Removed(r, j)) = TotalSize(Removed(f, j)) + x.size
      BY <2>2, <3>2, <3>3, TotalOfAppend
    <3>6. TotalSize(Removed(f, j)) \in Nat /\ r[j] = f[j] /\ r[j].size \in Nat
      <4>1. TotalSize(Removed(f, j)) \in Nat
        BY <3>3, TotalType
      <4>2. r[j] \in BankChannel /\ r[j] = f[j]
        BY <2>2, <3>1
      <4> QED
        BY <4>1, <4>2 DEF BankChannel
    <3>7. TotalSize(r) = x.size + TotalSize(f)
      BY <2>4, <2>5
    <3>8. PICK a, b, d : a = TotalSize(Removed(f, j)) /\ b = f[j].size /\ d = x.size
      OBVIOUS
    <3>9. a \in Nat /\ b \in Nat /\ d \in Nat
      BY <2>5, <3>6, <3>8
    <3>10. TotalSize(r) = d + (b + a) /\ TotalSize(Removed(r, j)) = a + d /\ r[j].size = b
      BY <3>4, <3>5, <3>6, <3>7, <3>8
    <3>11. d + (b + a) = b + (a + d)
      BY <3>9
    <3> QED
      BY <3>10, <3>11
  <2> QED
    BY <2>6, <2>7
<1> HIDE DEF G
<1>3. Nat \subseteq G
  BY <1>1, <1>2, SetInduction
<1> QED
  BY <1>3 DEF G

-----------------------------------------------------------------------------
(* Pruning. *)

LEMMA PrunedFits ==
    ASSUME NEW q \in Seq(BankChannel)
    PROVE  PrunedFrom(q) \in 0..Len(q) /\ Fits(q, PrunedFrom(q))
<1> DEFINE S == {k \in 0..Len(q) : Fits(q, k)}
<1>1. Len(q) \in S
  <2>1. SubSeq(q, Len(q) + 1, Len(q)) = <<>>
    OBVIOUS
  <2>2. Len(q) \in 0..Len(q) /\ 0 <= MaxChannelBankSize
    BY BankAssumption
  <2> QED
    BY <2>1, <2>2, TotalOfEmpty DEF Fits
<1>2. S \in SUBSET Nat
  OBVIOUS
<1> HIDE DEF S
<1>3. PICK k \in S : k <= Len(q) /\ \A j \in S : k <= j
  BY <1>1, <1>2, LeastNumber
<1>4. \E p \in 0..Len(q) : Fits(q, p) /\ \A j \in 0..(p - 1) : ~Fits(q, j)
  <2>1. k \in 0..Len(q) /\ Fits(q, k)
    BY DEF S
  <2>2. ASSUME NEW j \in 0..(k - 1) PROVE ~Fits(q, j)
    BY <1>3, <2>1, <2>2 DEF S
  <2> QED
    BY <2>1, <2>2
<1> QED
  BY <1>4 DEF PrunedFrom

-----------------------------------------------------------------------------
(* Types. *)

\* What is on L1.
L1Frame == RegularFrames \cup OtherFrames

LEMMA FrameTypes ==
    /\ L1Frame \subseteq Frame
    /\ \A f \in RegularFrames : /\ f.ch \in Regular /\ f.num \in 0..(Sent[f.ch] - 1)
                                /\ f.last <=> f.num = Sent[f.ch] - 1
                                /\ Sent[f.ch] \in Nat \ {0}
                                /\ f = [ch |-> f.ch, num |-> f.num, last |-> f.last]
    /\ \A f \in L1Frame : f.ch \in Regular => f \in RegularFrames
    /\ L1Data \subseteq Seq(L1Frame)
<1>1. \A f \in RegularFrames :
         /\ f.ch \in Regular /\ f.num \in 0..(Sent[f.ch] - 1)
         /\ f.last <=> f.num = Sent[f.ch] - 1
         /\ Sent[f.ch] \in Nat \ {0} /\ f.last \in BOOLEAN
         /\ f = [ch |-> f.ch, num |-> f.num, last |-> f.last]
  <2> SUFFICES ASSUME NEW c \in Regular, NEW i \in 0..(Sent[c] - 1), NEW f,
                      f = [ch |-> c, num |-> i, last |-> (i = Sent[c] - 1)]
               PROVE  /\ f.ch \in Regular /\ f.num \in 0..(Sent[f.ch] - 1)
                      /\ f.last <=> f.num = Sent[f.ch] - 1
                      /\ Sent[f.ch] \in Nat \ {0} /\ f.last \in BOOLEAN
                      /\ f = [ch |-> f.ch, num |-> f.num, last |-> f.last]
    BY DEF RegularFrames
  <2>1. f.ch = c /\ f.num = i /\ f.last = (i = Sent[c] - 1)
    OBVIOUS
  <2>2. Sent[c] \in Nat \ {0}
    BY BankAssumption
  <2> QED
    BY <2>1, <2>2
<1>2. \A f \in OtherFrames : f.ch \in Irregular /\ f.num \in Nat /\ f.last \in BOOLEAN
         /\ f \in Frame
  BY BankAssumption DEF Frame
<1>3. RegularFrames \subseteq Frame
  <2> SUFFICES ASSUME NEW f \in RegularFrames PROVE f \in Frame
    OBVIOUS
  <2>1. f.ch \in Regular \cup Irregular /\ f.num \in Nat /\ f.last \in BOOLEAN
    BY <1>1
  <2>2. f = [ch |-> f.ch, num |-> f.num, last |-> f.last]
    BY <1>1
  <2>3. \A a \in Regular \cup Irregular, b \in Nat, c \in BOOLEAN :
           [ch |-> a, num |-> b, last |-> c] \in Frame
    BY DEF Frame
  <2> QED
    BY <2>1, <2>2, <2>3, Zenon
<1>4. \A f \in L1Frame : f.ch \in Regular => f \in RegularFrames
  BY <1>2, BankAssumption DEF L1Frame
<1>5. L1Data \subseteq Seq(L1Frame)
  <2> SUFFICES ASSUME NEW k \in 0..MaxFramesPerBlock, NEW s \in [1..k -> L1Frame]
               PROVE  s \in Seq(L1Frame)
    BY DEF L1Data, L1Frame
  <2> QED
    BY BankAssumption
<1> QED
  BY <1>1, <1>2, <1>3, <1>4, <1>5 DEF L1Frame

GoodChannel(x, o) ==
    /\ x \in BankChannel /\ x.openBlock <= o
    /\ IsFiniteSet(x.inputs) /\ x.size <= Cardinality(x.inputs)
    /\ ~x.closed => x.size = Cardinality(x.inputs)
GoodQueue(q, o) == q \in Seq(BankChannel) /\ \A i \in DOMAIN q : GoodChannel(q[i], o)

LEMMA NewChannelGood ==
    ASSUME NEW c \in Regular \cup Irregular, origin \in 1..MaxL1
    PROVE  GoodChannel(NewChannel(c), origin) /\ NewChannel(c).size = 0
<1>1. IsFiniteSet({}) /\ Cardinality({}) = 0
  BY FS_EmptySet
<1>2. origin <= origin
  BY BankAssumption
<1> QED
  BY <1>1, <1>2 DEF GoodChannel, NewChannel, BankChannel

\* Adding a frame accounts for it; a closing frame that prunes others comes once only, so
\* that what is taken off has been accounted for.
LEMMA AddFrameGood ==
    ASSUME NEW o, NEW x, GoodChannel(x, o), NEW f \in Frame, Accepts(x, f)
    PROVE  GoodChannel(AddFrame(x, f), o)
<1> DEFINE y == AddFrame(x, f)
<1>1. /\ x \in BankChannel /\ x.openBlock <= o /\ IsFiniteSet(x.inputs)
      /\ x.size <= Cardinality(x.inputs)
      /\ ~x.closed => x.size = Cardinality(x.inputs)
  BY DEF GoodChannel
<1>2. f.num \in Nat /\ f.last \in BOOLEAN /\ f.num \notin x.inputs
  BY DEF Frame, Accepts
<1>3. x.inputs \in SUBSET Nat /\ x.size \in Nat /\ x.highest \in Nat /\ x.end \in Nat
         /\ x.closed \in BOOLEAN
  BY <1>1 DEF BankChannel
<1>4. Cardinality(x.inputs) \in Nat
  BY <1>1, FS_CardinalityType
<1>5. CASE PrunesInputs(x, f)
  <2>1. f.last /\ x.size = Cardinality(x.inputs)
    BY <1>1, <1>5 DEF PrunesInputs, Accepts
  <2>2. PICK k : k = {i \in x.inputs : i < f.num}
    OBVIOUS
  <2>3. k \in SUBSET Nat /\ IsFiniteSet(k) /\ f.num \notin k
    <3>1. k \in SUBSET x.inputs
      BY <2>2
    <3> QED
      BY <1>1, <1>2, <1>3, <3>1, FS_Subset
  <2>4. IsFiniteSet(k \cup {f.num}) /\ Cardinality(k \cup {f.num}) = Cardinality(k) + 1
           /\ Cardinality(k) \in Nat
    BY <2>3, FS_AddElement, FS_CardinalityType
  <2>5. y = [x EXCEPT !.closed = TRUE, !.end = f.num, !.inputs = k \cup {f.num},
                      !.highest = IF f.num > f.num THEN f.num ELSE f.num,
                      !.size = (@ - Cardinality(x.inputs)) + 1]
    BY <1>5, <2>1, <2>2 DEF AddFrame
  <2>6. y = [x EXCEPT !.closed = TRUE, !.end = f.num, !.inputs = k \cup {f.num},
                      !.highest = f.num, !.size = 1]
    <3>1. (x.size - Cardinality(x.inputs)) + 1 = 1
      BY <1>3, <2>1
    <3> QED
      BY <2>5, <3>1
  <2>7. k \cup {f.num} \in SUBSET Nat
    BY <1>2, <2>3
  <2> HIDE DEF y
  <2>8. y \in BankChannel /\ y.openBlock = x.openBlock /\ y.inputs = k \cup {f.num}
           /\ y.size = 1 /\ y.closed = TRUE
    <3>1. y = [id |-> x.id, openBlock |-> x.openBlock, size |-> 1, closed |-> TRUE,
               highest |-> f.num, end |-> f.num, inputs |-> k \cup {f.num}]
      BY <1>1, <2>6 DEF BankChannel
    <3>2. x.id \in Regular \cup Irregular /\ x.openBlock \in 1..MaxL1
      BY <1>1 DEF BankChannel
    <3> QED
      BY <1>2, <2>7, <3>1, <3>2 DEF BankChannel
  <2>9. GoodChannel(y, o)
    BY <1>1, <2>4, <2>8 DEF GoodChannel
  <2> QED
    BY <2>9 DEF y
<1>6. CASE ~PrunesInputs(x, f)
  <2>1. y = [x EXCEPT !.closed = @ \/ f.last, !.end = IF f.last THEN f.num ELSE @,
                      !.inputs = x.inputs \cup {f.num},
                      !.highest = IF f.num > x.highest THEN f.num ELSE x.highest,
                      !.size = (@ - 0) + 1]
    BY <1>6 DEF AddFrame
  <2>2. IsFiniteSet(x.inputs \cup {f.num})
           /\ Cardinality(x.inputs \cup {f.num}) = Cardinality(x.inputs) + 1
    BY <1>1, <1>2, FS_AddElement
  <2>3. PICK a, e, h : /\ a = (x.closed \/ f.last) /\ e = (IF f.last THEN f.num ELSE x.end)
                       /\ h = (IF f.num > x.highest THEN f.num ELSE x.highest)
    OBVIOUS
  <2>4. /\ a \in BOOLEAN /\ e \in Nat /\ h \in Nat /\ x.size + 1 \in Nat
        /\ x.inputs \cup {f.num} \in SUBSET Nat /\ (x.size - 0) + 1 = x.size + 1
    BY <1>2, <1>3, <2>3
  <2>5. y = [x EXCEPT !.closed = a, !.end = e, !.inputs = x.inputs \cup {f.num},
                      !.highest = h, !.size = x.size + 1]
    BY <2>1, <2>3, <2>4
  <2> HIDE DEF y
  <2>6. y \in BankChannel /\ y.openBlock = x.openBlock /\ y.inputs = x.inputs \cup {f.num}
           /\ y.size = x.size + 1 /\ y.closed = (x.closed \/ f.last)
    <3>1. y = [id |-> x.id, openBlock |-> x.openBlock, size |-> x.size + 1, closed |-> a,
               highest |-> h, end |-> e, inputs |-> x.inputs \cup {f.num}]
      BY <1>1, <2>5 DEF BankChannel
    <3>2. x.id \in Regular \cup Irregular /\ x.openBlock \in 1..MaxL1
      BY <1>1 DEF BankChannel
    <3> QED
      BY <2>3, <2>4, <3>1, <3>2 DEF BankChannel
  <2>7. GoodChannel(y, o)
    BY <1>1, <1>2, <1>3, <1>4, <2>2, <2>6 DEF GoodChannel
  <2> QED
    BY <2>7 DEF y
<1> QED
  BY <1>5, <1>6

-----------------------------------------------------------------------------
(* What a call of NextData makes of the bank. *)

LEMMA TailRemoved ==
    ASSUME NEW X, NEW q \in Seq(X), q # <<>>
    PROVE  /\ 1 \in 1..Len(q) /\ Tail(q) = Removed(q, 1)
<1>1. 1 \in 1..Len(q) /\ Tail(q) \in Seq(X) /\ Len(Tail(q)) = Len(q) - 1
         /\ \A j \in 1..(Len(q) - 1) : Tail(q)[j] = q[j + 1]
  OBVIOUS
<1>2. /\ Removed(q, 1) \in Seq(X) /\ Len(Removed(q, 1)) = Len(q) - 1
      /\ \A j \in 1..(Len(q) - 1) : Removed(q, 1)[j] = IF j < 1 THEN q[j] ELSE q[j + 1]
  BY <1>1, RemovedFacts
<1>3. \A j \in 1..(Len(q) - 1) : Tail(q)[j] = Removed(q, 1)[j]
  BY <1>1, <1>2
<1> QED
  BY <1>1, <1>2, <1>3

LEMMA RemovedGood ==
    ASSUME NEW o, NEW q, GoodQueue(q, o), NEW i \in 1..Len(q)
    PROVE  GoodQueue(Removed(q, i), o) /\ TotalSize(Removed(q, i)) <= TotalSize(q)
<1>1. q \in Seq(BankChannel) /\ DOMAIN q = 1..Len(q)
  BY DEF GoodQueue
<1>2. /\ Removed(q, i) \in Seq(BankChannel) /\ Len(Removed(q, i)) = Len(q) - 1
      /\ \A j \in 1..(Len(q) - 1) : Removed(q, i)[j] = IF j < i THEN q[j] ELSE q[j + 1]
  BY <1>1, RemovedFacts
<1>3. GoodQueue(Removed(q, i), o)
  <2>1. ASSUME NEW j \in DOMAIN Removed(q, i) PROVE GoodChannel(Removed(q, i)[j], o)
    <3>1. j \in 1..(Len(q) - 1) /\ j \in 1..Len(q) /\ j + 1 \in 1..Len(q)
      BY <1>1, <1>2
    <3>2. Removed(q, i)[j] = q[j] \/ Removed(q, i)[j] = q[j + 1]
      BY <1>2, <3>1
    <3>3. GoodChannel(q[j], o) /\ GoodChannel(q[j + 1], o)
      BY <1>1, <3>1 DEF GoodQueue
    <3> QED
      BY <3>2, <3>3
  <2> QED
    BY <1>2, <2>1 DEF GoodQueue
<1>4. TotalSize(q) = q[i].size + TotalSize(Removed(q, i))
  BY <1>1, TotalOfRemoved
<1>5. TotalSize(q) \in Nat /\ TotalSize(Removed(q, i)) \in Nat
  BY <1>1, <1>2, TotalType
<1>6. q[i].size \in Nat
  <2>1. q[i] \in BankChannel
    BY <1>1
  <2> QED
    BY <2>1 DEF BankChannel
<1> QED
  BY <1>3, <1>4, <1>5, <1>6

\* What pruning leaves.
LEMMA PrunedGood ==
    ASSUME NEW o, NEW q, GoodQueue(q, o), NEW k \in 0..Len(q)
    PROVE  /\ GoodQueue(SubSeq(q, k + 1, Len(q)), o)
           /\ Len(SubSeq(q, k + 1, Len(q))) = Len(q) - k
           /\ \A j \in 1..(Len(q) - k) : SubSeq(q, k + 1, Len(q))[j] = q[k + j]
<1>1. q \in Seq(BankChannel) /\ DOMAIN q = 1..Len(q)
  BY DEF GoodQueue
<1> DEFINE s == SubSeq(q, k + 1, Len(q))
<1>2. s \in Seq(BankChannel) /\ Len(s) = Len(q) - k /\ \A j \in 1..(Len(q) - k) : s[j] = q[k + j]
  <2>1. k \in Nat /\ Len(q) \in Nat /\ k <= Len(q)
    BY <1>1
  <2>2. s \in Seq(BankChannel)
    BY <1>1
  <2>3. Len(s) = Len(q) - k
    <3>1. CASE k = Len(q)
      BY <1>1, <2>1, <3>1
    <3>2. CASE k # Len(q)
      <4>1. k + 1 \in 1..Len(q)
        BY <2>1, <3>2
      <4> QED
        BY <1>1, <2>1, <4>1
    <3> QED
      BY <3>1, <3>2
  <2>4. \A j \in 1..(Len(q) - k) : s[j] = q[k + j]
    BY <1>1, <2>1
  <2> QED
    BY <2>2, <2>3, <2>4
<1> HIDE DEF s
<1>3. ASSUME NEW j \in DOMAIN s PROVE GoodChannel(s[j], o)
  <2>1. j \in 1..(Len(q) - k) /\ k + j \in 1..Len(q)
    BY <1>1, <1>2
  <2> QED
    BY <1>1, <1>2, <2>1 DEF GoodQueue
<1>4. GoodQueue(s, o)
  BY <1>2, <1>3 DEF GoodQueue
<1> QED
  BY <1>2, <1>4 DEF s

\* The queue with a channel for a frame.
LEMMA OpenedGood ==
    ASSUME GoodQueue(channelQueue, origin), origin \in 1..MaxL1, NEW f \in Frame,
           NEW q, q = Opened(f)
    PROVE  /\ GoodQueue(q, origin) /\ TotalSize(q) = TotalSize(channelQueue)
           /\ \/ q = channelQueue /\ \E i \in DOMAIN channelQueue : channelQueue[i].id = f.ch
              \/ /\ \A i \in DOMAIN channelQueue : channelQueue[i].id # f.ch
                 /\ q = Append(channelQueue, NewChannel(f.ch))
<1>1. CASE \E i \in DOMAIN channelQueue : channelQueue[i].id = f.ch
  BY <1>1 DEF Opened
<1>2. CASE \A i \in DOMAIN channelQueue : channelQueue[i].id # f.ch
  <2>1. q = Append(channelQueue, NewChannel(f.ch))
    BY <1>2 DEF Opened
  <2>2. PICK x : x = NewChannel(f.ch)
    OBVIOUS
  <2>3. GoodChannel(x, origin) /\ x.size = 0
    BY <2>2, NewChannelGood DEF Frame
  <2>4. channelQueue \in Seq(BankChannel) /\ x \in BankChannel
           /\ DOMAIN channelQueue = 1..Len(channelQueue)
    BY <2>3 DEF GoodQueue, GoodChannel
  <2>5. q = Append(channelQueue, x) /\ q \in Seq(BankChannel)
           /\ DOMAIN q = 1..(Len(channelQueue) + 1)
    BY <2>1, <2>2, <2>4
  <2>6. TotalSize(q) = TotalSize(channelQueue) + x.size /\ TotalSize(channelQueue) \in Nat
    BY <2>4, <2>5, TotalOfAppend, TotalType
  <2>7. ASSUME NEW j \in DOMAIN q PROVE GoodChannel(q[j], origin)
    <3>1. j \in 1..Len(channelQueue) \/ j = Len(channelQueue) + 1
      BY <2>4, <2>5
    <3>2. j = Len(channelQueue) + 1 => q[j] = x
      BY <2>4, <2>5
    <3>3. j \in 1..Len(channelQueue) => q[j] = channelQueue[j]
      BY <2>4, <2>5
    <3> QED
      BY <2>3, <2>4, <3>1, <3>2, <3>3 DEF GoodQueue
  <2>8. GoodQueue(q, origin)
    BY <2>5, <2>7 DEF GoodQueue
  <2>9. TotalSize(q) = TotalSize(channelQueue)
    BY <2>3, <2>6
  <2> QED
    BY <1>2, <2>1, <2>8, <2>9
<1> QED
  BY <1>1, <1>2

-----------------------------------------------------------------------------
BankTypes ==
    /\ l1 \in Seq(Seq(L1Frame)) /\ Len(l1) <= MaxL1 /\ origin \in 0..Len(l1)
    /\ base \in 1..MaxL1
    /\ frames \in Seq(L1Frame)
    /\ origin = 0 => frames = <<>> /\ channelQueue = <<>>
    /\ GoodQueue(channelQueue, origin) /\ TotalSize(channelQueue) <= MaxChannelBankSize
    /\ reads \in Seq(Read)
    /\ before \in [base : 1..MaxL1, origin : 0..MaxL1, reads : Seq(Read)]
    /\ pruned \in BOOLEAN /\ resets \in 0..MaxResets

LEMMA BankTypesInit == Init => BankTypes
<1> SUFFICES ASSUME Init PROVE BankTypes
  OBVIOUS
<1>1. GoodQueue(<<>>, 0)
  BY DEF GoodQueue
<1>2. TotalSize(<<>>) <= MaxChannelBankSize
  BY TotalOfEmpty, BankAssumption
<1>3. /\ <<>> \in Seq(Seq(L1Frame)) /\ <<>> \in Seq(L1Frame) /\ <<>> \in Seq(Read)
      /\ Len(<<>>) = 0 /\ 0 \in 0..0 /\ 0 <= MaxL1 /\ 1 \in 1..MaxL1 /\ 0 \in 0..MaxResets
      /\ 0 \in 0..MaxL1
  BY BankAssumption
<1>4. before \in [base : 1..MaxL1, origin : 0..MaxL1, reads : Seq(Read)]
  BY <1>3 DEF Init
<1> QED
  BY <1>1, <1>2, <1>3, <1>4 DEF Init, BankTypes

LEMMA QueueTypesKept ==
    ASSUME BankTypes, NEW o, o = origin
    PROVE  /\ GoodQueue(channelQueue, o) /\ channelQueue \in Seq(BankChannel)
           /\ DOMAIN channelQueue = 1..Len(channelQueue)
           /\ TotalSize(channelQueue) \in Nat
           /\ channelQueue # <<>> => origin \in 1..MaxL1
           /\ frames # <<>> => origin \in 1..MaxL1
           /\ origin \in Nat /\ origin <= MaxL1 /\ Len(l1) \in Nat
<1>1. channelQueue \in Seq(BankChannel) /\ GoodQueue(channelQueue, o)
  BY DEF BankTypes, GoodQueue
<1>2. origin \in Nat /\ origin <= MaxL1 /\ Len(l1) \in Nat /\ (origin # 0 => origin \in 1..MaxL1)
  BY BankAssumption DEF BankTypes
<1> QED
  BY <1>1, <1>2, TotalType DEF BankTypes

\* What a read takes from the queue.
LEMMA ReadGood ==
    ASSUME BankTypes, NEW i \in 1..Len(channelQueue), channelQueue' = Removed(channelQueue, i),
           origin' = origin
    PROVE  GoodQueue(channelQueue, origin)' /\ (TotalSize(channelQueue) <= MaxChannelBankSize)'
<1>1. GoodQueue(Removed(channelQueue, i), origin)
         /\ TotalSize(Removed(channelQueue, i)) <= TotalSize(channelQueue)
  BY RemovedGood, QueueTypesKept
<1>2. Removed(channelQueue, i) \in Seq(BankChannel)
  BY <1>1 DEF GoodQueue
<1>3. TotalSize(Removed(channelQueue, i)) \in Nat /\ TotalSize(channelQueue) \in Nat
         /\ TotalSize(channelQueue) <= MaxChannelBankSize
  BY <1>2, TotalType, QueueTypesKept DEF BankTypes
<1>4. TotalSize(Removed(channelQueue, i)) <= MaxChannelBankSize
  BY <1>1, <1>3, BankAssumption
<1> QED
  BY <1>1, <1>4

\* IngestFrame in parts: f is the frame, q the queue with a channel for it, i that
\* channel; if the frame is accepted, r is the queue with it and k channels are pruned.
IngestParts(f, q, i, r, k) ==
    /\ ReadEOF /\ frames # <<>> /\ f = Head(frames) /\ frames' = Tail(frames)
    /\ q = Opened(f) /\ i \in DOMAIN q /\ q[i].id = f.ch
    /\ UNCHANGED <<l1, origin, base, reads, before, resets>>
    /\ \/ /\ TimedOut(q[i]) \/ ~Accepts(q[i], f)
          /\ channelQueue' = q /\ UNCHANGED pruned
       \/ /\ ~TimedOut(q[i]) /\ Accepts(q[i], f)
          /\ r = [q EXCEPT ![i] = AddFrame(q[i], f)] /\ k = PrunedFrom(r)
          /\ channelQueue' = SubSeq(r, k + 1, Len(r)) /\ pruned' = (pruned \/ k > 0)

LEMMA IngestSplit ==
    ASSUME IngestFrame
    PROVE  \E f, q, i, r, k : IngestParts(f, q, i, r, k)
<1>1. PICK f, q : f = Head(frames) /\ q = Opened(f)
  OBVIOUS
<1>2. PICK i \in DOMAIN q :
          /\ q[i].id = f.ch
          /\ IF TimedOut(q[i]) \/ ~Accepts(q[i], f)
             THEN channelQueue' = q /\ UNCHANGED pruned
             ELSE LET r == [q EXCEPT ![i] = AddFrame(q[i], f)]  k == PrunedFrom(r)
                  IN  /\ channelQueue' = SubSeq(r, k + 1, Len(r))
                      /\ pruned' = (pruned \/ k > 0)
  BY <1>1 DEF IngestFrame
<1>3. PICK r, k : r = [q EXCEPT ![i] = AddFrame(q[i], f)] /\ k = PrunedFrom(r)
  OBVIOUS
<1>4. IngestParts(f, q, i, r, k)
  BY <1>1, <1>2, <1>3 DEF IngestParts, IngestFrame
<1> QED
  BY <1>4

\* What they are.
LEMMA IngestFacts ==
    ASSUME BankTypes, NEW f, NEW q, NEW i, NEW r, NEW k, IngestParts(f, q, i, r, k)
    PROVE  /\ f \in L1Frame /\ f \in Frame /\ Tail(frames) \in Seq(L1Frame)
           /\ origin \in 1..MaxL1
           /\ GoodQueue(q, origin) /\ TotalSize(q) = TotalSize(channelQueue)
           /\ \/ q = channelQueue /\ \E j \in DOMAIN channelQueue : channelQueue[j].id = f.ch
              \/ /\ \A j \in DOMAIN channelQueue : channelQueue[j].id # f.ch
                 /\ q = Append(channelQueue, NewChannel(f.ch))
           /\ ~TimedOut(q[i]) /\ Accepts(q[i], f) =>
                 /\ GoodQueue(r, origin) /\ DOMAIN r = DOMAIN q /\ Len(r) = Len(q)
                 /\ r[i] = AddFrame(q[i], f) /\ \A j \in DOMAIN q : j # i => r[j] = q[j]
                 /\ k \in 0..Len(r) /\ Fits(r, k)
<1>1. origin \in 1..MaxL1 /\ frames \in Seq(L1Frame) /\ frames # <<>>
  BY QueueTypesKept DEF IngestParts, BankTypes
<1>2. f \in L1Frame /\ Tail(frames) \in Seq(L1Frame)
  BY <1>1 DEF IngestParts
<1>3. f \in Frame
  BY <1>2, FrameTypes
<1>4. GoodQueue(channelQueue, origin) /\ q = Opened(f)
  BY DEF BankTypes, IngestParts
<1>5. /\ GoodQueue(q, origin) /\ TotalSize(q) = TotalSize(channelQueue)
      /\ \/ q = channelQueue /\ \E j \in DOMAIN channelQueue : channelQueue[j].id = f.ch
         \/ /\ \A j \in DOMAIN channelQueue : channelQueue[j].id # f.ch
            /\ q = Append(channelQueue, NewChannel(f.ch))
  BY <1>1, <1>3, <1>4, OpenedGood
<1>6. ASSUME ~TimedOut(q[i]), Accepts(q[i], f)
      PROVE  /\ GoodQueue(r, origin) /\ DOMAIN r = DOMAIN q /\ Len(r) = Len(q)
             /\ r[i] = AddFrame(q[i], f) /\ \A j \in DOMAIN q : j # i => r[j] = q[j]
             /\ k \in 0..Len(r) /\ Fits(r, k)
  <2>1. r = [q EXCEPT ![i] = AddFrame(q[i], f)] /\ k = PrunedFrom(r) /\ i \in DOMAIN q
    BY <1>6 DEF IngestParts
  <2>2. PICK y : y = AddFrame(q[i], f)
    OBVIOUS
  <2>3. GoodChannel(q[i], origin)
    BY <1>5, <2>1 DEF GoodQueue
  <2>4. GoodChannel(y, origin)
    BY <1>3, <1>6, <2>2, <2>3, AddFrameGood
  <2>5. r = [q EXCEPT ![i] = y]
    BY <2>1, <2>2
  <2>6. q \in Seq(BankChannel) /\ y \in BankChannel
    BY <1>5, <2>4 DEF GoodQueue, GoodChannel
  <2>7. r \in Seq(BankChannel) /\ DOMAIN r = DOMAIN q /\ Len(r) = Len(q) /\ r[i] = y
           /\ \A j \in DOMAIN q : j # i => r[j] = q[j]
    BY <2>1, <2>5, <2>6
  <2>8. GoodQueue(r, origin) /\ DOMAIN r = DOMAIN q /\ Len(r) = Len(q)
    BY <1>5, <2>1, <2>4, <2>7 DEF GoodQueue
  <2>9. k \in 0..Len(r) /\ Fits(r, k)
    BY <2>1, <2>7, PrunedFits
  <2> QED
    BY <2>2, <2>7, <2>8, <2>9
<1> QED
  BY <1>1, <1>2, <1>3, <1>5, <1>6

LEMMA L1BlockTypes ==
    ASSUME BankTypes, NEW fs \in L1Data, L1Block(fs)
    PROVE  BankTypes'
<1>1. /\ l1' = Append(l1, fs) /\ Len(l1) < MaxL1
      /\ UNCHANGED <<pipeline, base, reads, before, pruned, resets>>
  BY DEF L1Block
<1>2. fs \in Seq(L1Frame) /\ l1 \in Seq(Seq(L1Frame)) /\ Len(l1) \in Nat /\ MaxL1 \in Nat
  BY FrameTypes, BankAssumption DEF BankTypes
<1>3. l1' \in Seq(Seq(L1Frame)) /\ Len(l1') = Len(l1) + 1 /\ Len(l1') <= MaxL1
  BY <1>1, <1>2
<1>4. origin' \in 0..Len(l1')
  BY <1>1, <1>2, <1>3 DEF BankTypes, pipeline
<1> QED
  BY <1>1, <1>3, <1>4 DEF BankTypes, pipeline

LEMMA ReadTypes ==
    ASSUME BankTypes, ReadTimedOut \/ ReadChannel
    PROVE  BankTypes'
<1>1. PICK i \in 1..Len(channelQueue) : channelQueue' = Removed(channelQueue, i)
  <2>1. CASE ReadTimedOut
    <3>1. channelQueue # <<>> /\ channelQueue' = Tail(channelQueue)
      BY <2>1 DEF ReadTimedOut, HeadTimedOut
    <3> QED
      BY <3>1, TailRemoved, QueueTypesKept
  <2>2. CASE ReadChannel
    <3>1. PICK i \in Readable : channelQueue' = Without(i)
      BY <2>2 DEF ReadChannel
    <3>2. i \in DOMAIN channelQueue
      BY DEF Readable, ReadableHead
    <3> QED
      BY <3>1, <3>2, QueueTypesKept DEF Without, Removed
  <2> QED
    BY <2>1, <2>2
<1>2. UNCHANGED <<l1, origin, frames, base, before, pruned, resets>>
  BY DEF ReadTimedOut, ReadChannel
<1>3. GoodQueue(channelQueue, origin)' /\ (TotalSize(channelQueue) <= MaxChannelBankSize)'
  BY <1>1, <1>2, ReadGood
<1>4. channelQueue # <<>> /\ origin \in 1..MaxL1 /\ origin # 0
  <2>1. channelQueue # <<>>
    BY <1>1, QueueTypesKept
  <2> QED
    BY <2>1, QueueTypesKept
<1>5. reads' \in Seq(Read)
  <2>1. reads \in Seq(Read)
    BY DEF BankTypes
  <2>2. CASE ReadTimedOut
    BY <2>1, <2>2 DEF ReadTimedOut
  <2>3. CASE ReadChannel
    <3>1. PICK j \in Readable : reads' = Append(reads, [ch |-> channelQueue[j].id, at |-> origin])
      BY <2>3 DEF ReadChannel
    <3>2. j \in DOMAIN channelQueue
      BY DEF Readable, ReadableHead
    <3>3. channelQueue[j] \in BankChannel
      BY <3>2, QueueTypesKept
    <3>4. [ch |-> channelQueue[j].id, at |-> origin] \in Read
      BY <1>4, <3>3 DEF Read, BankChannel
    <3> QED
      BY <2>1, <3>1, <3>4
  <2> QED
    BY <2>2, <2>3
<1> QED
  BY <1>2, <1>3, <1>4, <1>5 DEF BankTypes

LEMMA IngestTypes ==
    ASSUME BankTypes, IngestFrame
    PROVE  BankTypes'
<1>1. PICK f, q, i, r, k : IngestParts(f, q, i, r, k)
  BY IngestSplit
<1>2. /\ frames' = Tail(frames) /\ i \in DOMAIN q
      /\ UNCHANGED <<l1, origin, base, reads, before, resets>>
      /\ \/ /\ TimedOut(q[i]) \/ ~Accepts(q[i], f)
            /\ channelQueue' = q /\ UNCHANGED pruned
         \/ /\ ~TimedOut(q[i]) /\ Accepts(q[i], f)
            /\ channelQueue' = SubSeq(r, k + 1, Len(r)) /\ pruned' = (pruned \/ k > 0)
  BY <1>1 DEF IngestParts
<1>3. /\ Tail(frames) \in Seq(L1Frame) /\ origin \in 1..MaxL1
      /\ GoodQueue(q, origin) /\ TotalSize(q) = TotalSize(channelQueue)
      /\ ~TimedOut(q[i]) /\ Accepts(q[i], f) =>
            GoodQueue(r, origin) /\ k \in 0..Len(r) /\ Fits(r, k)
  BY <1>1, IngestFacts
<1>4. GoodQueue(channelQueue', origin) /\ TotalSize(channelQueue') <= MaxChannelBankSize
         /\ pruned' \in BOOLEAN
  <2>1. CASE channelQueue' = q /\ UNCHANGED pruned
    BY <1>3, <2>1 DEF BankTypes
  <2>2. CASE /\ ~TimedOut(q[i]) /\ Accepts(q[i], f)
             /\ channelQueue' = SubSeq(r, k + 1, Len(r)) /\ pruned' = (pruned \/ k > 0)
    BY <1>3, <2>2, PrunedGood DEF BankTypes, Fits
  <2> QED
    BY <1>2, <2>1, <2>2
<1>5. origin # 0
  BY <1>3
<1> QED
  BY <1>2, <1>3, <1>4, <1>5 DEF BankTypes

LEMMA AdvanceTypes ==
    ASSUME BankTypes, AdvanceL1
    PROVE  BankTypes'
<1>1. /\ origin < Len(l1) /\ origin' = origin + 1 /\ frames' = l1[origin + 1]
      /\ UNCHANGED <<l1, channelQueue, base, reads, before, pruned, resets>>
  BY DEF AdvanceL1
<1>2. l1 \in Seq(Seq(L1Frame)) /\ Len(l1) \in Nat /\ origin \in Nat
  BY QueueTypesKept DEF BankTypes
<1>3. origin + 1 \in 1..Len(l1) /\ origin + 1 \in 0..Len(l1) /\ origin + 1 # 0
  BY <1>1, <1>2
<1>4. l1[origin + 1] \in Seq(L1Frame)
  BY <1>2, <1>3
<1>5. GoodQueue(channelQueue, origin + 1)
  <2>1. ASSUME NEW i \in DOMAIN channelQueue PROVE GoodChannel(channelQueue[i], origin + 1)
    <3>1. GoodChannel(channelQueue[i], origin)
      BY DEF BankTypes, GoodQueue
    <3>2. channelQueue[i].openBlock \in Nat
      BY <3>1 DEF GoodChannel, BankChannel
    <3> QED
      BY <1>2, <3>1, <3>2 DEF GoodChannel
  <2> QED
    BY <2>1 DEF BankTypes, GoodQueue
<1> QED
  BY <1>1, <1>3, <1>4, <1>5 DEF BankTypes

LEMMA ResetTypes ==
    ASSUME BankTypes, NEW b \in 1..origin, Reset(b)
    PROVE  BankTypes'
<1>1. /\ resets < MaxResets /\ resets' = resets + 1
      /\ origin' = b /\ frames' = l1[b] /\ channelQueue' = <<>>
      /\ base' = b /\ reads' = <<>>
      /\ before' = [base |-> base, origin |-> origin, reads |-> reads]
      /\ UNCHANGED <<l1, pruned>>
  BY DEF Reset, EmptyBank
<1>2. l1 \in Seq(Seq(L1Frame)) /\ origin \in 0..Len(l1) /\ origin \in 0..MaxL1 /\ Len(l1) \in Nat
  BY QueueTypesKept DEF BankTypes
<1>3. b \in 1..Len(l1) /\ b \in 0..Len(l1) /\ b # 0 /\ b \in 1..MaxL1
  BY <1>2, BankAssumption
<1>4. l1[b] \in Seq(L1Frame)
  BY <1>2, <1>3
<1>5. GoodQueue(<<>>, b) /\ TotalSize(<<>>) <= MaxChannelBankSize /\ <<>> \in Seq(Read)
  BY TotalOfEmpty, BankAssumption DEF GoodQueue
<1>6. resets' \in 0..MaxResets
  BY <1>1, BankAssumption DEF BankTypes
<1>7. before' \in [base : 1..MaxL1, origin : 0..MaxL1, reads : Seq(Read)]
  BY <1>1, <1>2 DEF BankTypes
<1> QED
  BY <1>1, <1>3, <1>4, <1>5, <1>6, <1>7 DEF BankTypes

LEMMA BankTypesAlways == Spec => []BankTypes
<1>1. BankTypes /\ [Next]_vars => BankTypes'
  <2> SUFFICES ASSUME BankTypes, [Next]_vars PROVE BankTypes'
    OBVIOUS
  <2>1. CASE UNCHANGED vars
    BY <2>1 DEF vars, pipeline, BankTypes
  <2> QED
    BY <2>1, L1BlockTypes, ReadTypes, IngestTypes, AdvanceTypes, ResetTypes
    DEF Next, NextData
<1> QED
  BY <1>1, BankTypesInit, PTL DEF Spec

\* The pipeline's variables have their types for every channel, limit and timeout.  The
\* size of a channel, kept by hand over added and pruned frames, never wraps, and after
\* every call of NextData what the bank accounts for is within its limit.
THEOREM BankTypeCorrect == Spec => []TypeOK
<1>1. BankTypes => TypeOK
  <2> SUFFICES ASSUME BankTypes PROVE TypeOK
    OBVIOUS
  <2>1. Seq(L1Frame) \subseteq Seq(Frame) /\ frames \in Seq(Frame)
    BY FrameTypes DEF BankTypes
  <2>2. l1 \in Seq(Seq(Frame))
    BY <2>1 DEF BankTypes
  <2>3. channelQueue \in Seq(BankChannel)
           /\ \A i \in DOMAIN channelQueue :
                 channelQueue[i].size <= Cardinality(channelQueue[i].inputs)
    BY DEF BankTypes, GoodQueue, GoodChannel
  <2> QED
    BY <2>1, <2>2, <2>3 DEF BankTypes, TypeOK
<1> QED
  BY <1>1, BankTypesAlways, PTL

-----------------------------------------------------------------------------
(* What the bank has taken from L1. *)

FrameOf(c, k) == [ch |-> c, num |-> k, last |-> (k = Sent[c] - 1)]
Nums(c) == 0..(Sent[c] - 1)

\* The frames of the block at the origin that are not in the frame queue any more.
Done == Len(l1[origin]) - Len(frames)

\* Since the reset the bank has been given frame f, of L1 block m.
TakenAt(f, m) ==
    /\ m \in base..origin
    /\ \E i \in DOMAIN l1[m] : l1[m][i] = f /\ (m = origin => i <= Done)

\* The batcher sends no frame twice, and the frame queue is the rest of a block.
SentOnce ==
    \A m, n \in DOMAIN l1 : \A i \in DOMAIN l1[m], j \in DOMAIN l1[n] :
        l1[m][i].ch \in Regular /\ l1[m][i] = l1[n][j] => m = n /\ i = j
RestOfBlock ==
    /\ origin = 0 => base = 1
    /\ origin # 0 => /\ base <= origin /\ Len(frames) <= Len(l1[origin])
                     /\ \A j \in 1..Len(frames) : frames[j] = l1[origin][Done + j]
Layout == SentOnce /\ RestOfBlock

LEMMA RegularFrameFacts ==
    ASSUME NEW c \in Regular
    PROVE  /\ Sent[c] \in Nat \ {0} /\ Sent[c] - 1 \in Nums(c) /\ Nums(c) \in SUBSET Nat
           /\ \A k \in Nums(c) : FrameOf(c, k) \in RegularFrames
           /\ \A f \in RegularFrames : f.ch = c => f.num \in Nums(c) /\ f = FrameOf(c, f.num)
<1>1. Sent[c] \in Nat \ {0}
  BY BankAssumption
<1>2. Sent[c] - 1 \in Nums(c) /\ Nums(c) \in SUBSET Nat
  BY <1>1 DEF Nums
<1>3. \A k \in Nums(c) : FrameOf(c, k) \in RegularFrames
  BY DEF FrameOf, Nums, RegularFrames
<1>4. ASSUME NEW f \in RegularFrames, f.ch = c
      PROVE  f.num \in Nums(c) /\ f = FrameOf(c, f.num)
  <2>1. PICK d \in Regular :
            f \in {[ch |-> d, num |-> i, last |-> (i = Sent[d] - 1)] : i \in 0..(Sent[d] - 1)}
    BY DEF RegularFrames
  <2>2. PICK n \in 0..(Sent[d] - 1) : f = [ch |-> d, num |-> n, last |-> (n = Sent[d] - 1)]
    BY <2>1
  <2>3. d = c /\ f.num = n
    BY <1>4, <2>2
  <2> QED
    BY <2>2, <2>3 DEF FrameOf, Nums
<1> QED
  BY <1>1, <1>2, <1>3, <1>4

LEMMA L1Facts ==
    ASSUME BankTypes
    PROVE  /\ DOMAIN l1 = 1..Len(l1) /\ Len(l1) \in Nat
           /\ \A m \in 1..Len(l1) : /\ l1[m] \in Seq(L1Frame) /\ Len(l1[m]) \in Nat
                                    /\ DOMAIN l1[m] = 1..Len(l1[m])
                                    /\ \A i \in DOMAIN l1[m] : l1[m][i] \in L1Frame
           /\ origin \in Nat /\ base \in Nat /\ base >= 1 /\ origin <= Len(l1)
           /\ base..origin \subseteq 1..Len(l1)
           /\ origin # 0 => origin \in 1..Len(l1)
           /\ Len(frames) \in Nat /\ frames \in Seq(L1Frame)
           /\ origin # 0 => Done \in Int
           /\ ChannelTimeout \in Nat /\ CanyonBlock \in Nat
<1>1. l1 \in Seq(Seq(L1Frame))
  BY DEF BankTypes
<1>2. DOMAIN l1 = 1..Len(l1) /\ Len(l1) \in Nat
  BY <1>1
<1>3. \A m \in 1..Len(l1) : l1[m] \in Seq(L1Frame)
  BY <1>1
<1>4. \A m \in 1..Len(l1) : /\ Len(l1[m]) \in Nat /\ DOMAIN l1[m] = 1..Len(l1[m])
                            /\ \A i \in DOMAIN l1[m] : l1[m][i] \in L1Frame
  <2> SUFFICES ASSUME NEW s \in Seq(L1Frame)
               PROVE  Len(s) \in Nat /\ DOMAIN s = 1..Len(s) /\ \A i \in DOMAIN s : s[i] \in L1Frame
    BY <1>3
  <2> QED
    OBVIOUS
<1>5. origin \in Nat /\ base \in Nat /\ base >= 1 /\ origin <= Len(l1) /\ frames \in Seq(L1Frame)
  BY <1>2, BankAssumption DEF BankTypes
<1>6. Len(frames) \in Nat
  BY <1>5
<1>7. base..origin \subseteq 1..Len(l1) /\ (origin # 0 => origin \in 1..Len(l1))
  BY <1>2, <1>5
<1>8. origin # 0 => Done \in Int
  BY <1>4, <1>6, <1>7 DEF Done
<1> QED
  BY <1>2, <1>3, <1>4, <1>5, <1>6, <1>7, <1>8, BankAssumption

\* A frame of the batcher is taken once, from L1.
LEMMA TakenFacts ==
    ASSUME BankTypes, Layout, NEW f \in RegularFrames
    PROVE  /\ \A m : TakenAt(f, m) => m \in base..origin /\ m \in Nat /\ OnL1(f, m)
           /\ \A m, n : TakenAt(f, m) /\ OnL1(f, n) => m = n
           /\ \A m, n : TakenAt(f, m) /\ TakenAt(f, n) => m = n
<1>1. ASSUME NEW m, TakenAt(f, m) PROVE m \in base..origin /\ m \in Nat /\ OnL1(f, m)
  <2>1. m \in base..origin /\ m \in DOMAIN l1 /\ m \in Nat
    BY <1>1, L1Facts DEF TakenAt
  <2> QED
    BY <1>1, <2>1 DEF TakenAt, OnL1
<1>2. ASSUME NEW m, NEW n, OnL1(f, m), OnL1(f, n) PROVE m = n
  <2>1. PICK i \in DOMAIN l1[m], j \in DOMAIN l1[n] : l1[m][i] = f /\ l1[n][j] = f
    BY <1>2 DEF OnL1
  <2>2. m \in DOMAIN l1 /\ n \in DOMAIN l1
    BY <1>2 DEF OnL1
  <2>3. f.ch \in Regular
    BY FrameTypes
  <2> QED
    BY <2>1, <2>2, <2>3 DEF Layout, SentOnce
<1> QED
  BY <1>1, <1>2

-----------------------------------------------------------------------------
(* How each action changes that. *)

LEMMA LayoutInit == Init => Layout
  BY DEF Init, Layout, SentOnce, RestOfBlock

LEMMA TakenL1Block ==
    ASSUME BankTypes, Layout, NEW fs \in L1Data, L1Block(fs)
    PROVE  /\ Layout'
           /\ \A f, m : TakenAt(f, m)' <=> TakenAt(f, m)
           /\ origin # 0 => Done' = Done
           /\ \A f : \A n \in 1..Len(l1) : OnL1(f, n)' <=> OnL1(f, n)
           /\ Len(l1') = Len(l1) + 1 /\ \A n \in 1..Len(l1) : l1'[n] = l1[n]
<1>1. /\ l1' = Append(l1, fs)
      /\ UNCHANGED <<origin, frames, base>>
      /\ \A i \in DOMAIN fs : fs[i].ch \in Regular =>
            /\ \A n \in DOMAIN l1 : ~OnL1(fs[i], n)
            /\ \A j \in DOMAIN fs : fs[j] = fs[i] => j = i
  BY DEF L1Block, pipeline
<1>2. l1 \in Seq(Seq(L1Frame)) /\ fs \in Seq(L1Frame)
  BY FrameTypes DEF BankTypes
<1>3. DOMAIN l1' = 1..(Len(l1) + 1) /\ l1'[Len(l1) + 1] = fs
         /\ \A n \in 1..Len(l1) : l1'[n] = l1[n]
  BY <1>1, <1>2
<1>4. \A f, m : TakenAt(f, m)' <=> TakenAt(f, m)
  <2>1. origin # 0 => l1'[origin] = l1[origin]
    BY <1>3, L1Facts
  <2>2. base..origin # {} => origin # 0
    BY L1Facts
  <2>3. base..origin # {} => Done' = Done
    BY <1>1, <2>1, <2>2 DEF Done
  <2> QED
    BY <1>1, <1>3, <2>3, L1Facts DEF TakenAt
<1>5. Layout'
  <2>1. ASSUME NEW m \in DOMAIN l1', NEW n \in DOMAIN l1', NEW i \in DOMAIN l1'[m],
               NEW j \in DOMAIN l1'[n], l1'[m][i].ch \in Regular, l1'[m][i] = l1'[n][j]
        PROVE  m = n /\ i = j
    <3>1. m \in 1..Len(l1) \/ m = Len(l1) + 1
      BY <1>3, L1Facts
    <3>2. n \in 1..Len(l1) \/ n = Len(l1) + 1
      BY <1>3, L1Facts
    <3>3. CASE m \in 1..Len(l1) /\ n \in 1..Len(l1)
      BY <1>3, <2>1, <3>3, L1Facts DEF Layout, SentOnce
    <3>4. CASE m = Len(l1) + 1 /\ n = Len(l1) + 1
      BY <1>1, <1>3, <2>1, <3>4
    <3>5. CASE m = Len(l1) + 1 /\ n \in 1..Len(l1)
      BY <1>1, <1>3, <2>1, <3>5, L1Facts DEF OnL1
    <3>6. CASE m \in 1..Len(l1) /\ n = Len(l1) + 1
      BY <1>1, <1>3, <2>1, <3>6, L1Facts DEF OnL1
    <3> QED
      BY <3>1, <3>2, <3>3, <3>4, <3>5, <3>6
  <2>2. origin # 0 => l1'[origin] = l1[origin]
    BY <1>3, L1Facts
  <2>3. SentOnce'
    BY <2>1 DEF SentOnce
  <2>4. RestOfBlock'
    BY <1>1, <2>2 DEF Layout, RestOfBlock, Done
  <2> QED
    BY <2>3, <2>4 DEF Layout
<1>6. origin # 0 => Done' = Done
  BY <1>1, <1>3, L1Facts DEF Done
<1>7. \A f : \A n \in 1..Len(l1) : OnL1(f, n)' <=> OnL1(f, n)
  BY <1>3, L1Facts DEF OnL1
<1>8. Len(l1') = Len(l1) + 1
  BY <1>1, <1>2
<1> QED
  BY <1>3, <1>4, <1>5, <1>6, <1>7, <1>8

\* A read takes nothing from L1.
LEMMA TakenRead ==
    ASSUME Layout, UNCHANGED <<l1, origin, frames, base>>
    PROVE  /\ Layout' /\ Done' = Done
           /\ \A f, m : TakenAt(f, m)' <=> TakenAt(f, m)
           /\ \A f, n : OnL1(f, n)' <=> OnL1(f, n)
<1>1. Done' = Done
  BY DEF Done
<1> QED
  BY <1>1 DEF TakenAt, OnL1, Layout, SentOnce, RestOfBlock

\* IngestFrame takes the next frame of the block.
LEMMA TakenIngest ==
    ASSUME BankTypes, Layout, NEW f, NEW q, NEW i, NEW r, NEW k, IngestParts(f, q, i, r, k)
    PROVE  /\ Layout' /\ Done' = Done + 1 /\ Done' \in DOMAIN l1[origin]
           /\ l1[origin][Done'] = f
           /\ \A g, m : TakenAt(g, m)' <=> TakenAt(g, m) \/ (m = origin /\ g = f)
           /\ \A g, n : OnL1(g, n)' <=> OnL1(g, n)
           /\ f.ch \in Regular => f \in RegularFrames /\ \A m : ~TakenAt(f, m)
           /\ TakenAt(f, origin)'
<1>1. /\ frames # <<>> /\ f = Head(frames) /\ frames' = Tail(frames)
      /\ UNCHANGED <<l1, origin, base>>
  BY DEF IngestParts
<1>2. f \in L1Frame /\ origin \in 1..MaxL1
  BY IngestFacts
<1>3. /\ origin \in Nat /\ origin # 0 /\ base \in Nat /\ base <= origin /\ origin \in 1..Len(l1)
      /\ Len(l1[origin]) \in Nat /\ DOMAIN l1[origin] = 1..Len(l1[origin])
      /\ Len(frames) \in Nat /\ frames \in Seq(L1Frame)
      /\ Len(frames) <= Len(l1[origin])
      /\ \A j \in 1..Len(frames) : frames[j] = l1[origin][Done + j]
  BY <1>2, L1Facts DEF Layout, RestOfBlock
<1>4. /\ Len(frames) >= 1 /\ f = frames[1] /\ Len(frames') = Len(frames) - 1
      /\ \A j \in 1..(Len(frames) - 1) : frames'[j] = frames[j + 1]
  BY <1>1, <1>3
<1>5. Done \in Nat /\ Done' = Done + 1 /\ Done' \in 1..Len(l1[origin])
  BY <1>1, <1>3, <1>4 DEF Done
<1>6. l1[origin][Done'] = f
  BY <1>3, <1>4, <1>5
<1>7. \A g, m : TakenAt(g, m)' <=> TakenAt(g, m) \/ (m = origin /\ g = f)
  <2>1. \A j \in DOMAIN l1[origin] : j <= Done' <=> j <= Done \/ j = Done'
    BY <1>3, <1>5
  <2>2. origin \in base..origin
    BY <1>3
  <2>3. ASSUME NEW g, NEW m, m # origin PROVE TakenAt(g, m)' <=> TakenAt(g, m)
    BY <1>1, <2>3 DEF TakenAt
  <2>4. ASSUME NEW g, NEW m, m = origin PROVE TakenAt(g, m)' <=> TakenAt(g, m) \/ g = f
    <3>1. TakenAt(g, m)' <=> \E j \in DOMAIN l1[origin] : l1[origin][j] = g /\ j <= Done'
      BY <1>1, <2>2, <2>4 DEF TakenAt
    <3>2. TakenAt(g, m) <=> \E j \in DOMAIN l1[origin] : l1[origin][j] = g /\ j <= Done
      BY <2>2, <2>4 DEF TakenAt
    <3>3. (\E j \in DOMAIN l1[origin] : l1[origin][j] = g /\ j <= Done')
             <=> (\E j \in DOMAIN l1[origin] : l1[origin][j] = g /\ j <= Done) \/ g = f
      BY <1>3, <1>5, <1>6, <2>1
    <3> QED
      BY <3>1, <3>2, <3>3
  <2> QED
    BY <2>3, <2>4
<1>8. Layout'
  <2>1. SentOnce'
    BY <1>1 DEF Layout, SentOnce
  <2>2. ASSUME NEW j \in 1..Len(frames') PROVE frames'[j] = l1[origin][Done' + j]
    <3>1. j \in 1..(Len(frames) - 1) /\ j + 1 \in 1..Len(frames) /\ Done + (j + 1) = Done' + j
      BY <1>3, <1>4, <1>5
    <3> QED
      BY <1>3, <1>4, <3>1
  <2>3. Len(frames') <= Len(l1[origin])
    BY <1>3, <1>4
  <2> QED
    BY <1>1, <1>3, <2>1, <2>2, <2>3 DEF Layout, RestOfBlock
<1>9. ASSUME f.ch \in Regular PROVE f \in RegularFrames /\ \A m : ~TakenAt(f, m)
  <2>1. f \in RegularFrames
    BY <1>2, <1>9, FrameTypes
  <2>2. ASSUME NEW m, TakenAt(f, m) PROVE FALSE
    <3>1. m \in DOMAIN l1
      BY <2>2, L1Facts DEF TakenAt
    <3>2. PICK j \in DOMAIN l1[m] : l1[m][j] = f /\ (m = origin => j <= Done)
      BY <2>2 DEF TakenAt
    <3>3. origin \in DOMAIN l1 /\ Done' \in DOMAIN l1[origin]
      BY <1>3, <1>5, L1Facts
    <3>4. m = origin /\ j = Done'
      BY <1>6, <1>9, <3>1, <3>2, <3>3 DEF Layout, SentOnce
    <3> QED
      BY <1>5, <3>2, <3>4
  <2> QED
    BY <2>1, <2>2
<1>10. \A g, n : OnL1(g, n)' <=> OnL1(g, n)
  BY <1>1 DEF OnL1
<1>11. TakenAt(f, origin)'
  BY <1>1, <1>7
<1> QED
  BY <1>3, <1>5, <1>6, <1>7, <1>8, <1>9, <1>10, <1>11

\* Before the move to the next block all of this one has been taken; nothing of the next.
LEMMA TakenAdvance ==
    ASSUME BankTypes, Layout, AdvanceL1
    PROVE  /\ Layout'
           /\ \A f, m : TakenAt(f, m)' <=> TakenAt(f, m)
           /\ \A f : \A m \in base..origin : TakenAt(f, m) <=> OnL1(f, m)
           /\ \A f, n : OnL1(f, n)' <=> OnL1(f, n)
           /\ origin # 0 => base <= origin
<1>1. /\ frames = <<>> /\ origin < Len(l1) /\ origin' = origin + 1 /\ frames' = l1[origin + 1]
      /\ UNCHANGED <<l1, base>>
  BY DEF AdvanceL1
<1>2. /\ origin \in Nat /\ base \in Nat /\ base >= 1 /\ Len(l1) \in Nat /\ DOMAIN l1 = 1..Len(l1)
      /\ origin + 1 \in 1..Len(l1)
      /\ origin # 0 => base <= origin
      /\ origin = 0 => base = 1
  BY <1>1, L1Facts DEF Layout, RestOfBlock
<1>3. \A m \in 1..Len(l1) : Len(l1[m]) \in Nat /\ DOMAIN l1[m] = 1..Len(l1[m])
  BY L1Facts
<1>4. Done' = 0 /\ Len(l1[origin + 1]) \in Nat
  BY <1>1, <1>2, <1>3 DEF Done
<1>5. origin # 0 => Done = Len(l1[origin])
  <2>1. ASSUME origin # 0 PROVE Len(l1[origin]) \in Nat
    BY <1>2, <1>3, <2>1
  <2>2. Len(frames) = 0
    BY <1>1
  <2> QED
    BY <2>1, <2>2 DEF Done
<1>6. ASSUME NEW f, NEW m \in base..origin
      PROVE  /\ TakenAt(f, m) <=> OnL1(f, m)
             /\ TakenAt(f, m)' <=> OnL1(f, m)
  <2>1. origin # 0 /\ m \in 1..Len(l1) /\ m # origin + 1 /\ m \in base..(origin + 1)
    BY <1>2
  <2>2. \A j \in DOMAIN l1[m] : m = origin => j <= Done
    BY <1>3, <1>5, <2>1
  <2>3. TakenAt(f, m) <=> OnL1(f, m)
    BY <1>2, <2>1, <2>2 DEF TakenAt, OnL1
  <2>4. TakenAt(f, m)' <=> OnL1(f, m)
    BY <1>1, <1>2, <2>1 DEF TakenAt, OnL1
  <2> QED
    BY <2>3, <2>4
<1>7. \A f, m : TakenAt(f, m)' <=> TakenAt(f, m)
  <2>1. ASSUME NEW f, NEW m, TakenAt(f, m)' PROVE TakenAt(f, m)
    <3>1. m \in base..(origin + 1)
      BY <1>1, <2>1 DEF TakenAt
    <3>2. m # origin + 1
      <4>1. ASSUME m = origin + 1 PROVE FALSE
        <5>1. \E j \in DOMAIN l1[m] : j <= 0
          BY <1>1, <1>4, <2>1, <4>1 DEF TakenAt
        <5> QED
          BY <1>2, <1>3, <4>1, <5>1
      <4> QED
        BY <4>1
    <3>3. m \in base..origin
      BY <1>2, <3>1, <3>2
    <3> QED
      BY <1>6, <2>1, <3>3
  <2>2. ASSUME NEW f, NEW m, TakenAt(f, m) PROVE TakenAt(f, m)'
    BY <1>6, <2>2 DEF TakenAt
  <2> QED
    BY <2>1, <2>2
<1>8. Layout'
  <2>1. SentOnce'
    BY <1>1 DEF Layout, SentOnce
  <2>2. RestOfBlock'
    <3>1. origin' # 0 /\ base' <= origin' /\ Len(frames') <= Len(l1'[origin'])
      BY <1>1, <1>2, <1>4
    <3>2. \A j \in 1..Len(frames') : frames'[j] = l1'[origin'][Done' + j]
      BY <1>1, <1>4
    <3> QED
      BY <3>1, <3>2 DEF RestOfBlock
  <2> QED
    BY <2>1, <2>2 DEF Layout
<1>9. \A f, n : OnL1(f, n)' <=> OnL1(f, n)
  BY <1>1 DEF OnL1
<1> QED
  BY <1>2, <1>6, <1>7, <1>8, <1>9

\* A reset begins with nothing.
LEMMA TakenReset ==
    ASSUME BankTypes, Layout, NEW b \in 1..origin, Reset(b)
    PROVE  /\ Layout'
           /\ \A f, m : ~TakenAt(f, m)'
           /\ \A f, n : OnL1(f, n)' <=> OnL1(f, n)
<1>1. origin' = b /\ frames' = l1[b] /\ base' = b /\ l1' = l1
  BY DEF Reset
<1>2. b \in Nat /\ b # 0 /\ b \in 1..Len(l1) /\ Len(l1[b]) \in Nat /\ DOMAIN l1[b] = 1..Len(l1[b])
  BY L1Facts
<1>3. Done' = 0
  BY <1>1, <1>2 DEF Done
<1>4. ASSUME NEW f, NEW m, TakenAt(f, m)' PROVE FALSE
  <2>1. m = b
    BY <1>1, <1>2, <1>4 DEF TakenAt
  <2>2. \E j \in DOMAIN l1[b] : j <= 0
    BY <1>1, <1>3, <1>4, <2>1 DEF TakenAt
  <2> QED
    BY <1>2, <2>2
<1>5. SentOnce'
  BY <1>1 DEF Layout, SentOnce
<1>6. RestOfBlock'
  BY <1>1, <1>2, <1>3 DEF RestOfBlock
<1>7. \A f, n : OnL1(f, n)' <=> OnL1(f, n)
  BY <1>1 DEF OnL1
<1> QED
  BY <1>4, <1>5, <1>6, <1>7 DEF Layout

-----------------------------------------------------------------------------
(* The channels of the bank and what they have been given. *)

Taken(f) == \E m \in base..origin : TakenAt(f, m)
AllTaken(c) == \A k \in Nums(c) : Taken(FrameOf(c, k))

\* The bank has a channel at most once.
IdsOnce(q) == \A i, j \in DOMAIN q : q[i].id = q[j].id => i = j

\* Channel x of the bank holds frames of regular channel c only, all taken since the block
\* it was opened at, one of them in that block; it is closed by the last frame.
Entry(x, c) ==
    /\ x.openBlock \in base..origin
    /\ \A k \in x.inputs :
          k \in Nums(c) /\ \E m \in x.openBlock..origin : TakenAt(FrameOf(c, k), m)
    /\ \E k \in x.inputs : TakenAt(FrameOf(c, k), x.openBlock)
    /\ x.closed <=> Sent[c] - 1 \in x.inputs
    /\ x.closed => x.end = Sent[c] - 1
    /\ x.highest <= Sent[c] - 1
Entries(q) == \A i \in DOMAIN q : q[i].id \in Regular => Entry(q[i], q[i].id)

\* A channel that was read had all its frames, and is not in the bank again.
ReadTaken ==
    \A i \in DOMAIN reads : reads[i].ch \in Regular =>
        /\ AllTaken(reads[i].ch)
        /\ \A j \in DOMAIN channelQueue : channelQueue[j].id # reads[i].ch

LEMMA EntryKept ==
    ASSUME BankTypes, base' = base, origin' \in Nat, origin <= origin',
           \A f, m : TakenAt(f, m) => TakenAt(f, m)',
           NEW x \in BankChannel, NEW c \in Regular, Entry(x, c)
    PROVE  Entry(x, c)'
<1>1. origin \in Nat /\ base \in Nat /\ x.openBlock \in Nat
  BY L1Facts, BankAssumption DEF BankChannel, Entry
<1>2. x.openBlock \in base'..origin'
  BY <1>1 DEF Entry
<1>3. ASSUME NEW k \in x.inputs
      PROVE  k \in Nums(c) /\ \E m \in x.openBlock..origin' : TakenAt(FrameOf(c, k), m)'
  <2>1. PICK m \in x.openBlock..origin : TakenAt(FrameOf(c, k), m)
    BY DEF Entry
  <2>2. m \in x.openBlock..origin'
    BY <1>1
  <2>3. TakenAt(FrameOf(c, k), m)'
    BY <2>1
  <2> QED
    BY <2>2, <2>3 DEF Entry
<1>4. \E k \in x.inputs : TakenAt(FrameOf(c, k), x.openBlock)'
  BY DEF Entry
<1> QED
  BY <1>2, <1>3, <1>4 DEF Entry

\* Reading or pruning channels leaves the others as they are.
LEMMA RemovedIds ==
    ASSUME NEW q \in Seq(BankChannel), IdsOnce(q), NEW i \in 1..Len(q)
    PROVE  /\ IdsOnce(Removed(q, i))
           /\ \A j \in DOMAIN Removed(q, i) :
                 \E n \in DOMAIN q : n # i /\ Removed(q, i)[j] = q[n]
           /\ \A n \in DOMAIN q : n # i => \E j \in DOMAIN Removed(q, i) : Removed(q, i)[j] = q[n]
<1> DEFINE s == Removed(q, i)
<1>1. /\ s \in Seq(BankChannel) /\ Len(s) = Len(q) - 1
      /\ \A j \in 1..(Len(q) - 1) : s[j] = IF j < i THEN q[j] ELSE q[j + 1]
  BY RemovedFacts
<1>2. DOMAIN s = 1..(Len(q) - 1) /\ DOMAIN q = 1..Len(q) /\ Len(q) \in Nat
  BY <1>1
<1> HIDE DEF s
<1>3. \A j \in DOMAIN s : \E n \in DOMAIN q : n # i /\ s[j] = q[n] /\ n = IF j < i THEN j ELSE j + 1
  <2> TAKE j \in DOMAIN s
  <2>1. CASE j < i
    <3>1. j \in DOMAIN q /\ j # i /\ s[j] = q[j]
      BY <1>1, <1>2, <2>1
    <3> QED
      BY <2>1, <3>1
  <2>2. CASE ~(j < i)
    <3>1. j + 1 \in DOMAIN q /\ j + 1 # i /\ s[j] = q[j + 1]
      BY <1>1, <1>2, <2>2
    <3> QED
      BY <2>2, <3>1
  <2> QED
    BY <2>1, <2>2
<1>4. ASSUME NEW n \in DOMAIN q, n # i PROVE \E j \in DOMAIN s : s[j] = q[n]
  <2>1. CASE n < i
    <3>1. n \in DOMAIN s /\ s[n] = q[n]
      BY <1>1, <1>2, <2>1
    <3> QED
      BY <3>1
  <2>2. CASE n > i
    <3>1. n - 1 \in DOMAIN s /\ s[n - 1] = q[n]
      BY <1>1, <1>2, <2>2
    <3> QED
      BY <3>1
  <2> QED
    BY <1>2, <1>4, <2>1, <2>2
<1>5. ASSUME NEW j \in DOMAIN s, NEW m \in DOMAIN s, s[j].id = s[m].id PROVE j = m
  <2>1. PICK a \in DOMAIN q : s[j] = q[a] /\ a = IF j < i THEN j ELSE j + 1
    BY <1>3
  <2>2. PICK b \in DOMAIN q : s[m] = q[b] /\ b = IF m < i THEN m ELSE m + 1
    BY <1>3
  <2>3. a = b
    BY <1>5, <2>1, <2>2 DEF IdsOnce
  <2> QED
    BY <1>2, <2>1, <2>2, <2>3
<1>6. IdsOnce(s)
  BY <1>5 DEF IdsOnce
<1> QED
  BY <1>3, <1>4, <1>6 DEF s

LEMMA PrunedIds ==
    ASSUME NEW o, NEW q, GoodQueue(q, o), IdsOnce(q), NEW k \in 0..Len(q)
    PROVE  LET s == SubSeq(q, k + 1, Len(q))
           IN  /\ IdsOnce(s) /\ \A j \in DOMAIN s : \E n \in DOMAIN q : s[j] = q[n]
               /\ k = 0 => s = q
<1> DEFINE s == SubSeq(q, k + 1, Len(q))
<1>1. /\ s \in Seq(BankChannel) /\ Len(s) = Len(q) - k
      /\ \A j \in 1..(Len(q) - k) : s[j] = q[k + j]
  BY PrunedGood DEF GoodQueue
<1>2. q \in Seq(BankChannel) /\ DOMAIN q = 1..Len(q) /\ Len(q) \in Nat
         /\ DOMAIN s = 1..(Len(q) - k)
  BY <1>1 DEF GoodQueue
<1> HIDE DEF s
<1>3. \A j \in DOMAIN s : k + j \in DOMAIN q /\ s[j] = q[k + j]
  <2> TAKE j \in DOMAIN s
  <2>1. j \in 1..(Len(q) - k)
    BY <1>2
  <2>2. k + j \in 1..Len(q)
    BY <1>2, <2>1
  <2> QED
    BY <1>1, <1>2, <2>1, <2>2
<1>4. IdsOnce(s)
  <2>1. ASSUME NEW j \in DOMAIN s, NEW m \in DOMAIN s, s[j].id = s[m].id PROVE j = m
    <3>1. k + j = k + m
      BY <1>3, <2>1 DEF IdsOnce
    <3> QED
      BY <1>2, <3>1
  <2> QED
    BY <2>1 DEF IdsOnce
<1>5. ASSUME k = 0 PROVE s = q
  <2>1. Len(s) = Len(q) /\ \A j \in 1..Len(q) : s[j] = q[j]
    BY <1>1, <1>2, <1>5
  <2>2. s \in Seq(BankChannel) /\ q \in Seq(BankChannel)
    BY <1>1, <1>2
  <2> QED
    BY <2>1, <2>2
<1> QED
  BY <1>3, <1>4, <1>5 DEF s

\* A new channel, and a channel with another frame, in fields.
LEMMA NewChannelFields ==
    ASSUME NEW c
    PROVE  /\ NewChannel(c).id = c /\ NewChannel(c).openBlock = origin
           /\ NewChannel(c).closed = FALSE /\ NewChannel(c).inputs = {}
           /\ NewChannel(c).highest = 0
BY DEF NewChannel

LEMMA AddFrameFields ==
    ASSUME NEW x \in BankChannel, NEW f \in Frame, ~PrunesInputs(x, f), NEW y, y = AddFrame(x, f)
    PROVE  /\ y.id = x.id /\ y.openBlock = x.openBlock /\ y.inputs = x.inputs \cup {f.num}
           /\ y.closed <=> x.closed \/ f.last
           /\ y.end = IF f.last THEN f.num ELSE x.end
           /\ y.highest = IF f.num > x.highest THEN f.num ELSE x.highest
<1>1. y = [x EXCEPT !.closed = @ \/ f.last, !.end = IF f.last THEN f.num ELSE @,
                    !.inputs = x.inputs \cup {f.num},
                    !.highest = IF f.num > x.highest THEN f.num ELSE x.highest,
                    !.size = (@ - 0) + 1]
  BY DEF AddFrame
<1>2. PICK a, e, h, n, s : /\ a = (x.closed \/ f.last) /\ e = (IF f.last THEN f.num ELSE x.end)
                        /\ h = (IF f.num > x.highest THEN f.num ELSE x.highest)
                        /\ n = x.inputs \cup {f.num} /\ s = (x.size - 0) + 1
  OBVIOUS
<1>3. y = [x EXCEPT !.closed = a, !.end = e, !.inputs = n, !.highest = h, !.size = s]
  BY <1>1, <1>2
<1>4. x = [id |-> x.id, openBlock |-> x.openBlock, size |-> x.size, closed |-> x.closed,
           highest |-> x.highest, end |-> x.end, inputs |-> x.inputs]
  BY DEF BankChannel
<1>5. y = [id |-> x.id, openBlock |-> x.openBlock, size |-> s, closed |-> a,
           highest |-> h, end |-> e, inputs |-> n]
  BY <1>3, <1>4
<1>6. y.id = x.id /\ y.openBlock = x.openBlock /\ y.closed = a /\ y.highest = h /\ y.end = e
         /\ y.inputs = n
  BY <1>5
<1> QED
  BY <1>2, <1>6

BankInv == IdsOnce(channelQueue) /\ Entries(channelQueue) /\ ReadTaken

\* A frame of the batcher is always accepted, by a channel that is not timed out, and
\* prunes nothing.
LEMMA RegularAccepted ==
    ASSUME BankTypes, Layout, NEW x, GoodChannel(x, origin), NEW c \in Regular,
           NEW f \in RegularFrames,
           f.ch = c, \A m : ~TakenAt(f, m), Entry(x, c)
    PROVE  Accepts(x, f) /\ ~PrunesInputs(x, f)
<1>1. f = FrameOf(c, f.num) /\ f.num \in Nums(c) /\ Sent[c] \in Nat \ {0}
  BY RegularFrameFacts
<1>2. f.last <=> f.num = Sent[c] - 1
  BY FrameTypes
<1>3. f.num \notin x.inputs
  BY <1>1 DEF Entry
<1>4. x.closed => f.num # Sent[c] - 1
  BY <1>3 DEF Entry
<1>5. f.num \in Nat /\ f.num <= Sent[c] - 1
  BY <1>1 DEF Nums
<1>6. x.highest \in Nat /\ x.highest <= Sent[c] - 1
  BY DEF Entry, GoodChannel, BankChannel
<1>7. Accepts(x, f)
  BY <1>1, <1>2, <1>3, <1>4, <1>5 DEF Accepts, Entry
<1>8. ~PrunesInputs(x, f)
  BY <1>1, <1>2, <1>5, <1>6 DEF PrunesInputs
<1> QED
  BY <1>7, <1>8

\* What becomes of the channel of a regular frame.
LEMMA IngestRegular ==
    ASSUME BankTypes, Layout, BankInv, NEW f, NEW q, NEW i, NEW r, NEW k,
           IngestParts(f, q, i, r, k), NEW c \in Regular, f.ch = c
    PROVE  /\ f \in RegularFrames /\ f = FrameOf(c, f.num) /\ f.num \in Nums(c)
           /\ ~Taken(f)
           /\ \A n \in DOMAIN reads : reads[n].ch # c
           /\ Accepts(q[i], f) /\ ~PrunesInputs(q[i], f)
           /\ q[i].openBlock \in base..origin
           /\ \/ q = channelQueue /\ Entry(q[i], c)
              \/ q[i].openBlock = origin /\ q[i].inputs = {}
                    /\ \A j \in DOMAIN channelQueue : channelQueue[j].id # c
           /\ AddFrame(q[i], f).id = c
           /\ AddFrame(q[i], f).inputs = q[i].inputs \cup {f.num}
           /\ Entry(AddFrame(q[i], f), c)'
<1>1. f \in RegularFrames /\ f \in Frame /\ (\A m : ~TakenAt(f, m))
  BY TakenIngest, IngestFacts
<1>2. f = FrameOf(c, f.num) /\ f.num \in Nums(c) /\ ~Taken(f) /\ f.num \in Nat
         /\ Sent[c] \in Nat \ {0} /\ f.num <= Sent[c] - 1 /\ (f.last <=> f.num = Sent[c] - 1)
  <2>1. f = FrameOf(c, f.num) /\ f.num \in Nums(c) /\ Sent[c] \in Nat \ {0}
    BY <1>1, RegularFrameFacts
  <2>2. f.last <=> f.num = Sent[c] - 1
    BY <1>1, FrameTypes
  <2>3. f.num \in Nat /\ f.num <= Sent[c] - 1
    BY <2>1 DEF Nums
  <2> QED
    BY <1>1, <2>1, <2>2, <2>3 DEF Taken
<1>3. \A n \in DOMAIN reads : reads[n].ch # c
  BY <1>2 DEF BankInv, ReadTaken, AllTaken
<1>4. PICK x : x = q[i]
  OBVIOUS
<1>5. GoodChannel(x, origin) /\ x.id = c /\ i \in DOMAIN q /\ origin \in 1..MaxL1
         /\ UNCHANGED <<origin, base>> /\ x \in BankChannel
  <2>1. GoodQueue(q, origin) /\ origin \in 1..MaxL1
    BY IngestFacts
  <2>2. q[i].id = f.ch /\ i \in DOMAIN q /\ UNCHANGED <<origin, base>>
    BY DEF IngestParts
  <2>3. GoodChannel(x, origin)
    BY <1>4, <2>1, <2>2 DEF GoodQueue
  <2> QED
    BY <1>4, <2>1, <2>2, <2>3 DEF GoodChannel
<1>6. /\ origin \in Nat /\ base \in Nat /\ base <= origin
      /\ \A g, m : TakenAt(g, m)' <=> TakenAt(g, m) \/ (m = origin /\ g = f)
  <2>1. origin \in Nat /\ base \in Nat
    BY L1Facts
  <2>2. base <= origin
    BY <1>5, <2>1 DEF Layout, RestOfBlock
  <2> QED
    BY <2>1, <2>2, TakenIngest
<1>7. \/ q = channelQueue /\ Entry(x, c)
      \/ /\ x.openBlock = origin /\ x.inputs = {} /\ x.closed = FALSE /\ x.highest = 0
         /\ \A j \in DOMAIN channelQueue : channelQueue[j].id # c
  <2>1. CASE q = channelQueue
    BY <1>4, <1>5, <2>1 DEF BankInv, Entries
  <2>2. CASE /\ \A j \in DOMAIN channelQueue : channelQueue[j].id # f.ch
             /\ q = Append(channelQueue, NewChannel(f.ch))
    <3>1. channelQueue \in Seq(BankChannel) /\ DOMAIN channelQueue = 1..Len(channelQueue)
      BY QueueTypesKept
    <3>2. PICK y : y = NewChannel(f.ch)
      OBVIOUS
    <3>3. DOMAIN q = 1..(Len(channelQueue) + 1) /\ q[Len(channelQueue) + 1] = y
             /\ \A j \in DOMAIN channelQueue : q[j] = channelQueue[j]
      <4>1. q = Append(channelQueue, y)
        BY <2>2, <3>2
      <4> QED
        BY <3>1, <4>1
    <3>4. i \notin DOMAIN channelQueue
      BY <1>4, <1>5, <2>2, <3>3
    <3>5. i = Len(channelQueue) + 1
      BY <1>5, <3>1, <3>3, <3>4
    <3>6. x = y
      BY <1>4, <3>3, <3>5
    <3>7. x.openBlock = origin /\ x.inputs = {} /\ x.closed = FALSE /\ x.highest = 0
      <4>1. x = NewChannel(f.ch)
        BY <3>2, <3>6
      <4> QED
        BY <4>1, NewChannelFields
    <3> QED
      BY <2>2, <3>7
  <2>3. \/ q = channelQueue
        \/ /\ \A j \in DOMAIN channelQueue : channelQueue[j].id # f.ch
           /\ q = Append(channelQueue, NewChannel(f.ch))
    BY IngestFacts
  <2> QED
    BY <2>1, <2>2, <2>3
<1>8. Accepts(x, f) /\ ~PrunesInputs(x, f)
  <2>1. CASE Entry(x, c)
    BY <1>1, <1>5, <2>1, RegularAccepted
  <2>2. CASE x.inputs = {} /\ x.closed = FALSE /\ x.highest = 0
    BY <1>2, <2>2 DEF Accepts, PrunesInputs
  <2> QED
    BY <1>7, <2>1, <2>2
<1>9. PICK y : y = AddFrame(x, f)
  OBVIOUS
<1>10. /\ y.id = c /\ y.openBlock = x.openBlock /\ y.inputs = x.inputs \cup {f.num}
       /\ y.closed <=> x.closed \/ f.last
       /\ y.end = IF f.last THEN f.num ELSE x.end
       /\ y.highest = IF f.num > x.highest THEN f.num ELSE x.highest
  BY <1>1, <1>5, <1>8, <1>9, AddFrameFields
<1>11. x.openBlock \in base..origin /\ x.openBlock \in Nat /\ x.openBlock <= origin
  <2>1. x.openBlock \in base..origin
    BY <1>6, <1>7 DEF Entry
  <2> QED
    BY <1>6, <2>1
<1>12. TakenAt(FrameOf(c, f.num), origin)'
  BY <1>2, <1>5, <1>6
<1>13. Entry(y, c)'
  <2>1. y.openBlock \in base'..origin'
    BY <1>5, <1>10, <1>11
  <2>2. ASSUME NEW n \in y.inputs
        PROVE  n \in Nums(c) /\ \E m \in y.openBlock..origin' : TakenAt(FrameOf(c, n), m)'
    <3>1. CASE n = f.num
      <4>1. TakenAt(FrameOf(c, n), origin)' /\ origin' \in y.openBlock..origin'
        BY <1>5, <1>6, <1>10, <1>11, <1>12, <3>1
      <4> QED
        BY <1>2, <3>1, <4>1
    <3>2. CASE n \in x.inputs
      <4>1. Entry(x, c)
        BY <1>7, <3>2
      <4>2. n \in Nums(c) /\ \E m \in x.openBlock..origin : TakenAt(FrameOf(c, n), m)
        BY <3>2, <4>1 DEF Entry
      <4> QED
        BY <1>5, <1>6, <1>10, <4>2
    <3> QED
      BY <1>10, <2>2, <3>1, <3>2
  <2>3. \E n \in y.inputs : TakenAt(FrameOf(c, n), y.openBlock)'
    <3>1. CASE Entry(x, c)
      <4>1. PICK n \in x.inputs : TakenAt(FrameOf(c, n), x.openBlock)
        BY <3>1 DEF Entry
      <4> QED
        BY <1>6, <1>10, <4>1
    <3>2. CASE x.openBlock = origin
      <4>1. f.num \in y.inputs /\ y.openBlock = origin /\ origin' = origin
        BY <1>5, <1>10, <3>2
      <4> QED
        BY <1>12, <4>1
    <3> QED
      BY <1>7, <3>1, <3>2
  <2>4. y.closed <=> Sent[c] - 1 \in y.inputs
    <3>1. x.closed <=> Sent[c] - 1 \in x.inputs
      BY <1>7 DEF Entry
    <3> QED
      BY <1>2, <1>10, <3>1
  <2>5. y.closed => y.end = Sent[c] - 1
    <3>1. x.closed => x.end = Sent[c] - 1
      BY <1>7 DEF Entry
    <3> QED
      BY <1>2, <1>10, <3>1
  <2>6. y.highest <= Sent[c] - 1
    <3>1. x.highest <= Sent[c] - 1
      BY <1>2, <1>7 DEF Entry
    <3> QED
      BY <1>2, <1>10, <3>1
  <2> QED
    BY <2>1, <2>2, <2>3, <2>4, <2>5, <2>6 DEF Entry
<1>14. Entry(AddFrame(q[i], f), c)'
  <2>1. AddFrame(q[i], f)' = AddFrame(q[i], f)
    OBVIOUS
  <2> QED
  BY <1>4, <1>9, <1>13
<1> QED
  BY <1>1, <1>2, <1>3, <1>4, <1>7, <1>8, <1>9, <1>10, <1>11, <1>14

LEMMA AddFrameId ==
    ASSUME NEW x \in BankChannel, NEW f
    PROVE  AddFrame(x, f).id = x.id
<1>1. PICK a, e, h, n, s : AddFrame(x, f) =
           [x EXCEPT !.closed = a, !.end = e, !.inputs = n, !.highest = h, !.size = s]
  BY DEF AddFrame
<1>2. x = [id |-> x.id, openBlock |-> x.openBlock, size |-> x.size, closed |-> x.closed,
           highest |-> x.highest, end |-> x.end, inputs |-> x.inputs]
  BY DEF BankChannel
<1> QED
  BY <1>1, <1>2

\* The bank after a frame: the channels of before, and that of the frame.
LEMMA IngestQueue ==
    ASSUME BankTypes, Layout, BankInv, NEW f, NEW q, NEW i, NEW r, NEW k,
           IngestParts(f, q, i, r, k)
    PROVE  /\ IdsOnce(q)
           /\ \A j \in DOMAIN q : j # i => \E n \in DOMAIN channelQueue : q[j] = channelQueue[n]
           /\ IdsOnce(channelQueue')
           /\ \A j \in DOMAIN channelQueue' :
                 \/ \E n \in DOMAIN channelQueue :
                       channelQueue'[j] = channelQueue[n] /\ channelQueue[n].id # f.ch
                 \/ /\ channelQueue'[j].id = f.ch
                    /\ channelQueue'[j] = q[i] \/ channelQueue'[j] = AddFrame(q[i], f)
                    /\ f.ch \in Regular =>
                          \/ channelQueue'[j] = AddFrame(q[i], f)
                          \/ TimedOut(q[i]) /\ q = channelQueue /\ i \in DOMAIN channelQueue
                                /\ channelQueue'[j] = q[i]
<1>1. /\ GoodQueue(q, origin) /\ origin \in 1..MaxL1 /\ f \in Frame
      /\ \/ q = channelQueue
         \/ /\ \A j \in DOMAIN channelQueue : channelQueue[j].id # f.ch
            /\ q = Append(channelQueue, NewChannel(f.ch))
      /\ ~TimedOut(q[i]) /\ Accepts(q[i], f) =>
            /\ GoodQueue(r, origin) /\ DOMAIN r = DOMAIN q /\ Len(r) = Len(q)
            /\ r[i] = AddFrame(q[i], f) /\ \A j \in DOMAIN q : j # i => r[j] = q[j]
            /\ k \in 0..Len(r)
  BY IngestFacts
<1>2. /\ i \in DOMAIN q /\ q[i].id = f.ch
      /\ \/ /\ TimedOut(q[i]) \/ ~Accepts(q[i], f)
            /\ channelQueue' = q
         \/ /\ ~TimedOut(q[i]) /\ Accepts(q[i], f)
            /\ channelQueue' = SubSeq(r, k + 1, Len(r))
  BY DEF IngestParts
<1>3. channelQueue \in Seq(BankChannel) /\ DOMAIN channelQueue = 1..Len(channelQueue)
         /\ q \in Seq(BankChannel)
  BY <1>1, QueueTypesKept DEF GoodQueue
<1>4. /\ IdsOnce(q)
      /\ \A j \in DOMAIN q : j # i => \E n \in DOMAIN channelQueue : q[j] = channelQueue[n]
  <2>1. CASE q = channelQueue
    BY <2>1 DEF BankInv
  <2>2. CASE /\ \A j \in DOMAIN channelQueue : channelQueue[j].id # f.ch
             /\ q = Append(channelQueue, NewChannel(f.ch))
    <3>1. PICK x, l : x = NewChannel(f.ch) /\ l = Len(channelQueue) + 1
      OBVIOUS
    <3>2. DOMAIN q = 1..l /\ q[l] = x /\ \A j \in DOMAIN channelQueue : q[j] = channelQueue[j]
      <4>1. q = Append(channelQueue, x)
        BY <2>2, <3>1
      <4> QED
        BY <1>3, <3>1, <4>1
    <3>3. x.id = f.ch
      <4>1. x = NewChannel(f.ch)
        BY <3>1
      <4> QED
        BY <4>1, NewChannelFields
    <3>4. \A j \in DOMAIN q : j = l \/ j \in DOMAIN channelQueue
      BY <1>3, <3>1, <3>2
    <3>5. i = l
      BY <1>2, <2>2, <3>2, <3>4
    <3>6. \A j \in DOMAIN q : j # i => \E n \in DOMAIN channelQueue : q[j] = channelQueue[n]
      BY <3>2, <3>4, <3>5
    <3>7. ASSUME NEW a \in DOMAIN q, NEW b \in DOMAIN q, q[a].id = q[b].id PROVE a = b
      <4>1. CASE a \in DOMAIN channelQueue /\ b \in DOMAIN channelQueue
        BY <3>2, <3>7, <4>1 DEF BankInv, IdsOnce
      <4>2. CASE a = l /\ b \in DOMAIN channelQueue
        BY <2>2, <3>2, <3>3, <3>7, <4>2
      <4>3. CASE b = l /\ a \in DOMAIN channelQueue
        BY <2>2, <3>2, <3>3, <3>7, <4>3
      <4> QED
        BY <3>4, <4>1, <4>2, <4>3
    <3> QED
      BY <3>6, <3>7 DEF IdsOnce
  <2> QED
    BY <1>1, <2>1, <2>2
<1>5. \A j \in DOMAIN q : j # i => q[j].id # f.ch
  BY <1>2, <1>4 DEF IdsOnce
<1>6. CASE (TimedOut(q[i]) \/ ~Accepts(q[i], f)) /\ channelQueue' = q
  <2>1. ASSUME f.ch \in Regular
        PROVE  TimedOut(q[i]) /\ q = channelQueue /\ i \in DOMAIN channelQueue
    <3>1. TimedOut(q[i])
      BY <1>6, <2>1, IngestRegular
    <3>2. q[i].openBlock # origin
      BY <1>1, <3>1, BankAssumption DEF TimedOut
    <3> QED
      BY <1>2, <2>1, <3>1, <3>2, IngestRegular
  <2>2. ASSUME NEW j \in DOMAIN q
        PROVE  \/ \E n \in DOMAIN channelQueue : q[j] = channelQueue[n] /\ channelQueue[n].id # f.ch
               \/ /\ q[j].id = f.ch /\ q[j] = q[i]
                  /\ f.ch \in Regular =>
                        TimedOut(q[i]) /\ q = channelQueue /\ i \in DOMAIN channelQueue
    BY <1>2, <1>4, <1>5, <2>1
  <2> QED
    BY <1>4, <1>6, <2>2
<1>7. CASE /\ ~TimedOut(q[i]) /\ Accepts(q[i], f)
           /\ channelQueue' = SubSeq(r, k + 1, Len(r))
  <2>1. /\ GoodQueue(r, origin) /\ DOMAIN r = DOMAIN q /\ Len(r) = Len(q)
        /\ r[i] = AddFrame(q[i], f) /\ \A j \in DOMAIN q : j # i => r[j] = q[j]
        /\ k \in 0..Len(r)
    BY <1>1, <1>7
  <2>2. r[i].id = f.ch
    BY <1>2, <1>3, <2>1, AddFrameId
  <2>3. \A j \in DOMAIN q : r[j].id = q[j].id
    BY <1>2, <2>1, <2>2
  <2>4. IdsOnce(r)
    BY <1>4, <2>1, <2>3 DEF IdsOnce
  <2>5. PICK s : s = SubSeq(r, k + 1, Len(r))
    OBVIOUS
  <2>6. IdsOnce(s) /\ \A j \in DOMAIN s : \E n \in DOMAIN r : s[j] = r[n]
    <3>1. PICK o : o = origin
      OBVIOUS
    <3>2. GoodQueue(r, o) /\ k \in 0..Len(r)
      BY <2>1, <3>1
    <3> QED
      BY <2>4, <2>5, <3>2, PrunedIds
  <2>7. ASSUME NEW j \in DOMAIN s
        PROVE  \/ \E n \in DOMAIN channelQueue : s[j] = channelQueue[n] /\ channelQueue[n].id # f.ch
               \/ s[j].id = f.ch /\ s[j] = AddFrame(q[i], f)
    <3>1. PICK n \in DOMAIN r : s[j] = r[n]
      BY <2>6
    <3>2. CASE n = i
      BY <2>1, <2>2, <3>1, <3>2
    <3>3. CASE n # i
      BY <1>4, <1>5, <2>1, <3>1, <3>3
    <3> QED
      BY <3>2, <3>3
  <2>8. channelQueue' = s
    BY <1>7, <2>5
  <2> QED
    BY <1>4, <2>6, <2>7, <2>8
<1> QED
  BY <1>2, <1>6, <1>7

LEMMA TakenKept ==
    ASSUME \A f, m : TakenAt(f, m) => TakenAt(f, m)'
    PROVE  /\ \A f : Taken(f) => Taken(f)'
           /\ \A c : AllTaken(c) => AllTaken(c)'
<1>1. \A f : Taken(f) => Taken(f)'
  BY DEF Taken, TakenAt
<1> QED
  BY <1>1 DEF AllTaken

LEMMA BankInvInit == Init => BankInv
BY DEF Init, BankInv, IdsOnce, Entries, ReadTaken

\* If the bank only loses channels and nothing is read.
LEMMA BankInvSame ==
    ASSUME BankTypes, BankInv, base' = base, origin' \in Nat, origin <= origin',
           \A f, m : TakenAt(f, m) => TakenAt(f, m)',
           reads' = reads, IdsOnce(channelQueue'),
           \A j \in DOMAIN channelQueue' :
               \E n \in DOMAIN channelQueue : channelQueue'[j] = channelQueue[n]
    PROVE  BankInv'
<1>1. Entries(channelQueue)'
  <2> SUFFICES ASSUME NEW j \in DOMAIN channelQueue', NEW x, x = channelQueue'[j],
                      x.id \in Regular
               PROVE  Entry(x, x.id)'
    BY DEF Entries
  <2>1. PICK n \in DOMAIN channelQueue : x = channelQueue[n]
    OBVIOUS
  <2>2. Entry(x, x.id) /\ x \in BankChannel
    BY <2>1, QueueTypesKept DEF BankInv, Entries
  <2> QED
    BY <2>2, EntryKept
<1>2. ReadTaken'
  BY TakenKept DEF BankInv, ReadTaken
<1> QED
  BY <1>1, <1>2 DEF BankInv

LEMMA BankInvReadTimedOut ==
    ASSUME BankTypes, Layout, BankInv, ReadTimedOut
    PROVE  BankInv'
<1>1. channelQueue # <<>> /\ channelQueue' = Tail(channelQueue)
         /\ UNCHANGED <<l1, origin, frames, base, reads>>
  BY DEF ReadTimedOut, HeadTimedOut
<1>2. channelQueue \in Seq(BankChannel) /\ origin \in Nat
  BY QueueTypesKept
<1>3. 1 \in 1..Len(channelQueue) /\ channelQueue' = Removed(channelQueue, 1)
  BY <1>1, <1>2, TailRemoved
<1>4. IdsOnce(channelQueue')
         /\ \A j \in DOMAIN channelQueue' :
               \E n \in DOMAIN channelQueue : channelQueue'[j] = channelQueue[n]
  BY <1>2, <1>3, RemovedIds DEF BankInv
<1>5. \A f, m : TakenAt(f, m)' <=> TakenAt(f, m)
  BY <1>1, TakenRead
<1>6. origin' \in Nat /\ origin <= origin'
  BY <1>1, <1>2
<1> QED
  BY <1>1, <1>4, <1>5, <1>6, BankInvSame

\* ReadChannel in parts: i is the channel.
LEMMA ReadChannelFacts ==
    ASSUME BankTypes, ReadChannel
    PROVE  \E i \in DOMAIN channelQueue :
              /\ i \in Readable /\ i \in 1..Len(channelQueue)
              /\ IsReady(channelQueue[i]) /\ ~TimedOut(channelQueue[i])
              /\ channelQueue' = Removed(channelQueue, i)
              /\ reads' = Append(reads, [ch |-> channelQueue[i].id, at |-> origin])
              /\ channelQueue[i] \in BankChannel /\ channelQueue \in Seq(BankChannel)
              /\ reads \in Seq(Read) /\ DOMAIN reads = 1..Len(reads) /\ Len(reads) \in Nat
              /\ UNCHANGED <<l1, origin, frames, base, before, pruned, resets>>
              /\ origin \in Nat /\ origin \in 1..MaxL1
<1>1. PICK i \in Readable :
          /\ channelQueue' = Without(i)
          /\ reads' = Append(reads, [ch |-> channelQueue[i].id, at |-> origin])
  BY DEF ReadChannel
<1>2. i \in DOMAIN channelQueue /\ ReadableFrom(i)
  BY DEF Readable, ReadableHead
<1>3. channelQueue \in Seq(BankChannel) /\ DOMAIN channelQueue = 1..Len(channelQueue)
         /\ origin \in Nat
  BY QueueTypesKept
<1>4. channelQueue' = Removed(channelQueue, i) /\ channelQueue[i] \in BankChannel
  BY <1>1, <1>2, <1>3 DEF Without, Removed
<1>5. reads \in Seq(Read)
  BY DEF BankTypes
<1>6. DOMAIN reads = 1..Len(reads) /\ Len(reads) \in Nat
  BY <1>5
<1>7. UNCHANGED <<l1, origin, frames, base, before, pruned, resets>>
  BY DEF ReadChannel
<1>8. origin \in 1..MaxL1
  <2>1. channelQueue # <<>>
    BY <1>2, <1>3
  <2> QED
    BY <2>1, QueueTypesKept
<1> QED
  BY <1>1, <1>2, <1>3, <1>4, <1>5, <1>6, <1>7, <1>8 DEF ReadableFrom

\* A ready channel of the batcher has all its frames.
LEMMA ReadyHasAll ==
    ASSUME BankTypes, NEW x, NEW c \in Regular, Entry(x, c), IsReady(x)
    PROVE  x.inputs = Nums(c) /\ AllTaken(c)
<1>1. x.inputs = Nums(c)
  BY DEF IsReady, Entry, Nums
<1>2. ASSUME NEW k \in Nums(c) PROVE Taken(FrameOf(c, k))
  BY <1>1 DEF Entry, Taken, TakenAt
<1> QED
  BY <1>1, <1>2 DEF AllTaken

LEMMA BankInvReadChannel ==
    ASSUME BankTypes, Layout, BankInv, ReadChannel
    PROVE  BankInv'
<1>1. PICK i \in DOMAIN channelQueue :
              /\ i \in 1..Len(channelQueue) /\ IsReady(channelQueue[i])
              /\ channelQueue' = Removed(channelQueue, i)
              /\ reads' = Append(reads, [ch |-> channelQueue[i].id, at |-> origin])
              /\ channelQueue \in Seq(BankChannel)
              /\ reads \in Seq(Read) /\ DOMAIN reads = 1..Len(reads) /\ Len(reads) \in Nat
              /\ UNCHANGED <<l1, origin, frames, base>>
              /\ origin \in Nat
  BY ReadChannelFacts
<1>2. /\ IdsOnce(channelQueue')
      /\ \A j \in DOMAIN channelQueue' :
            \E n \in DOMAIN channelQueue : n # i /\ channelQueue'[j] = channelQueue[n]
  BY <1>1, RemovedIds DEF BankInv
<1>3. \A f, m : TakenAt(f, m) => TakenAt(f, m)'
  BY <1>1, TakenRead
<1>4. Entries(channelQueue)'
  <2> SUFFICES ASSUME NEW j \in DOMAIN channelQueue', NEW x, x = channelQueue'[j],
                      x.id \in Regular
               PROVE  Entry(x, x.id)'
    BY DEF Entries
  <2>1. PICK n \in DOMAIN channelQueue : x = channelQueue[n]
    BY <1>2
  <2>2. Entry(x, x.id) /\ x \in BankChannel
    BY <2>1, QueueTypesKept DEF BankInv, Entries
  <2>3. base' = base /\ origin' \in Nat /\ origin <= origin'
    BY <1>1
  <2> QED
    BY <1>3, <2>2, <2>3, EntryKept
<1>5. ReadTaken'
  <2> SUFFICES ASSUME NEW n \in DOMAIN reads', NEW c \in Regular, c = reads'[n].ch
               PROVE  AllTaken(c)' /\ \A j \in DOMAIN channelQueue' : channelQueue'[j].id # c
    BY DEF ReadTaken
  <2>1. PICK e : e = [ch |-> channelQueue[i].id, at |-> origin]
    OBVIOUS
  <2>2. \/ n \in DOMAIN reads /\ reads'[n] = reads[n]
        \/ reads'[n] = e
    BY <1>1, <2>1
  <2>3. CASE n \in DOMAIN reads /\ reads'[n] = reads[n]
    BY <1>2, <1>3, <2>3, TakenKept DEF BankInv, ReadTaken
  <2>4. CASE reads'[n] = e
    <3>1. channelQueue[i].id = c
      BY <2>1, <2>4
    <3>2. Entry(channelQueue[i], c)
      BY <3>1 DEF BankInv, Entries
    <3>3. AllTaken(c)
      BY <1>1, <3>2, ReadyHasAll
    <3>4. \A j \in DOMAIN channelQueue' : channelQueue'[j].id # c
      BY <1>2, <3>1 DEF BankInv, IdsOnce
    <3> QED
      BY <1>3, <3>3, <3>4, TakenKept
  <2> QED
    BY <2>2, <2>3, <2>4
<1> QED
  BY <1>2, <1>4, <1>5 DEF BankInv

LEMMA BankInvIngest ==
    ASSUME BankTypes, Layout, BankInv, IngestFrame
    PROVE  BankInv'
<1>1. PICK f, q, i, r, k : IngestParts(f, q, i, r, k)
  BY IngestSplit
<1>2. /\ IdsOnce(channelQueue')
      /\ \A j \in DOMAIN channelQueue' :
             \/ \E n \in DOMAIN channelQueue :
                   channelQueue'[j] = channelQueue[n] /\ channelQueue[n].id # f.ch
             \/ /\ channelQueue'[j].id = f.ch
                /\ f.ch \in Regular =>
                      \/ channelQueue'[j] = AddFrame(q[i], f)
                      \/ q = channelQueue /\ i \in DOMAIN channelQueue
                            /\ channelQueue'[j] = q[i]
  BY <1>1, IngestQueue
<1>3. \A g, m : TakenAt(g, m) => TakenAt(g, m)'
  BY <1>1, TakenIngest
<1>4. base' = base /\ origin' \in Nat /\ origin <= origin' /\ reads' = reads
  BY <1>1, L1Facts DEF IngestParts
<1>5. Entries(channelQueue)'
  <2> SUFFICES ASSUME NEW j \in DOMAIN channelQueue', NEW x, x = channelQueue'[j],
                      x.id \in Regular
               PROVE  Entry(x, x.id)'
    BY DEF Entries
  <2>1. CASE \E n \in DOMAIN channelQueue : x = channelQueue[n]
    <3>1. Entry(x, x.id) /\ x \in BankChannel
      BY <2>1, QueueTypesKept DEF BankInv, Entries
    <3> QED
      BY <1>3, <1>4, <3>1, EntryKept
  <2>2. CASE x.id = f.ch /\ x = AddFrame(q[i], f)
    BY <1>1, <2>2, IngestRegular
  <2> QED
    BY <1>2, <2>1, <2>2
<1>6. ReadTaken'
  <2> SUFFICES ASSUME NEW n \in DOMAIN reads, NEW c \in Regular, c = reads[n].ch
               PROVE  AllTaken(c)' /\ \A j \in DOMAIN channelQueue' : channelQueue'[j].id # c
    BY <1>4 DEF ReadTaken
  <2>1. AllTaken(c)' /\ \A j \in DOMAIN channelQueue : channelQueue[j].id # c
    BY <1>3, TakenKept DEF BankInv, ReadTaken
  <2>2. f.ch # c
    BY <1>1, IngestRegular
  <2> QED
    BY <1>2, <2>1, <2>2
<1> QED
  BY <1>2, <1>5, <1>6 DEF BankInv

LEMMA BankInvOther ==
    ASSUME BankTypes, Layout, BankInv,
           (\E fs \in L1Data : L1Block(fs)) \/ AdvanceL1 \/ \E b \in 1..origin : Reset(b)
    PROVE  Layout' /\ BankInv'
<1>1. CASE \E fs \in L1Data : L1Block(fs)
  <2>1. PICK fs \in L1Data : L1Block(fs)
    BY <1>1
  <2>2. UNCHANGED <<origin, channelQueue, base, reads>>
    BY <2>1 DEF L1Block, pipeline
  <2>3. Layout' /\ \A f, m : TakenAt(f, m)' <=> TakenAt(f, m)
    BY <2>1, TakenL1Block
  <2> QED
    BY <2>2, <2>3, L1Facts, BankInvSame DEF BankInv
<1>2. CASE AdvanceL1
  <2>1. UNCHANGED <<channelQueue, base, reads>> /\ origin' = origin + 1
    BY <1>2 DEF AdvanceL1
  <2>2. Layout' /\ \A f, m : TakenAt(f, m)' <=> TakenAt(f, m)
    BY <1>2, TakenAdvance
  <2>3. origin' \in Nat /\ origin <= origin'
    BY <2>1, L1Facts
  <2> QED
    BY <2>1, <2>2, <2>3, BankInvSame DEF BankInv
<1>3. CASE \E b \in 1..origin : Reset(b)
  <2>1. PICK b \in 1..origin : Reset(b)
    BY <1>3
  <2>2. channelQueue' = <<>> /\ reads' = <<>>
    BY <2>1 DEF Reset, EmptyBank
  <2>3. Layout'
    BY <2>1, TakenReset
  <2> QED
    BY <2>2, <2>3 DEF BankInv, IdsOnce, Entries, ReadTaken
<1> QED
  BY <1>1, <1>2, <1>3

-----------------------------------------------------------------------------
(* What has been read, up to L1 block o when L1 is read from block b on. *)

\* The frames of c are on L1 by block n, none of them more than the timeout before it.
InTime(c, n, b) ==
    \A k \in Nums(c) : \E m \in b..n : m + ChannelTimeout >= n /\ OnL1(FrameOf(c, k), m)
SomeAt(c, n) == \E k \in Nums(c) : OnL1(FrameOf(c, k), n)

\* Place p holds the last frame of c in L1 block n.
LastAt(c, n, p) ==
    /\ p \in DOMAIN l1[n] /\ l1[n][p].ch = c
    /\ \A q \in DOMAIN l1[n] : q > p => l1[n][q].ch # c

\* Each channel that was read was complete and in time, and it was read once ...
ReadsSound(rs, b, o) ==
    /\ \A i \in DOMAIN rs : rs[i].ch \in Regular =>
          /\ rs[i].at \in b..o /\ InTime(rs[i].ch, rs[i].at, b)
          /\ rs[i].at > CanyonBlock => SomeAt(rs[i].ch, rs[i].at)
    /\ \A i, j \in DOMAIN rs : rs[i].ch \in Regular /\ rs[i].ch = rs[j].ch => i = j

\* ... in the order in which the frames that complete channels are on L1 ...
ReadsOrdered(rs) ==
    \A i, j \in DOMAIN rs :
        /\ i < j /\ rs[i].ch \in Regular /\ rs[j].ch \in Regular
        /\ rs[i].at = rs[j].at /\ rs[i].at > CanyonBlock
        => \E p, q \in DOMAIN l1[rs[i].at] :
              p < q /\ LastAt(rs[i].ch, rs[i].at, p) /\ LastAt(rs[j].ch, rs[i].at, q)

\* ... and every channel that is complete and in time was read.
Finished(rs, b, o) ==
    \A c \in Regular : \A n \in b..(o - 1) :
        n > CanyonBlock /\ InTime(c, n, b) /\ SomeAt(c, n) =>
            \E i \in DOMAIN rs : rs[i] = [ch |-> c, at |-> n]

\* Blocks of L1 do not change.
L1Kept ==
    /\ Len(l1) <= Len(l1') /\ Len(l1') \in Nat
    /\ \A n \in 1..Len(l1) : l1'[n] = l1[n]
    /\ \A f : \A n \in 1..Len(l1) : OnL1(f, n)' <=> OnL1(f, n)

LEMMA L1IsKept ==
    ASSUME BankTypes, Layout, Next
    PROVE  L1Kept
<1>1. CASE \E fs \in L1Data : L1Block(fs)
  <2>1. PICK fs \in L1Data : L1Block(fs)
    BY <1>1
  <2> QED
    BY <2>1, TakenL1Block, L1Facts DEF L1Kept
<1>2. CASE l1' = l1
  <2>1. \A f, n : OnL1(f, n)' <=> OnL1(f, n)
    BY <1>2 DEF OnL1
  <2> QED
    BY <1>2, <2>1, L1Facts DEF L1Kept
<1>3. (\E fs \in L1Data : L1Block(fs)) \/ l1' = l1
  BY DEF Next, NextData, ReadTimedOut, ReadChannel, IngestFrame, AdvanceL1, Reset
<1> QED
  BY <1>1, <1>2, <1>3

LEMMA InTimeKept ==
    ASSUME BankTypes, L1Kept, NEW c, NEW b \in Nat \ {0}, NEW n \in b..Len(l1)
    PROVE  /\ InTime(c, n, b)' <=> InTime(c, n, b)
           /\ SomeAt(c, n)' <=> SomeAt(c, n)
           /\ \A p : LastAt(c, n, p)' <=> LastAt(c, n, p)
<1>1. n \in 1..Len(l1) /\ \A m \in b..n : m \in 1..Len(l1)
  BY L1Facts
<1>2. \A k \in Nums(c) : \A m \in b..n : OnL1(FrameOf(c, k), m)' <=> OnL1(FrameOf(c, k), m)
  BY <1>1 DEF L1Kept
<1>3. InTime(c, n, b)' <=> InTime(c, n, b)
  BY <1>2 DEF InTime
<1>4. SomeAt(c, n)' <=> SomeAt(c, n)
  BY <1>1 DEF SomeAt, L1Kept
<1>5. l1'[n] = l1[n]
  BY <1>1 DEF L1Kept
<1>6. \A p : LastAt(c, n, p)' <=> LastAt(c, n, p)
  BY <1>5 DEF LastAt
<1> QED
  BY <1>3, <1>4, <1>6

LEMMA ReadsKept ==
    ASSUME BankTypes, L1Kept, NEW rs, NEW b \in Nat \ {0}, NEW o \in Nat, o <= Len(l1),
           ReadsSound(rs, b, o), NEW o2 \in Nat, o <= o2
    PROVE  /\ ReadsSound(rs, b, o2)'
           /\ ReadsOrdered(rs) => ReadsOrdered(rs)'
           /\ Finished(rs, b, o) => Finished(rs, b, o)'
<1>1. ASSUME NEW n \in b..o PROVE n \in b..Len(l1) /\ n \in b..o2 /\ n \in 1..Len(l1)
  BY L1Facts
<1>2. ASSUME NEW i \in DOMAIN rs, rs[i].ch \in Regular
      PROVE  /\ rs[i].at \in b..o2 /\ InTime(rs[i].ch, rs[i].at, b)'
             /\ rs[i].at > CanyonBlock => SomeAt(rs[i].ch, rs[i].at)'
  <2>1. PICK c, n : c = rs[i].ch /\ n = rs[i].at
    OBVIOUS
  <2>2. n \in b..o /\ InTime(c, n, b) /\ (n > CanyonBlock => SomeAt(c, n))
    BY <1>2, <2>1 DEF ReadsSound
  <2>3. n \in b..o2 /\ n \in b..Len(l1)
    BY <1>1, <2>2
  <2>4. InTime(c, n, b)' /\ (n > CanyonBlock => SomeAt(c, n)')
    BY <2>2, <2>3, InTimeKept
  <2> QED
    BY <2>1, <2>3, <2>4
<1>3. ReadsSound(rs, b, o2)'
  BY <1>2 DEF ReadsSound
<1>4. ASSUME ReadsOrdered(rs), NEW i \in DOMAIN rs, NEW j \in DOMAIN rs, i < j,
             rs[i].ch \in Regular, rs[j].ch \in Regular, rs[i].at = rs[j].at,
             rs[i].at > CanyonBlock
      PROVE  \E p, q \in DOMAIN l1'[rs[i].at] :
                p < q /\ LastAt(rs[i].ch, rs[i].at, p)' /\ LastAt(rs[j].ch, rs[i].at, q)'
  <2>1. PICK c, d, n : c = rs[i].ch /\ d = rs[j].ch /\ n = rs[i].at
    OBVIOUS
  <2>2. PICK p \in DOMAIN l1[n], q \in DOMAIN l1[n] : p < q /\ LastAt(c, n, p) /\ LastAt(d, n, q)
    BY <1>4, <2>1 DEF ReadsOrdered
  <2>3. n \in b..Len(l1) /\ n \in 1..Len(l1)
    BY <1>1, <1>4, <2>1 DEF ReadsSound
  <2>4. LastAt(c, n, p)' /\ LastAt(d, n, q)' /\ l1'[n] = l1[n]
    BY <2>2, <2>3, InTimeKept DEF L1Kept
  <2> QED
    BY <2>1, <2>2, <2>4
<1>5. ReadsOrdered(rs) => ReadsOrdered(rs)'
  BY <1>4 DEF ReadsOrdered
<1>6. ASSUME Finished(rs, b, o), NEW c \in Regular, NEW n \in b..(o - 1), n > CanyonBlock,
             InTime(c, n, b)', SomeAt(c, n)'
      PROVE  \E i \in DOMAIN rs : rs[i] = [ch |-> c, at |-> n]
  <2>1. n \in b..o
    OBVIOUS
  <2>2. n \in b..Len(l1)
    BY <1>1, <2>1
  <2> QED
    BY <1>6, <2>2, InTimeKept DEF Finished
<1>7. Finished(rs, b, o) => Finished(rs, b, o)'
  BY <1>6 DEF Finished
<1> QED
  BY <1>3, <1>5, <1>7

-----------------------------------------------------------------------------
(* From Canyon on a channel is read as soon as it is ready: when the bank asks for more   *)
(* data, none is, and the only one that can become ready is that of the frame it is given. *)

ReadyAt(x) ==
    x.id \in Regular /\ origin > CanyonBlock /\ IsReady(x) /\ ~TimedOut(x)
ReadyNow ==
    \A i \in DOMAIN channelQueue : ReadyAt(channelQueue[i]) =>
        Done \in DOMAIN l1[origin] /\ l1[origin][Done].ch = channelQueue[i].id

LEMMA NothingReadable ==
    ASSUME BankTypes, ReadEOF, origin >= CanyonBlock, NEW i \in DOMAIN channelQueue
    PROVE  ~(IsReady(channelQueue[i]) /\ ~TimedOut(channelQueue[i]))
<1>1. ~(origin < CanyonBlock)
  BY L1Facts
<1> QED
  BY <1>1 DEF ReadEOF, Readable, ReadableFrom

LEMMA ReadyNowInit == Init => ReadyNow
BY DEF Init, ReadyNow

LEMMA ReadyNowSame ==
    ASSUME BankTypes, ReadyNow, origin' = origin,
           origin # 0 => l1'[origin] = l1[origin] /\ Done' = Done,
           \A j \in DOMAIN channelQueue' :
               \E n \in DOMAIN channelQueue : channelQueue'[j] = channelQueue[n]
    PROVE  ReadyNow'
<1> SUFFICES ASSUME NEW j \in DOMAIN channelQueue', NEW x, x = channelQueue'[j], ReadyAt(x)'
             PROVE  Done' \in DOMAIN l1'[origin'] /\ l1'[origin'][Done'].ch = x.id
  BY DEF ReadyNow
<1>1. PICK n \in DOMAIN channelQueue : x = channelQueue[n]
  OBVIOUS
<1>2. ReadyAt(x) /\ origin # 0
  BY L1Facts DEF ReadyAt, TimedOut
<1> QED
  BY <1>1, <1>2 DEF ReadyNow

LEMMA ReadyNowRead ==
    ASSUME BankTypes, Layout, BankInv, ReadyNow, ReadTimedOut \/ ReadChannel
    PROVE  ReadyNow'
<1>1. PICK i \in 1..Len(channelQueue) : channelQueue' = Removed(channelQueue, i)
  <2>1. CASE ReadTimedOut
    BY <2>1, TailRemoved, QueueTypesKept DEF ReadTimedOut, HeadTimedOut
  <2>2. CASE ReadChannel
    BY <2>2, ReadChannelFacts
  <2> QED
    BY <2>1, <2>2
<1>2. UNCHANGED <<l1, origin, frames, base>>
  BY DEF ReadTimedOut, ReadChannel
<1>3. Done' = Done
  BY <1>2 DEF Done
<1>4. \A j \in DOMAIN channelQueue' :
               \E n \in DOMAIN channelQueue : channelQueue'[j] = channelQueue[n]
  BY <1>1, RemovedIds, QueueTypesKept DEF BankInv
<1> QED
  BY <1>2, <1>3, <1>4, ReadyNowSame

LEMMA ReadyNowIngest ==
    ASSUME BankTypes, Layout, BankInv, ReadyNow, IngestFrame
    PROVE  ReadyNow'
<1>1. PICK f, q, i, r, k : IngestParts(f, q, i, r, k)
  BY IngestSplit
<1>2. l1' = l1 /\ origin' = origin /\ ReadEOF
  BY <1>1 DEF IngestParts
<1> SUFFICES ASSUME NEW j \in DOMAIN channelQueue', NEW x, x = channelQueue'[j], ReadyAt(x)'
             PROVE  Done' \in DOMAIN l1'[origin'] /\ l1'[origin'][Done'].ch = x.id
  BY DEF ReadyNow
<1>3. ReadyAt(x) /\ origin >= CanyonBlock
  BY <1>2, L1Facts DEF ReadyAt, TimedOut
<1>4. (\E n \in DOMAIN channelQueue : x = channelQueue[n]) \/ x.id = f.ch
  BY <1>1, IngestQueue
<1>5. x.id = f.ch
  BY <1>2, <1>3, <1>4, NothingReadable DEF ReadyAt
<1>6. Done' \in DOMAIN l1[origin] /\ l1[origin][Done'] = f
  BY <1>1, TakenIngest
<1> QED
  BY <1>2, <1>5, <1>6

LEMMA ReadyNowOther ==
    ASSUME BankTypes, Layout, BankInv, ReadyNow,
           (\E fs \in L1Data : L1Block(fs)) \/ AdvanceL1 \/ \E b \in 1..origin : Reset(b)
    PROVE  ReadyNow'
<1>1. CASE \E fs \in L1Data : L1Block(fs)
  <2>1. PICK fs \in L1Data : L1Block(fs)
    BY <1>1
  <2>2. UNCHANGED <<origin, channelQueue>>
    BY <2>1 DEF L1Block, pipeline
  <2>3. origin # 0 => l1'[origin] = l1[origin] /\ Done' = Done
    BY <2>1, TakenL1Block, L1Facts
  <2> QED
    BY <2>2, <2>3, ReadyNowSame
<1>2. CASE AdvanceL1
  <2>1. channelQueue' = channelQueue /\ origin' = origin + 1 /\ ReadEOF
    BY <1>2 DEF AdvanceL1
  <2>2. ASSUME NEW j \in DOMAIN channelQueue, NEW x, x = channelQueue[j], ReadyAt(x)' PROVE FALSE
    <3>1. origin \in Nat /\ CanyonBlock \in Nat /\ ChannelTimeout \in Nat /\ x.openBlock \in Nat
      <4>1. x \in BankChannel
        BY <2>2, QueueTypesKept
      <4> QED
        BY <4>1, L1Facts, BankAssumption DEF BankChannel
    <3>2. origin + 1 > CanyonBlock /\ IsReady(x) /\ ~(x.openBlock + ChannelTimeout < origin + 1)
      BY <2>1, <2>2 DEF ReadyAt, TimedOut
    <3>3. origin >= CanyonBlock /\ ~TimedOut(x)
      BY <3>1, <3>2 DEF TimedOut
    <3> QED
      BY <2>1, <2>2, <3>2, <3>3, NothingReadable
  <2> QED
    BY <2>1, <2>2 DEF ReadyNow
<1>3. CASE \E b \in 1..origin : Reset(b)
  <2>1. channelQueue' = <<>>
    BY <1>3 DEF Reset, EmptyBank
  <2> QED
    BY <2>1 DEF ReadyNow
<1> QED
  BY <1>1, <1>2, <1>3

-----------------------------------------------------------------------------
(* The order of reads at one block. *)

LEMMA LastExists ==
    ASSUME BankTypes, NEW n \in 1..Len(l1), NEW c \in Regular, SomeAt(c, n)
    PROVE  \E p : LastAt(c, n, p)
<1>1. PICK l : l = Len(l1[n])
  OBVIOUS
<1>2. l \in Nat /\ DOMAIN l1[n] = 1..l
  BY <1>1, L1Facts
<1> DEFINE S == {d \in 0..l : \E p \in 1..l : d = l - p /\ l1[n][p].ch = c}
<1>3. PICK k \in Nums(c), p \in DOMAIN l1[n] : l1[n][p] = FrameOf(c, k)
  BY DEF SomeAt, OnL1
<1>4. l1[n][p].ch = c
  BY <1>3 DEF FrameOf
<1>5. S \in SUBSET Nat /\ l - p \in S
  <2>1. p \in 1..l
    BY <1>2
  <2>2. l - p \in 0..l
    BY <1>2, <2>1
  <2>3. S \in SUBSET Nat
    BY <1>2
  <2> QED
    BY <1>4, <2>1, <2>2, <2>3
<1>6. \E d \in S : \A e \in S : d <= e
  <2>1. PICK m : m = l - p
    OBVIOUS
  <2>2. m \in S /\ S \in SUBSET Nat
    BY <1>5, <2>1
  <2> HIDE DEF S
  <2> QED
    BY <2>2, LeastNumber
<1>7. PICK d \in S : \A e \in S : d <= e
  BY <1>6
<1>8. PICK w \in 1..l : d = l - w /\ l1[n][w].ch = c
  BY <1>7
<1>9. ASSUME NEW q \in DOMAIN l1[n], q > w, l1[n][q].ch = c PROVE FALSE
  <2>1. l - q \in S
    <3>1. q \in 1..l
      BY <1>2
    <3>2. l - q \in 0..l
      BY <1>2, <3>1
    <3> QED
      BY <1>9, <3>1, <3>2
  <2>2. d <= l - q
    BY <1>7, <2>1
  <2> QED
    BY <1>2, <1>8, <1>9, <2>2
<1>10. LastAt(c, n, w)
  BY <1>2, <1>8, <1>9 DEF LastAt
<1> QED
  BY <1>10

\* If all frames of c have been taken, those of the block at the origin are before Done.
LEMMA AllBeforeDone ==
    ASSUME BankTypes, Layout, NEW c \in Regular, AllTaken(c), origin \in 1..Len(l1),
           NEW p \in DOMAIN l1[origin], l1[origin][p].ch = c
    PROVE  p <= Done
<1>1. PICK f : f = l1[origin][p]
  OBVIOUS
<1>2. f \in L1Frame /\ f.ch = c
  BY <1>1, L1Facts
<1>3. f \in RegularFrames
  BY <1>2, FrameTypes
<1>4. f = FrameOf(c, f.num) /\ f.num \in Nums(c)
  BY <1>2, <1>3, RegularFrameFacts
<1>5. PICK m : TakenAt(f, m)
  BY <1>4 DEF AllTaken, Taken
<1>6. m \in DOMAIN l1 /\ origin \in DOMAIN l1
  BY <1>5, L1Facts DEF TakenAt
<1>7. PICK i \in DOMAIN l1[m] : l1[m][i] = f /\ (m = origin => i <= Done)
  BY <1>5 DEF TakenAt
<1>8. m = origin /\ i = p
  BY <1>1, <1>2, <1>6, <1>7 DEF Layout, SentOnce
<1> QED
  BY <1>7, <1>8

\* What a read adds: a channel that is complete and in time, after those read before it.
LEMMA ReadIsSound ==
    ASSUME BankTypes, Layout, BankInv, ReadyNow, NEW i \in DOMAIN channelQueue,
           IsReady(channelQueue[i]), ~TimedOut(channelQueue[i]),
           NEW c \in Regular, c = channelQueue[i].id
    PROVE  /\ InTime(c, origin, base) /\ AllTaken(c) /\ origin \in base..origin
           /\ origin \in 1..Len(l1)
           /\ origin > CanyonBlock => SomeAt(c, origin) /\ LastAt(c, origin, Done)
           /\ \A n \in DOMAIN reads : reads[n].ch # c
<1>1. PICK x : x = channelQueue[i]
  OBVIOUS
<1>2. x \in BankChannel /\ Entry(x, c) /\ IsReady(x) /\ ~TimedOut(x)
  BY <1>1, QueueTypesKept DEF BankInv, Entries
<1>3. x.inputs = Nums(c) /\ AllTaken(c)
  BY <1>2, ReadyHasAll
<1>4. /\ origin \in Nat /\ base \in Nat /\ base >= 1 /\ x.openBlock \in Nat
      /\ ChannelTimeout \in Nat
      /\ x.openBlock \in base..origin /\ x.openBlock + ChannelTimeout >= origin
      /\ origin \in base..origin /\ origin \in 1..Len(l1)
  <2>1. origin \in Nat /\ base \in Nat /\ base >= 1 /\ ChannelTimeout \in Nat /\ origin <= Len(l1)
           /\ Len(l1) \in Nat
    BY L1Facts
  <2>2. x.openBlock \in base..origin
    BY <1>2 DEF Entry
  <2> QED
    BY <1>2, <2>1, <2>2 DEF TimedOut
<1>5. InTime(c, origin, base)
  <2>1. ASSUME NEW k \in Nums(c)
        PROVE  \E m \in base..origin : m + ChannelTimeout >= origin /\ OnL1(FrameOf(c, k), m)
    <3>1. PICK m \in x.openBlock..origin : TakenAt(FrameOf(c, k), m)
      BY <1>2, <1>3 DEF Entry
    <3>2. OnL1(FrameOf(c, k), m) /\ m \in base..origin
      <4>1. FrameOf(c, k) \in RegularFrames
        BY RegularFrameFacts
      <4> QED
        BY <3>1, <4>1, TakenFacts
    <3>3. m + ChannelTimeout >= origin
      BY <1>4, <3>1
    <3> QED
      BY <3>2, <3>3
  <2> QED
    BY <2>1 DEF InTime
<1>6. ASSUME origin > CanyonBlock PROVE SomeAt(c, origin) /\ LastAt(c, origin, Done)
  <2>1. Done \in DOMAIN l1[origin] /\ l1[origin][Done].ch = c
    BY <1>1, <1>2, <1>6 DEF ReadyNow, ReadyAt
  <2>2. PICK f : f = l1[origin][Done]
    OBVIOUS
  <2>3. f \in RegularFrames /\ f.ch = c
    BY <1>4, <2>1, <2>2, L1Facts, FrameTypes
  <2>4. f = FrameOf(c, f.num) /\ f.num \in Nums(c)
    BY <2>3, RegularFrameFacts
  <2>5. SomeAt(c, origin)
    BY <1>4, <2>1, <2>2, <2>4, L1Facts DEF SomeAt, OnL1
  <2>6. \A q \in DOMAIN l1[origin] : l1[origin][q].ch = c => q <= Done
    BY <1>3, <1>4, AllBeforeDone
  <2>7. \A q \in DOMAIN l1[origin] : q > Done => l1[origin][q].ch # c
    <3>1. \A q \in DOMAIN l1[origin] : q \in Nat /\ Done \in Nat
      BY <1>4, <2>1, L1Facts
    <3> QED
      BY <2>6, <3>1
  <2> QED
    BY <2>1, <2>5, <2>7 DEF LastAt
<1>7. \A n \in DOMAIN reads : reads[n].ch # c
  BY DEF BankInv, ReadTaken
<1> QED
  BY <1>3, <1>4, <1>5, <1>6, <1>7

\* A channel read before at the same block was completed by an earlier frame.
LEMMA ReadBefore ==
    ASSUME BankTypes, Layout, BankInv, ReadsSound(reads, base, origin),
           NEW n \in DOMAIN reads, NEW d \in Regular, d = reads[n].ch, reads[n].at = origin,
           origin > CanyonBlock, NEW c \in Regular, c # d, LastAt(c, origin, Done)
    PROVE  \E p \in DOMAIN l1[origin] : p < Done /\ LastAt(d, origin, p)
<1>1. AllTaken(d)
  BY DEF BankInv, ReadTaken
<1>2. SomeAt(d, origin) /\ origin \in 1..Len(l1)
  BY L1Facts DEF ReadsSound
<1>3. PICK p : LastAt(d, origin, p)
  BY <1>2, LastExists
<1>4. p \in DOMAIN l1[origin] /\ l1[origin][p].ch = d
  BY <1>3 DEF LastAt
<1>5. p <= Done
  BY <1>1, <1>2, <1>4, AllBeforeDone
<1>6. p # Done
  BY <1>4 DEF LastAt
<1>7. p \in Int /\ Done \in Int
  BY <1>2, <1>4, L1Facts
<1> QED
  BY <1>3, <1>4, <1>5, <1>6, <1>7

LEMMA SoundRead ==
    ASSUME BankTypes, Layout, BankInv, ReadyNow, ReadsSound(reads, base, origin),
           ReadsOrdered(reads), ReadChannel
    PROVE  ReadsSound(reads, base, origin)' /\ ReadsOrdered(reads)'
<1>1. PICK i \in DOMAIN channelQueue :
              /\ IsReady(channelQueue[i]) /\ ~TimedOut(channelQueue[i])
              /\ reads' = Append(reads, [ch |-> channelQueue[i].id, at |-> origin])
              /\ reads \in Seq(Read) /\ DOMAIN reads = 1..Len(reads) /\ Len(reads) \in Nat
              /\ UNCHANGED <<l1, origin, frames, base>>
  BY ReadChannelFacts
<1>2. PICK c, e, l : c = channelQueue[i].id /\ e = [ch |-> c, at |-> origin] /\ l = Len(reads) + 1
  OBVIOUS
<1>3. /\ DOMAIN reads' = 1..l /\ reads'[l] = e /\ l \in Nat /\ l \notin DOMAIN reads
      /\ \A n \in DOMAIN reads : reads'[n] = reads[n] /\ n < l
      /\ \A n \in DOMAIN reads' : n \in DOMAIN reads \/ n = l
  BY <1>1, <1>2
<1>4. e.ch = c /\ e.at = origin
  BY <1>2
<1>5. ASSUME c \in Regular
      PROVE  /\ InTime(c, origin, base) /\ AllTaken(c) /\ origin \in base..origin
             /\ origin \in 1..Len(l1)
             /\ origin > CanyonBlock => SomeAt(c, origin) /\ LastAt(c, origin, Done)
             /\ \A n \in DOMAIN reads : reads[n].ch # c
  BY <1>1, <1>2, <1>5, ReadIsSound
<1>6. PICK o, b : o = origin /\ b = base
  OBVIOUS
<1>7. \A d, n : /\ InTime(d, n, b)' <=> InTime(d, n, b)
                /\ SomeAt(d, n)' <=> SomeAt(d, n)
                /\ \A p : LastAt(d, n, p)' <=> LastAt(d, n, p)
  BY <1>1 DEF InTime, SomeAt, LastAt, OnL1
<1>8. \A n \in DOMAIN reads' : reads'[n].ch \in Regular =>
          /\ reads'[n].at \in b..o /\ InTime(reads'[n].ch, reads'[n].at, b)
          /\ reads'[n].at > CanyonBlock => SomeAt(reads'[n].ch, reads'[n].at)
  <2> SUFFICES ASSUME NEW n \in DOMAIN reads', reads'[n].ch \in Regular
               PROVE  /\ reads'[n].at \in b..o /\ InTime(reads'[n].ch, reads'[n].at, b)
                      /\ reads'[n].at > CanyonBlock => SomeAt(reads'[n].ch, reads'[n].at)
    OBVIOUS
  <2>1. CASE n \in DOMAIN reads
    <3>1. reads'[n] = reads[n]
      BY <1>3, <2>1
    <3> QED
      BY <1>6, <2>1, <3>1 DEF ReadsSound
  <2>2. CASE n = l
    BY <1>3, <1>4, <1>5, <1>6, <2>2
  <2> QED
    BY <1>3, <2>1, <2>2
<1>9. \A m, n \in DOMAIN reads' : reads'[m].ch \in Regular /\ reads'[m].ch = reads'[n].ch => m = n
  <2> SUFFICES ASSUME NEW m \in DOMAIN reads', NEW n \in DOMAIN reads',
                      reads'[m].ch \in Regular, reads'[m].ch = reads'[n].ch
               PROVE  m = n
    OBVIOUS
  <2>1. CASE m \in DOMAIN reads /\ n \in DOMAIN reads
    BY <1>3, <2>1 DEF ReadsSound
  <2>2. CASE m = l /\ n \in DOMAIN reads
    BY <1>3, <1>4, <1>5, <2>2
  <2>3. CASE n = l /\ m \in DOMAIN reads
    BY <1>3, <1>4, <1>5, <2>3
  <2> QED
    BY <1>3, <2>1, <2>2, <2>3
<1>10. ReadsSound(reads, base, origin)'
  <2>1. base' = b /\ origin' = o
    BY <1>1, <1>6
  <2>2. ASSUME NEW n \in DOMAIN reads', NEW d \in Regular, NEW h,
               d = reads'[n].ch, h = reads'[n].at
        PROVE  h \in b..o /\ InTime(d, h, b)' /\ (h > CanyonBlock => SomeAt(d, h)')
    <3>1. h \in b..o /\ InTime(d, h, b) /\ (h > CanyonBlock => SomeAt(d, h))
      BY <1>8, <2>2
    <3> QED
      BY <1>7, <3>1
  <2> QED
    BY <1>9, <2>1, <2>2 DEF ReadsSound
<1>11. ASSUME NEW m \in DOMAIN reads', NEW n \in DOMAIN reads', m < n,
              NEW d \in Regular, NEW g \in Regular, NEW h, d = reads'[m].ch, g = reads'[n].ch,
              h = reads'[m].at, h = reads'[n].at, h > CanyonBlock
       PROVE  \E p, q \in DOMAIN l1[h] : p < q /\ LastAt(d, h, p)' /\ LastAt(g, h, q)'
  <2>1. m \in DOMAIN reads
    BY <1>3, <1>11
  <2>2. reads[m].ch = d /\ reads[m].at = h
    BY <1>3, <1>11, <2>1
  <2>3. CASE n \in DOMAIN reads
    <3>1. reads[n].ch = g /\ reads[n].at = h
      BY <1>3, <1>11, <2>3
    <3>2. \E p, q \in DOMAIN l1[h] : p < q /\ LastAt(d, h, p) /\ LastAt(g, h, q)
      BY <1>11, <2>1, <2>2, <2>3, <3>1 DEF ReadsOrdered
    <3> QED
      BY <1>7, <3>2
  <2>4. CASE n = l
    <3>1. g = c /\ h = origin
      BY <1>3, <1>4, <1>11, <2>4
    <3>2. LastAt(c, origin, Done) /\ c # d
      BY <1>5, <1>11, <2>1, <2>2, <3>1
    <3>3. \E p \in DOMAIN l1[origin] : p < Done /\ LastAt(d, origin, p)
      BY <1>11, <2>1, <2>2, <3>1, <3>2, ReadBefore
    <3>4. PICK q : q = Done
      OBVIOUS
    <3>5. q \in DOMAIN l1[h] /\ LastAt(g, h, q)
      BY <3>1, <3>2, <3>4 DEF LastAt
    <3>6. \E p \in DOMAIN l1[h] : p < q /\ LastAt(d, h, p)
      BY <3>1, <3>3, <3>4
    <3> QED
      BY <1>7, <3>5, <3>6
  <2> QED
    BY <1>3, <2>3, <2>4
<1>12. ReadsOrdered(reads)'
  BY <1>1, <1>11 DEF ReadsOrdered
<1> QED
  BY <1>10, <1>12

-----------------------------------------------------------------------------
(* As long as its frames are in time, a channel is in the bank with all that has been taken *)
(* of it, or it was read.                                                                   *)

Fresh(c) ==
    \A k \in Nums(c) : \A m \in base..origin :
        TakenAt(FrameOf(c, k), m) => m + ChannelTimeout >= origin
WasRead(c) == \E i \in DOMAIN reads : reads[i].ch = c
HasTaken(x, c) == x.id = c /\ \A k \in Nums(c) : Taken(FrameOf(c, k)) => k \in x.inputs
Held(c) == \E i \in DOMAIN channelQueue : HasTaken(channelQueue[i], c)
Live ==
    ~pruned => \A c \in Regular :
        (\E k \in Nums(c) : Taken(FrameOf(c, k))) /\ Fresh(c) => WasRead(c) \/ Held(c)

LEMMA LiveInit == Init => Live
<1> SUFFICES ASSUME Init PROVE Live
  OBVIOUS
<1>1. base..origin = {}
  BY DEF Init
<1> QED
  BY <1>1 DEF Live, Taken

LEMMA FreshBefore ==
    ASSUME BankTypes, base' = base, origin' \in Nat, origin <= origin',
           \A f, m : TakenAt(f, m) => TakenAt(f, m)', NEW c, Fresh(c)'
    PROVE  Fresh(c)
<1> SUFFICES ASSUME NEW k \in Nums(c), NEW m \in base..origin, TakenAt(FrameOf(c, k), m)
             PROVE  m + ChannelTimeout >= origin
  BY DEF Fresh
<1>1. origin \in Nat /\ base \in Nat /\ ChannelTimeout \in Nat /\ m \in Nat
  BY L1Facts
<1>2. m \in base'..origin' /\ TakenAt(FrameOf(c, k), m)'
  BY <1>1
<1>3. m + ChannelTimeout >= origin'
  BY <1>2 DEF Fresh
<1> QED
  BY <1>1, <1>3

\* The channel in the bank of a fresh channel is not timed out.
LEMMA FreshInTime ==
    ASSUME BankTypes, NEW x \in BankChannel, NEW c \in Regular, Entry(x, c), Fresh(c)
    PROVE  ~TimedOut(x)
<1>1. PICK k \in x.inputs : TakenAt(FrameOf(c, k), x.openBlock)
  BY DEF Entry
<1>2. k \in Nums(c) /\ x.openBlock \in base..origin
  BY DEF Entry
<1>3. x.openBlock + ChannelTimeout >= origin
  BY <1>1, <1>2 DEF Fresh
<1>4. origin \in Nat /\ ChannelTimeout \in Nat /\ x.openBlock \in Nat
  BY L1Facts, BankAssumption DEF BankChannel
<1> QED
  BY <1>3, <1>4 DEF TimedOut

LEMMA LiveSame ==
    ASSUME BankTypes, Live, UNCHANGED <<base, channelQueue, reads, pruned>>,
           origin' \in Nat, origin <= origin', \A f, m : TakenAt(f, m)' <=> TakenAt(f, m)
    PROVE  Live'
<1>1. \A f : Taken(f)' <=> Taken(f)
  BY DEF Taken, TakenAt
<1> SUFFICES ASSUME ~pruned', NEW c \in Regular, NEW k \in Nums(c), Taken(FrameOf(c, k))', Fresh(c)'
             PROVE  WasRead(c)' \/ Held(c)'
  BY DEF Live
<1>2. Fresh(c) /\ Taken(FrameOf(c, k)) /\ ~pruned
  BY <1>1, FreshBefore
<1>3. WasRead(c) \/ Held(c)
  BY <1>2 DEF Live
<1>4. WasRead(c) => WasRead(c)'
  BY DEF WasRead
<1>5. ASSUME Held(c) PROVE Held(c)'
  <2>0. PICK i \in DOMAIN channelQueue : HasTaken(channelQueue[i], c)
    BY <1>5 DEF Held
  <2>1. PICK x : x = channelQueue[i] /\ HasTaken(x, c)
    BY <2>0
  <2>2. HasTaken(x, c)'
    BY <1>1, <2>1 DEF HasTaken
  <2> QED
    BY <2>1, <2>2 DEF Held
<1> QED
  BY <1>3, <1>4, <1>5

\* Reads, timed out or not.
LEMMA LiveRead ==
    ASSUME BankTypes, Layout, BankInv, Live, ReadTimedOut \/ ReadChannel
    PROVE  Live'
<1>1. PICK i \in 1..Len(channelQueue) :
          /\ channelQueue' = Removed(channelQueue, i)
          /\ \/ TimedOut(channelQueue[i]) /\ reads' = reads
             \/ reads' = Append(reads, [ch |-> channelQueue[i].id, at |-> origin])
  <2>1. CASE ReadTimedOut
    BY <2>1, TailRemoved, QueueTypesKept DEF ReadTimedOut, HeadTimedOut
  <2>2. CASE ReadChannel
    BY <2>2, ReadChannelFacts
  <2> QED
    BY <2>1, <2>2
<1>2. UNCHANGED <<l1, origin, frames, base, pruned>>
  BY DEF ReadTimedOut, ReadChannel
<1>3. \A f, m : TakenAt(f, m)' <=> TakenAt(f, m)
  BY <1>2, TakenRead
<1>4. \A f : Taken(f)' <=> Taken(f)
  BY <1>3 DEF Taken, TakenAt
<1>5. channelQueue \in Seq(BankChannel) /\ DOMAIN channelQueue = 1..Len(channelQueue)
  BY QueueTypesKept
<1>6. \A n \in DOMAIN channelQueue : n # i =>
          \E j \in DOMAIN channelQueue' : channelQueue'[j] = channelQueue[n]
  BY <1>1, <1>5, RemovedIds DEF BankInv
<1>7. \A c : WasRead(c) => WasRead(c)'
  <2>1. reads \in Seq(Read)
    BY DEF BankTypes
  <2>2. \A n \in DOMAIN reads : n \in DOMAIN reads' /\ reads'[n] = reads[n]
    BY <1>1, <2>1
  <2> QED
    BY <2>2 DEF WasRead
<1> SUFFICES ASSUME ~pruned', NEW c \in Regular, NEW k \in Nums(c), Taken(FrameOf(c, k))', Fresh(c)'
             PROVE  WasRead(c)' \/ Held(c)'
  BY DEF Live
<1>8. Fresh(c) /\ Taken(FrameOf(c, k)) /\ ~pruned
  BY <1>2, <1>3, <1>4, L1Facts, FreshBefore
<1>9. WasRead(c) \/ Held(c)
  BY <1>8 DEF Live
<1>10. ASSUME Held(c) PROVE WasRead(c)' \/ Held(c)'
  <2>0. PICK n \in DOMAIN channelQueue : HasTaken(channelQueue[n], c)
    BY <1>10 DEF Held
  <2>1. PICK x : x = channelQueue[n] /\ HasTaken(x, c)
    BY <2>0
  <2>2. CASE n # i
    <3>1. PICK j \in DOMAIN channelQueue' : channelQueue'[j] = x
      BY <1>6, <2>1, <2>2
    <3>2. HasTaken(x, c)'
      BY <1>4, <2>1 DEF HasTaken
    <3> QED
      BY <3>1, <3>2 DEF Held
  <2>3. CASE n = i
    <3>1. Entry(x, c) /\ x \in BankChannel /\ x.id = c
      BY <1>5, <2>1 DEF BankInv, Entries, HasTaken
    <3>2. ~TimedOut(x)
      BY <1>8, <3>1, FreshInTime
    <3>3. reads' = Append(reads, [ch |-> c, at |-> origin])
      BY <1>1, <2>1, <2>3, <3>1, <3>2
    <3>4. reads \in Seq(Read)
      BY DEF BankTypes
    <3>5. PICK e : e = [ch |-> c, at |-> origin]
      OBVIOUS
    <3>6. Len(reads) + 1 \in DOMAIN reads' /\ reads'[Len(reads) + 1] = e /\ e.ch = c
      BY <3>3, <3>4, <3>5
    <3> QED
      BY <3>6 DEF WasRead
  <2> QED
    BY <2>2, <2>3
<1> QED
  BY <1>7, <1>9, <1>10

\* Without pruning, what IngestFrame makes of the bank.
LEMMA IngestUnpruned ==
    ASSUME BankTypes, NEW f, NEW q, NEW i, NEW r, NEW k, IngestParts(f, q, i, r, k), ~pruned'
    PROVE  /\ ~pruned /\ i \in DOMAIN q /\ q[i].id = f.ch
           /\ \A n \in DOMAIN channelQueue : n \in DOMAIN q /\ q[n] = channelQueue[n]
           /\ \/ (TimedOut(q[i]) \/ ~Accepts(q[i], f)) /\ channelQueue' = q
              \/ /\ ~TimedOut(q[i]) /\ Accepts(q[i], f) /\ channelQueue' = r
                 /\ DOMAIN r = DOMAIN q /\ r[i] = AddFrame(q[i], f)
                 /\ \A j \in DOMAIN q : j # i => r[j] = q[j]
<1>1. /\ GoodQueue(q, origin)
      /\ q = channelQueue \/ q = Append(channelQueue, NewChannel(f.ch))
      /\ ~TimedOut(q[i]) /\ Accepts(q[i], f) =>
            /\ GoodQueue(r, origin) /\ DOMAIN r = DOMAIN q /\ Len(r) = Len(q)
            /\ r[i] = AddFrame(q[i], f) /\ \A j \in DOMAIN q : j # i => r[j] = q[j]
            /\ k \in 0..Len(r)
  BY IngestFacts
<1>2. /\ i \in DOMAIN q /\ q[i].id = f.ch
      /\ \/ /\ TimedOut(q[i]) \/ ~Accepts(q[i], f)
            /\ channelQueue' = q /\ pruned' = pruned
         \/ /\ ~TimedOut(q[i]) /\ Accepts(q[i], f)
            /\ channelQueue' = SubSeq(r, k + 1, Len(r)) /\ pruned' = (pruned \/ k > 0)
  BY DEF IngestParts
<1>3. \A n \in DOMAIN channelQueue : n \in DOMAIN q /\ q[n] = channelQueue[n]
  <2>1. channelQueue \in Seq(BankChannel)
    BY QueueTypesKept
  <2>2. PICK x : x = NewChannel(f.ch)
    OBVIOUS
  <2>3. q = channelQueue \/ q = Append(channelQueue, x)
    BY <1>1, <2>2
  <2> QED
    BY <2>1, <2>3
<1>4. CASE /\ ~TimedOut(q[i]) /\ Accepts(q[i], f)
           /\ channelQueue' = SubSeq(r, k + 1, Len(r)) /\ pruned' = (pruned \/ k > 0)
  <2>1. /\ GoodQueue(r, origin) /\ DOMAIN r = DOMAIN q
        /\ r[i] = AddFrame(q[i], f) /\ \A j \in DOMAIN q : j # i => r[j] = q[j]
        /\ k \in 0..Len(r)
    BY <1>1, <1>4
  <2>2. r \in Seq(BankChannel)
    BY <2>1 DEF GoodQueue
  <2>3. ~pruned /\ ~(k > 0)
    BY <1>4
  <2>4. k = 0
    BY <2>1, <2>2, <2>3
  <2>5. SubSeq(r, 1, Len(r)) = r
    BY <2>2
  <2>6. channelQueue' = r
    BY <1>4, <2>4, <2>5
  <2> QED
    BY <1>2, <1>3, <1>4, <2>1, <2>3, <2>6
<1> QED
  BY <1>2, <1>3, <1>4

LEMMA LiveIngest ==
    ASSUME BankTypes, Layout, BankInv, Live, IngestFrame
    PROVE  Live'
<1>1. PICK f, q, i, r, k : IngestParts(f, q, i, r, k)
  BY IngestSplit
<1>2. UNCHANGED <<l1, origin, base, reads>>
  BY <1>1 DEF IngestParts
<1>3. \A g, m : TakenAt(g, m)' <=> TakenAt(g, m) \/ (m = origin /\ g = f)
  BY <1>1, TakenIngest
<1>4. \A g : Taken(g)' => Taken(g) \/ g = f
  BY <1>2, <1>3 DEF Taken
<1> SUFFICES ASSUME ~pruned', NEW c \in Regular, NEW n \in Nums(c), Taken(FrameOf(c, n))', Fresh(c)'
             PROVE  WasRead(c)' \/ Held(c)'
  BY DEF Live
<1>5. /\ ~pruned /\ i \in DOMAIN q /\ q[i].id = f.ch
      /\ \A j \in DOMAIN channelQueue : j \in DOMAIN q /\ q[j] = channelQueue[j]
      /\ \/ (TimedOut(q[i]) \/ ~Accepts(q[i], f)) /\ channelQueue' = q
         \/ /\ ~TimedOut(q[i]) /\ Accepts(q[i], f) /\ channelQueue' = r
            /\ DOMAIN r = DOMAIN q /\ r[i] = AddFrame(q[i], f)
            /\ \A j \in DOMAIN q : j # i => r[j] = q[j]
  BY <1>1, IngestUnpruned
<1>6. Fresh(c)
  BY <1>2, <1>3, L1Facts, FreshBefore
<1>7. (\E h \in Nums(c) : Taken(FrameOf(c, h))) => WasRead(c) \/ Held(c)
  BY <1>5, <1>6 DEF Live
<1>8. WasRead(c) => WasRead(c)'
  BY <1>2 DEF WasRead
<1>9. CASE f.ch # c
  <2>1. \A h : FrameOf(c, h) # f
    BY <1>9 DEF FrameOf
  <2>2. \A h : Taken(FrameOf(c, h))' => Taken(FrameOf(c, h))
    BY <1>4, <2>1
  <2>3. WasRead(c) \/ Held(c)
    BY <1>7, <2>2
  <2>4. ASSUME Held(c) PROVE Held(c)'
    <3>1. PICK j \in DOMAIN channelQueue : HasTaken(channelQueue[j], c)
      BY <2>4 DEF Held
    <3>2. PICK x : x = channelQueue[j] /\ HasTaken(x, c)
      BY <3>1
    <3>3. j \in DOMAIN q /\ q[j] = x /\ j # i
      BY <1>5, <1>9, <3>2 DEF HasTaken
    <3>4. j \in DOMAIN channelQueue' /\ channelQueue'[j] = x
      BY <1>5, <3>3
    <3>5. HasTaken(x, c)'
      BY <2>2, <3>2 DEF HasTaken
    <3> QED
      BY <3>4, <3>5 DEF Held
  <2> QED
    BY <1>8, <2>3, <2>4
<1>10. CASE f.ch = c
  <2>1. /\ f = FrameOf(c, f.num) /\ f.num \in Nums(c)
        /\ \A j \in DOMAIN reads : reads[j].ch # c
        /\ Accepts(q[i], f)
        /\ \/ q = channelQueue /\ Entry(q[i], c)
           \/ q[i].openBlock = origin /\ q[i].inputs = {}
                 /\ \A j \in DOMAIN channelQueue : channelQueue[j].id # c
        /\ AddFrame(q[i], f).id = c
        /\ AddFrame(q[i], f).inputs = q[i].inputs \cup {f.num}
    BY <1>1, <1>10, IngestRegular
  <2>2. \A h : FrameOf(c, h) = f => h = f.num
    BY DEF FrameOf
  <2>3. \A h : Taken(FrameOf(c, h))' => Taken(FrameOf(c, h)) \/ h = f.num
    BY <1>4, <2>2
  <2>4. ~WasRead(c)
    BY <2>1 DEF WasRead
  <2>5. ~TimedOut(q[i]) /\ \A h \in Nums(c) : Taken(FrameOf(c, h)) => h \in q[i].inputs
    <3>1. CASE q = channelQueue /\ Entry(q[i], c)
      <4>1. PICK x : x = q[i]
        OBVIOUS
      <4>2. x \in BankChannel /\ Entry(x, c) /\ x.id = c
        BY <1>5, <1>10, <3>1, <4>1, QueueTypesKept
      <4>3. ~TimedOut(x)
        BY <1>6, <4>2, FreshInTime
      <4>4. \E h \in Nums(c) : Taken(FrameOf(c, h))
        BY <4>2 DEF Entry, Taken, TakenAt
      <4>5. PICK j \in DOMAIN channelQueue : HasTaken(channelQueue[j], c)
        BY <1>7, <2>4, <4>4 DEF Held
      <4>6. j = i
        BY <1>5, <1>10, <3>1, <4>5 DEF HasTaken, BankInv, IdsOnce
      <4> QED
        BY <3>1, <4>1, <4>3, <4>5, <4>6 DEF HasTaken
    <3>2. CASE q[i].openBlock = origin /\ \A j \in DOMAIN channelQueue : channelQueue[j].id # c
      <4>1. ~TimedOut(q[i])
        BY <3>2, L1Facts DEF TimedOut
      <4>2. ~Held(c)
        BY <3>2 DEF Held, HasTaken
      <4> QED
        BY <1>7, <2>4, <4>1, <4>2
    <3> QED
      BY <2>1, <3>1, <3>2
  <2>6. PICK y : y = AddFrame(q[i], f)
    OBVIOUS
  <2>7. i \in DOMAIN channelQueue' /\ channelQueue'[i] = y
    BY <1>5, <2>1, <2>5, <2>6
  <2>8. HasTaken(y, c)'
    BY <2>1, <2>3, <2>5, <2>6 DEF HasTaken
  <2> QED
    BY <2>7, <2>8 DEF Held
<1> QED
  BY <1>9, <1>10

LEMMA LiveOther ==
    ASSUME BankTypes, Layout, Live,
           (\E fs \in L1Data : L1Block(fs)) \/ AdvanceL1 \/ \E b \in 1..origin : Reset(b)
    PROVE  Live'
<1>1. CASE \E fs \in L1Data : L1Block(fs)
  <2>1. PICK fs \in L1Data : L1Block(fs)
    BY <1>1
  <2>2. UNCHANGED <<origin, base, channelQueue, reads, pruned>>
    BY <2>1 DEF L1Block, pipeline
  <2> QED
    BY <2>1, <2>2, TakenL1Block, L1Facts, LiveSame
<1>2. CASE AdvanceL1
  <2>1. UNCHANGED <<base, channelQueue, reads, pruned>> /\ origin' = origin + 1
    BY <1>2 DEF AdvanceL1
  <2>2. origin' \in Nat /\ origin <= origin'
    BY <2>1, L1Facts
  <2> QED
    BY <1>2, <2>1, <2>2, TakenAdvance, LiveSame
<1>3. CASE \E b \in 1..origin : Reset(b)
  <2>1. \A f : ~Taken(f)'
    BY <1>3, TakenReset DEF Taken
  <2> QED
    BY <2>1 DEF Live
<1> QED
  BY <1>1, <1>2, <1>3

-----------------------------------------------------------------------------
(* When the pipeline leaves a block it has read what the block completes. *)

LEMMA FinishedAdvance ==
    ASSUME BankTypes, Layout, BankInv, Live, ReadsSound(reads, base, origin),
           ~pruned, Finished(reads, base, origin), AdvanceL1
    PROVE  Finished(reads, base, origin)'
<1>1. /\ origin' = origin + 1 /\ UNCHANGED <<l1, base, reads, pruned>> /\ ReadEOF
  BY DEF AdvanceL1
<1>2. \A c, n, b : InTime(c, n, b)' <=> InTime(c, n, b)
  BY <1>1 DEF InTime, OnL1
<1>3. \A c, n : SomeAt(c, n)' <=> SomeAt(c, n)
  BY <1>1 DEF SomeAt, OnL1
<1>4. PICK b : b = base
  OBVIOUS
<1> SUFFICES ASSUME NEW c \in Regular, NEW n \in b..origin, n > CanyonBlock,
                    InTime(c, n, b), SomeAt(c, n)
             PROVE  \E i \in DOMAIN reads : reads[i] = [ch |-> c, at |-> n]
  <2>1. (origin + 1) - 1 = origin
    BY L1Facts
  <2>2. base' = b /\ origin' - 1 = origin /\ reads' = reads
    BY <1>1, <1>4, <2>1
  <2> QED
    BY <1>2, <1>3, <2>2 DEF Finished
<1>5. origin \in Nat /\ b \in Nat /\ n \in Nat /\ ChannelTimeout \in Nat /\ CanyonBlock \in Nat
  BY <1>4, L1Facts
<1>6. CASE n # origin
  <2>1. n \in base..(origin - 1)
    BY <1>4, <1>5, <1>6
  <2> QED
    BY <1>4, <2>1 DEF Finished
<1>7. CASE n = origin
  <2>1. \A f : \A m \in base..origin : TakenAt(f, m) <=> OnL1(f, m)
    BY TakenAdvance
  <2>2. \A k \in Nums(c) : FrameOf(c, k) \in RegularFrames
    BY RegularFrameFacts
  <2>3. \A k \in Nums(c) : \E m \in base..origin :
            m + ChannelTimeout >= origin /\ TakenAt(FrameOf(c, k), m)
    BY <1>4, <1>7, <2>1 DEF InTime
  <2>4. Fresh(c)
    <3> SUFFICES ASSUME NEW k \in Nums(c), NEW m \in base..origin, TakenAt(FrameOf(c, k), m)
                 PROVE  m + ChannelTimeout >= origin
      BY DEF Fresh
    <3>1. PICK h \in base..origin : h + ChannelTimeout >= origin /\ TakenAt(FrameOf(c, k), h)
      BY <2>3
    <3>2. h = m
      BY <2>2, <3>1, TakenFacts
    <3> QED
      BY <3>1, <3>2
  <2>5. \A k \in Nums(c) : Taken(FrameOf(c, k))
    BY <2>3 DEF Taken
  <2>6. PICK k \in Nums(c) : OnL1(FrameOf(c, k), origin)
    BY <1>7 DEF SomeAt
  <2>7. WasRead(c) \/ Held(c)
    BY <2>4, <2>5, <2>6 DEF Live
  <2>8. CASE WasRead(c)
    <3>1. PICK i \in DOMAIN reads : reads[i].ch = c
      BY <2>8 DEF WasRead
    <3>2. PICK a : a = reads[i].at
      OBVIOUS
    <3>3. a \in base..origin /\ InTime(c, a, base)
      BY <3>1, <3>2 DEF ReadsSound
    <3>4. PICK m \in base..a : OnL1(FrameOf(c, k), m)
      BY <3>3 DEF InTime
    <3>5. m \in base..origin /\ origin \in base..origin
      BY <1>4, <1>5, <1>7, <3>3
    <3>6. TakenAt(FrameOf(c, k), m) /\ TakenAt(FrameOf(c, k), origin)
      BY <2>1, <2>6, <3>4, <3>5
    <3>7. PICK o : o = origin
      OBVIOUS
    <3>8. m = o
      BY <2>2, <3>6, <3>7, TakenFacts
    <3>9. a = n
      BY <1>4, <1>5, <1>7, <3>3, <3>4, <3>7, <3>8
    <3>10. reads[i] \in Read
      BY DEF BankTypes
    <3>11. reads[i] = [ch |-> c, at |-> n]
      BY <3>1, <3>2, <3>9, <3>10 DEF Read
    <3> QED
      BY <3>11
  <2>9. CASE Held(c)
    <3>1. PICK i \in DOMAIN channelQueue : HasTaken(channelQueue[i], c)
      BY <2>9 DEF Held
    <3>2. PICK x : x = channelQueue[i]
      OBVIOUS
    <3>3. HasTaken(x, c) /\ Entry(x, c) /\ x \in BankChannel
      BY <3>1, <3>2, QueueTypesKept DEF BankInv, Entries, HasTaken
    <3>4. \A h \in Nums(c) : h \in x.inputs
      BY <2>5, <3>3 DEF HasTaken
    <3>5. x.inputs = Nums(c)
      BY <3>3, <3>4 DEF Entry
    <3>6. IsReady(x)
      <4>1. Sent[c] - 1 \in Nums(c)
        BY RegularFrameFacts
      <4>2. x.closed /\ x.end = Sent[c] - 1
        BY <3>3, <3>5, <4>1 DEF Entry
      <4> QED
        BY <3>5, <4>2 DEF IsReady, Nums
    <3>7. ~TimedOut(x)
      BY <2>4, <3>3, FreshInTime
    <3>8. origin >= CanyonBlock
      BY <1>5, <1>7
    <3> QED
      BY <1>1, <3>2, <3>6, <3>7, <3>8, NothingReadable
  <2> QED
    BY <2>7, <2>8, <2>9
<1> QED
  BY <1>6, <1>7

-----------------------------------------------------------------------------
(* The invariant. *)

ReadsInv ==
    /\ ReadsSound(reads, base, origin) /\ ReadsOrdered(reads)
    /\ ~pruned => Finished(reads, base, origin)
BeforeInv ==
    /\ before.origin <= Len(l1)
    /\ ReadsSound(before.reads, before.base, before.origin) /\ ReadsOrdered(before.reads)
    /\ ~pruned => Finished(before.reads, before.base, before.origin)
IBank == BankTypes /\ Layout /\ BankInv /\ ReadyNow /\ Live /\ ReadsInv /\ BeforeInv

LEMMA IBankInit == Init => IBank
<1> SUFFICES ASSUME Init PROVE IBank
  OBVIOUS
<1>1. BankTypes /\ Layout /\ BankInv /\ ReadyNow /\ Live
  BY BankTypesInit, LayoutInit, BankInvInit, ReadyNowInit, LiveInit
<1>2. ReadsInv
  BY DEF Init, ReadsInv, ReadsSound, ReadsOrdered, Finished
<1>3. BeforeInv
  BY DEF Init, BeforeInv, ReadsSound, ReadsOrdered, Finished
<1> QED
  BY <1>1, <1>2, <1>3 DEF IBank

\* What was read stays sound, whatever is added to L1.
LEMMA ReadsInvKept ==
    ASSUME IBank, L1Kept, UNCHANGED <<base, origin, reads, pruned>>
    PROVE  ReadsInv'
<1>1. PICK rs, b, o : rs = reads /\ b = base /\ o = origin
  OBVIOUS
<1>2. b \in Nat \ {0} /\ o \in Nat /\ o <= o /\ o <= Len(l1) /\ BankTypes
  BY <1>1, L1Facts DEF IBank
<1>3. ReadsSound(rs, b, o) /\ ReadsOrdered(rs) /\ (~pruned => Finished(rs, b, o))
  BY <1>1 DEF IBank, ReadsInv
<1>4. ReadsSound(rs, b, o)' /\ ReadsOrdered(rs)' /\ (~pruned => Finished(rs, b, o)')
  BY <1>2, <1>3, ReadsKept
<1> QED
  BY <1>1, <1>4 DEF ReadsInv

LEMMA BeforeInvKept ==
    ASSUME IBank, L1Kept, before' = before, pruned \in BOOLEAN, pruned => pruned'
    PROVE  BeforeInv'
<1>1. PICK rs, b, o : rs = before.reads /\ b = before.base /\ o = before.origin
  OBVIOUS
<1>2. b \in Nat \ {0} /\ o \in Nat /\ o <= o /\ o <= Len(l1) /\ BankTypes /\ Len(l1) \in Nat
  BY <1>1, L1Facts, BankAssumption DEF IBank, BankTypes, BeforeInv
<1>3. ReadsSound(rs, b, o) /\ ReadsOrdered(rs) /\ (~pruned => Finished(rs, b, o))
  BY <1>1 DEF IBank, BeforeInv
<1>4. ReadsSound(rs, b, o)' /\ ReadsOrdered(rs)' /\ (~pruned => Finished(rs, b, o)')
  BY <1>2, <1>3, ReadsKept
<1>5. o <= Len(l1')
  BY <1>2 DEF L1Kept
<1> QED
  BY <1>1, <1>4, <1>5 DEF BeforeInv

LEMMA IBankL1Block ==
    ASSUME IBank, L1Kept, \E fs \in L1Data : L1Block(fs)
    PROVE  IBank'
<1> USE DEF IBank
<1>1. PICK fs \in L1Data : L1Block(fs)
  OBVIOUS
<1>2. UNCHANGED <<base, origin, reads, before, pruned>>
  BY <1>1 DEF L1Block, pipeline
<1>3. BankTypes' /\ Layout' /\ BankInv' /\ ReadyNow' /\ Live'
  BY <1>1, L1BlockTypes, BankInvOther, ReadyNowOther, LiveOther
<1>4. ReadsInv'
  BY <1>2, ReadsInvKept
<1>5. BeforeInv'
  BY <1>2, BeforeInvKept DEF BankTypes
<1> QED
  BY <1>3, <1>4, <1>5

LEMMA IBankTimedOut ==
    ASSUME IBank, L1Kept, ReadTimedOut
    PROVE  IBank'
<1> USE DEF IBank
<1>1. UNCHANGED <<l1, frames, base, origin, reads, before, pruned>>
  BY DEF ReadTimedOut
<1>2. BankTypes' /\ Layout' /\ BankInv' /\ ReadyNow' /\ Live'
  BY <1>1, ReadTypes, TakenRead, BankInvReadTimedOut, ReadyNowRead, LiveRead
<1>3. ReadsInv'
  BY <1>1, ReadsInvKept
<1>4. BeforeInv'
  BY <1>1, BeforeInvKept DEF BankTypes
<1> QED
  BY <1>2, <1>3, <1>4

LEMMA IBankRead ==
    ASSUME IBank, L1Kept, ReadChannel
    PROVE  IBank'
<1> USE DEF IBank
<1>1. UNCHANGED <<l1, frames, base, origin, before, pruned>>
  BY DEF ReadChannel
<1>2. BankTypes' /\ Layout' /\ BankInv' /\ ReadyNow' /\ Live'
  BY <1>1, ReadTypes, TakenRead, BankInvReadChannel, ReadyNowRead, LiveRead
<1>3. ReadsSound(reads, base, origin)' /\ ReadsOrdered(reads)'
  BY SoundRead DEF ReadsInv
<1>4. ASSUME ~pruned' PROVE Finished(reads, base, origin)'
  <2>1. Finished(reads, base, origin)
    BY <1>1, <1>4 DEF ReadsInv
  <2>2. \A n \in DOMAIN reads : n \in DOMAIN reads' /\ reads'[n] = reads[n]
    <3>1. PICK e : reads' = Append(reads, e)
      BY ReadChannelFacts
    <3>2. reads \in Seq(Read)
      BY DEF BankTypes
    <3> QED
      BY <3>1, <3>2
  <2>3. \A c, n, b : (InTime(c, n, b)' <=> InTime(c, n, b)) /\ (SomeAt(c, n)' <=> SomeAt(c, n))
    BY <1>1 DEF InTime, SomeAt, OnL1
  <2>4. PICK o, b : o = origin /\ b = base
    OBVIOUS
  <2>5. ASSUME NEW c \in Regular, NEW n \in b..(o - 1), n > CanyonBlock,
               InTime(c, n, b)', SomeAt(c, n)'
        PROVE  \E i \in DOMAIN reads' : reads'[i] = [ch |-> c, at |-> n]
    BY <2>1, <2>2, <2>3, <2>4, <2>5 DEF Finished
  <2>6. base' = b /\ origin' = o
    BY <1>1, <2>4
  <2> QED
    BY <2>5, <2>6 DEF Finished
<1>5. BeforeInv'
  BY <1>1, BeforeInvKept DEF BankTypes
<1> QED
  BY <1>2, <1>3, <1>4, <1>5 DEF ReadsInv

LEMMA IBankIngest ==
    ASSUME IBank, L1Kept, IngestFrame
    PROVE  IBank'
<1> USE DEF IBank
<1>1. PICK f, q, i, r, k : IngestParts(f, q, i, r, k)
  BY IngestSplit
<1>2. UNCHANGED <<base, origin, reads, before>>
  BY <1>1 DEF IngestParts
<1>3. pruned => pruned'
  BY <1>1 DEF IngestParts
<1>4. BankTypes' /\ Layout' /\ BankInv' /\ ReadyNow' /\ Live'
  BY <1>1, IngestTypes, TakenIngest, BankInvIngest, ReadyNowIngest, LiveIngest
<1>5. ReadsInv'
  <2>1. PICK rs, b, o : rs = reads /\ b = base /\ o = origin
    OBVIOUS
  <2>2. b \in Nat \ {0} /\ o \in Nat /\ o <= o /\ o <= Len(l1)
    BY <2>1, L1Facts
  <2>3. ReadsSound(rs, b, o)' /\ ReadsOrdered(rs)' /\ (~pruned => Finished(rs, b, o)')
    BY <2>1, <2>2, ReadsKept DEF ReadsInv
  <2> QED
    BY <1>2, <1>3, <2>1, <2>3 DEF ReadsInv
<1>6. BeforeInv'
  BY <1>2, <1>3, BeforeInvKept DEF BankTypes
<1> QED
  BY <1>4, <1>5, <1>6

LEMMA IBankAdvance ==
    ASSUME IBank, L1Kept, AdvanceL1
    PROVE  IBank'
<1> USE DEF IBank
<1>1. UNCHANGED <<l1, base, reads, before, pruned>> /\ origin' = origin + 1
  BY DEF AdvanceL1
<1>2. BankTypes' /\ Layout' /\ BankInv' /\ ReadyNow' /\ Live'
  BY AdvanceTypes, BankInvOther, ReadyNowOther, LiveOther
<1>3. ReadsSound(reads, base, origin)' /\ ReadsOrdered(reads)'
  <2>1. PICK rs, b, o, o2 : rs = reads /\ b = base /\ o = origin /\ o2 = origin + 1
    OBVIOUS
  <2>2. b \in Nat \ {0} /\ o \in Nat /\ o <= Len(l1) /\ o2 \in Nat /\ o <= o2
    BY <2>1, L1Facts
  <2>3. ReadsSound(rs, b, o2)' /\ ReadsOrdered(rs)'
    BY <2>1, <2>2, ReadsKept DEF ReadsInv
  <2> QED
    BY <1>1, <2>1, <2>3
<1>4. ~pruned' => Finished(reads, base, origin)'
  BY <1>1, FinishedAdvance DEF ReadsInv
<1>5. BeforeInv'
  BY <1>1, BeforeInvKept DEF BankTypes
<1> QED
  BY <1>2, <1>3, <1>4, <1>5 DEF ReadsInv

LEMMA IBankReset ==
    ASSUME IBank, L1Kept, NEW b \in 1..origin, Reset(b)
    PROVE  IBank'
<1> USE DEF IBank
<1>1. /\ l1' = l1 /\ pruned' = pruned /\ reads' = <<>> /\ base' = b /\ origin' = b
      /\ before' = [base |-> base, origin |-> origin, reads |-> reads]
  BY DEF Reset
<1>2. BankTypes' /\ Layout' /\ BankInv' /\ ReadyNow' /\ Live'
  BY ResetTypes, BankInvOther, ReadyNowOther, LiveOther
<1>3. ReadsInv'
  <2>1. b..(b - 1) = {}
    BY L1Facts
  <2> QED
    BY <1>1, <2>1 DEF ReadsInv, ReadsSound, ReadsOrdered, Finished
<1>4. BeforeInv'
  <2>1. PICK rs, a, o : rs = reads /\ a = base /\ o = origin
    OBVIOUS
  <2>2. a \in Nat \ {0} /\ o \in Nat /\ o <= o /\ o <= Len(l1)
    BY <2>1, L1Facts
  <2>3. ReadsSound(rs, a, o)' /\ ReadsOrdered(rs)' /\ (~pruned => Finished(rs, a, o)')
    BY <2>1, <2>2, ReadsKept DEF ReadsInv
  <2>4. before'.reads = rs /\ before'.base = a /\ before'.origin = o
    BY <1>1, <2>1
  <2> QED
    BY <1>1, <2>2, <2>3, <2>4 DEF BeforeInv
<1> QED
  BY <1>2, <1>3, <1>4

LEMMA IBankStutter ==
    ASSUME IBank, UNCHANGED vars
    PROVE  IBank'
<1> USE DEF IBank
<1>1. /\ UNCHANGED <<l1, origin, frames, channelQueue, base, reads, before, pruned, resets>>
      /\ L1Kept
  <2>1. UNCHANGED <<l1, origin, frames, channelQueue, base, reads, before, pruned, resets>>
    BY DEF vars, pipeline
  <2>2. \A f, n : OnL1(f, n)' <=> OnL1(f, n)
    BY <2>1 DEF OnL1
  <2> QED
    BY <2>1, <2>2, L1Facts DEF L1Kept
<1>2. BankTypes'
  BY <1>1 DEF BankTypes
<1>3. Layout' /\ Done' = Done /\ \A f, m : TakenAt(f, m)' <=> TakenAt(f, m)
  BY <1>1, TakenRead
<1>4. BankInv'
  <2>1. \A j \in DOMAIN channelQueue' :
               \E n \in DOMAIN channelQueue : channelQueue'[j] = channelQueue[n]
    BY <1>1
  <2>2. IdsOnce(channelQueue')
    BY <1>1 DEF BankInv
  <2> QED
    BY <1>1, <1>3, <2>1, <2>2, L1Facts, BankInvSame
<1>5. ReadyNow'
  BY <1>1, <1>3, ReadyNowSame
<1>6. Live'
  BY <1>1, <1>3, L1Facts, LiveSame
<1>7. ReadsInv' /\ BeforeInv'
  BY <1>1, ReadsInvKept, BeforeInvKept DEF BankTypes
<1> QED
  BY <1>2, <1>3, <1>4, <1>5, <1>6, <1>7

LEMMA IBankAlways == Spec => []IBank
<1>1. IBank /\ [Next]_vars => IBank'
  <2> SUFFICES ASSUME IBank, [Next]_vars PROVE IBank'
    OBVIOUS
  <2>1. CASE UNCHANGED vars
    BY <2>1, IBankStutter
  <2>2. CASE Next
    <3>1. L1Kept
      BY <2>2, L1IsKept DEF IBank
    <3> QED
      BY <2>2, <3>1, IBankL1Block, IBankTimedOut, IBankRead, IBankIngest, IBankAdvance,
         IBankReset DEF Next, NextData
  <2> QED
    BY <2>1, <2>2
<1> QED
  BY <1>1, IBankInit, PTL DEF Spec

LEMMA CompleteAtIs ==
    ASSUME NEW c \in Regular, NEW n
    PROVE  CompleteAt(c, n) <=> InTime(c, n, base) /\ SomeAt(c, n)
<1>1. \A k \in Nums(c) : FrameOf(c, k) \in RegularFrames /\ FrameOf(c, k).ch = c
  BY RegularFrameFacts DEF FrameOf
<1>2. \A f \in RegularFrames : f.ch = c => f.num \in Nums(c) /\ f = FrameOf(c, f.num)
  BY RegularFrameFacts
<1>3. (\E f \in RegularFrames : f.ch = c /\ OnL1(f, n)) <=> SomeAt(c, n)
  <2>1. ASSUME NEW f \in RegularFrames, f.ch = c, OnL1(f, n) PROVE SomeAt(c, n)
    BY <1>2, <2>1 DEF SomeAt
  <2>2. ASSUME NEW k \in Nums(c), OnL1(FrameOf(c, k), n)
        PROVE  \E f \in RegularFrames : f.ch = c /\ OnL1(f, n)
    BY <1>1, <2>2
  <2> QED
    BY <2>1, <2>2 DEF SomeAt
<1>4. (\A f \in RegularFrames : f.ch = c =>
          \E m \in base..n : m + ChannelTimeout >= n /\ OnL1(f, m)) <=> InTime(c, n, base)
  BY <1>1, <1>2 DEF InTime
<1> QED
  BY <1>3, <1>4 DEF CompleteAt

\* Every channel of the batcher whose frames are on L1 within the channel timeout is read
\* exactly once, at the L1 block that completes it, and no other channel of the batcher is:
\* for every number of channels, frames and blocks, whatever else is on L1 and wherever the
\* pipeline has been reset to.
THEOREM BankReadsComplete == Spec => []ReadsComplete
<1>1. IBank => ReadsComplete
  <2> SUFFICES ASSUME IBank, ~pruned, NEW c \in Regular, NEW n \in base..(origin - 1),
                      n > CanyonBlock
               PROVE  Cardinality({i \in DOMAIN reads : reads[i] = [ch |-> c, at |-> n]})
                         = IF CompleteAt(c, n) THEN 1 ELSE 0
    BY DEF ReadsComplete
  <2>1. ReadsSound(reads, base, origin) /\ Finished(reads, base, origin)
    BY DEF IBank, ReadsInv
  <2>2. PICK e, S : e = [ch |-> c, at |-> n] /\ S = {i \in DOMAIN reads : reads[i] = e}
    OBVIOUS
  <2>3. e.ch = c /\ e.at = n
    BY <2>2
  <2>4. CASE CompleteAt(c, n)
    <3>1. PICK i \in DOMAIN reads : reads[i] = e
      BY <2>1, <2>2, <2>4, CompleteAtIs DEF Finished
    <3>2. \A j \in S : j = i
      BY <2>1, <2>2, <2>3, <3>1 DEF ReadsSound
    <3>3. S = {i}
      BY <2>2, <3>1, <3>2
    <3>4. Cardinality(S) = 1
      BY <3>3, FS_Singleton
    <3> QED
      BY <2>2, <2>4, <3>4
  <2>5. CASE ~CompleteAt(c, n)
    <3>1. ASSUME NEW i \in DOMAIN reads, reads[i] = e PROVE FALSE
      BY <2>1, <2>3, <2>5, <3>1, CompleteAtIs DEF ReadsSound
    <3>2. S = {}
      BY <2>2, <3>1
    <3>3. Cardinality(S) = 0
      BY <3>2, FS_EmptySet
    <3> QED
      BY <2>2, <2>5, <3>3
  <2> QED
    BY <2>4, <2>5
<1> QED
  BY <1>1, IBankAlways, PTL

-----------------------------------------------------------------------------
(* The reads at a block. *)

IsUpTo(f, rs, n, l) ==
    f = [i \in 0..l |->
            IF i = 0 THEN <<>>
            ELSE IF IsAt(rs[i], n) THEN Append(f[i - 1], rs[i]) ELSE f[i - 1]]

LEMMA UpToExists ==
    ASSUME NEW rs, NEW n, NEW l \in Nat
    PROVE  \E f : IsUpTo(f, rs, n, l)
<1> DEFINE G == {m \in Nat : \E f : IsUpTo(f, rs, n, m)}
<1>1. 0 \in G
  <2>1. PICK f : f = [i \in 0..0 |-> <<>>]
    OBVIOUS
  <2>2. f = [i \in 0..0 |->
            IF i = 0 THEN <<>>
            ELSE IF IsAt(rs[i], n) THEN Append(f[i - 1], rs[i]) ELSE f[i - 1]]
    BY <2>1
  <2> QED
    BY <2>2 DEF IsUpTo
<1>2. ASSUME NEW m \in Nat, m \in G PROVE m + 1 \in G
  <2>1. PICK f : IsUpTo(f, rs, n, m)
    BY <1>2
  <2>2. PICK x : x = IF IsAt(rs[m + 1], n) THEN Append(f[m], rs[m + 1]) ELSE f[m]
    OBVIOUS
  <2>3. PICK g : g = [i \in 0..(m + 1) |-> IF i <= m THEN f[i] ELSE x]
    OBVIOUS
  <2>4. \A i \in 0..m : f[i] = IF i = 0 THEN <<>>
            ELSE IF IsAt(rs[i], n) THEN Append(f[i - 1], rs[i]) ELSE f[i - 1]
    BY <2>1 DEF IsUpTo
  <2>5. \A i \in 0..m : g[i] = f[i]
    BY <2>3
  <2>6. g[m + 1] = x
    BY <2>3
  <2>7. ASSUME NEW i \in 0..(m + 1)
        PROVE  g[i] = IF i = 0 THEN <<>>
                      ELSE IF IsAt(rs[i], n) THEN Append(g[i - 1], rs[i]) ELSE g[i - 1]
    <3>1. CASE i = 0
      BY <2>4, <2>5, <3>1
    <3>2. CASE i \in 1..m
      <4>1. i - 1 \in 0..m /\ i \in 0..m /\ i # 0
        BY <3>2
      <4>2. g[i - 1] = f[i - 1] /\ g[i] = f[i]
        BY <2>5, <4>1
      <4> QED
        BY <2>4, <4>1, <4>2
    <3>3. CASE i = m + 1
      <4>1. i - 1 = m /\ i # 0 /\ m \in 0..m
        BY <3>3
      <4> QED
        BY <2>2, <2>5, <2>6, <3>3, <4>1
    <3> QED
      BY <3>1, <3>2, <3>3
  <2>8. PICK h : h = [i \in 0..(m + 1) |->
            IF i = 0 THEN <<>>
            ELSE IF IsAt(rs[i], n) THEN Append(g[i - 1], rs[i]) ELSE g[i - 1]]
    OBVIOUS
  <2>9. g = h
    BY <2>3, <2>7, <2>8
  <2>10. IsUpTo(g, rs, n, m + 1)
    BY <2>8, <2>9 DEF IsUpTo
  <2> QED
    BY <2>10
<1> HIDE DEF G
<1>3. l \in G
  BY <1>1, <1>2, SetInduction
<1> QED
  BY <1>3 DEF G

LEMMA ReadsAtIs ==
    ASSUME NEW rs \in Seq(Read), NEW n
    PROVE  \E f : IsUpTo(f, rs, n, Len(rs)) /\ ReadsAt(rs, n) = f[Len(rs)]
<1> DEFINE f == CHOOSE f : IsUpTo(f, rs, n, Len(rs))
<1>1. Len(rs) \in Nat
  OBVIOUS
<1>2. \E g : IsUpTo(g, rs, n, Len(rs))
  BY <1>1, UpToExists
<1>3. IsUpTo(f, rs, n, Len(rs))
  BY <1>2
<1>4. ReadsAt(rs, n) = f[Len(rs)]
  BY DEF ReadsAt, IsUpTo
<1> QED
  BY <1>3, <1>4

\* Sequence s has the first m elements of rs that are at n, in order.
Filtered(s, rs, n, m) ==
    /\ s \in Seq(Read)
    /\ \A i \in 1..m : IsAt(rs[i], n) => \E a \in DOMAIN s : s[a] = rs[i]
    /\ \A a \in DOMAIN s : \E i \in 1..m : s[a] = rs[i] /\ IsAt(rs[i], n)
    /\ \A a, b \in DOMAIN s : a < b =>
          \E i, j \in 1..m : i < j /\ s[a] = rs[i] /\ s[b] = rs[j]

LEMMA FilteredStep ==
    ASSUME NEW rs \in Seq(Read), NEW n, NEW m \in Nat, m + 1 <= Len(rs),
           NEW s, Filtered(s, rs, n, m)
    PROVE  /\ ~IsAt(rs[m + 1], n) => Filtered(s, rs, n, m + 1)
           /\ IsAt(rs[m + 1], n) => Filtered(Append(s, rs[m + 1]), rs, n, m + 1)
<1>1. /\ s \in Seq(Read) /\ DOMAIN s = 1..Len(s) /\ Len(s) \in Nat
      /\ \A i \in 1..m : IsAt(rs[i], n) => \E a \in DOMAIN s : s[a] = rs[i]
      /\ \A a \in DOMAIN s : \E i \in 1..m : s[a] = rs[i] /\ IsAt(rs[i], n)
      /\ \A a, b \in DOMAIN s : a < b =>
            \E i, j \in 1..m : i < j /\ s[a] = rs[i] /\ s[b] = rs[j]
  BY DEF Filtered
<1>2. \A i \in 1..(m + 1) : i \in 1..m \/ i = m + 1
  OBVIOUS
<1>3. \A i \in 1..m : i \in 1..(m + 1) /\ i < m + 1
  OBVIOUS
<1>4. ASSUME ~IsAt(rs[m + 1], n) PROVE Filtered(s, rs, n, m + 1)
  <2>1. \A i \in 1..(m + 1) : IsAt(rs[i], n) => \E a \in DOMAIN s : s[a] = rs[i]
    BY <1>1, <1>2, <1>4
  <2>2. \A a \in DOMAIN s : \E i \in 1..(m + 1) : s[a] = rs[i] /\ IsAt(rs[i], n)
    BY <1>1, <1>3
  <2>3. \A a, b \in DOMAIN s : a < b =>
            \E i, j \in 1..(m + 1) : i < j /\ s[a] = rs[i] /\ s[b] = rs[j]
    <3> SUFFICES ASSUME NEW a \in DOMAIN s, NEW b \in DOMAIN s, a < b
                 PROVE  \E i, j \in 1..(m + 1) : i < j /\ s[a] = rs[i] /\ s[b] = rs[j]
      OBVIOUS
    <3>1. PICK i \in 1..m, j \in 1..m : i < j /\ s[a] = rs[i] /\ s[b] = rs[j]
      BY <1>1
    <3>2. i \in 1..(m + 1) /\ j \in 1..(m + 1)
      BY <1>3
    <3> QED
      BY <3>1, <3>2
  <2> QED
    BY <1>1, <2>1, <2>2, <2>3 DEF Filtered
<1>5. ASSUME IsAt(rs[m + 1], n) PROVE Filtered(Append(s, rs[m + 1]), rs, n, m + 1)
  <2>1. PICK e, t, l : e = rs[m + 1] /\ t = Append(s, e) /\ l = Len(s) + 1
    OBVIOUS
  <2>2. e \in Read
    <3>1. m + 1 \in 1..Len(rs)
      OBVIOUS
    <3> QED
      BY <2>1, <3>1
  <2>3. /\ t \in Seq(Read) /\ DOMAIN t = 1..l /\ t[l] = e
        /\ \A a \in DOMAIN s : t[a] = s[a] /\ a \in 1..l
    BY <1>1, <2>1, <2>2
  <2>4. \A a \in DOMAIN t : a \in DOMAIN s \/ a = l
    BY <1>1, <2>1, <2>3
  <2>5. \A i \in 1..(m + 1) : IsAt(rs[i], n) => \E a \in DOMAIN t : t[a] = rs[i]
    <3> SUFFICES ASSUME NEW i \in 1..(m + 1), IsAt(rs[i], n) PROVE \E a \in DOMAIN t : t[a] = rs[i]
      OBVIOUS
    <3>1. CASE i \in 1..m
      BY <1>1, <2>3, <3>1
    <3>2. CASE i = m + 1
      <4>1. l \in DOMAIN t
        BY <1>1, <2>1, <2>3
      <4> QED
        BY <2>1, <2>3, <3>2, <4>1
    <3> QED
      BY <1>2, <3>1, <3>2
  <2>6. \A a \in DOMAIN t : \E i \in 1..(m + 1) : t[a] = rs[i] /\ IsAt(rs[i], n)
    <3> SUFFICES ASSUME NEW a \in DOMAIN t
                 PROVE  \E i \in 1..(m + 1) : t[a] = rs[i] /\ IsAt(rs[i], n)
      OBVIOUS
    <3>1. CASE a \in DOMAIN s
      BY <1>1, <1>3, <2>3, <3>1
    <3>2. CASE a = l
      <4>1. m + 1 \in 1..(m + 1)
        OBVIOUS
      <4> QED
        BY <1>5, <2>1, <2>3, <3>2, <4>1
    <3> QED
      BY <2>4, <3>1, <3>2
  <2>7. ASSUME NEW a \in DOMAIN t, NEW b \in DOMAIN t, a < b
        PROVE  \E i, j \in 1..(m + 1) : i < j /\ t[a] = rs[i] /\ t[b] = rs[j]
    <3>1. a \in DOMAIN s
      BY <1>1, <2>1, <2>3, <2>7
    <3>2. CASE b \in DOMAIN s
      <4>1. PICK i \in 1..m, j \in 1..m : i < j /\ s[a] = rs[i] /\ s[b] = rs[j]
        BY <1>1, <2>7, <3>1, <3>2
      <4>2. t[a] = rs[i] /\ t[b] = rs[j] /\ i \in 1..(m + 1) /\ j \in 1..(m + 1)
        BY <1>3, <2>3, <3>1, <3>2, <4>1
      <4> QED
        BY <4>1, <4>2
    <3>3. CASE b = l
      <4>1. PICK i \in 1..m : s[a] = rs[i]
        BY <1>1, <3>1
      <4>2. t[a] = rs[i] /\ i \in 1..(m + 1) /\ i < m + 1
        BY <1>3, <2>3, <3>1, <4>1
      <4>3. t[b] = rs[m + 1] /\ m + 1 \in 1..(m + 1)
        BY <2>1, <2>3, <3>3
      <4> QED
        BY <4>2, <4>3
    <3> QED
      BY <2>4, <3>2, <3>3
  <2>8. Filtered(t, rs, n, m + 1)
    BY <2>3, <2>5, <2>6, <2>7 DEF Filtered
  <2> QED
    BY <2>1, <2>8
<1> QED
  BY <1>4, <1>5

LEMMA ReadsAtFiltered ==
    ASSUME NEW rs \in Seq(Read), NEW n
    PROVE  Filtered(ReadsAt(rs, n), rs, n, Len(rs))
<1>1. PICK f : IsUpTo(f, rs, n, Len(rs)) /\ ReadsAt(rs, n) = f[Len(rs)]
  BY ReadsAtIs
<1>2. PICK l : l = Len(rs)
  OBVIOUS
<1>3. l \in Nat
  BY <1>2
<1>4. \A i \in 0..l : f[i] = IF i = 0 THEN <<>>
            ELSE IF IsAt(rs[i], n) THEN Append(f[i - 1], rs[i]) ELSE f[i - 1]
  BY <1>1, <1>2 DEF IsUpTo
<1> DEFINE G == {m \in Nat : m <= l => Filtered(f[m], rs, n, m)}
<1>5. 0 \in G
  <2>1. f[0] = <<>>
    BY <1>3, <1>4
  <2>2. Filtered(<<>>, rs, n, 0)
    BY DEF Filtered
  <2> QED
    BY <2>1, <2>2
<1>6. ASSUME NEW m \in Nat, m \in G PROVE m + 1 \in G
  <2> SUFFICES ASSUME m + 1 <= l PROVE Filtered(f[m + 1], rs, n, m + 1)
    OBVIOUS
  <2>1. m <= l /\ m + 1 \in 0..l /\ m + 1 # 0 /\ (m + 1) - 1 = m
    BY <1>3
  <2>2. f[m + 1] = IF IsAt(rs[m + 1], n) THEN Append(f[m], rs[m + 1]) ELSE f[m]
    BY <1>4, <2>1
  <2>3. PICK s : s = f[m]
    OBVIOUS
  <2>4. Filtered(s, rs, n, m)
    BY <1>6, <2>1, <2>3
  <2>5. /\ ~IsAt(rs[m + 1], n) => Filtered(s, rs, n, m + 1)
        /\ IsAt(rs[m + 1], n) => Filtered(Append(s, rs[m + 1]), rs, n, m + 1)
    BY <1>2, <2>4, FilteredStep
  <2> QED
    BY <2>2, <2>3, <2>5
<1> HIDE DEF G
<1>7. l \in G
  BY <1>3, <1>5, <1>6, SetInduction
<1>8. Filtered(f[l], rs, n, l)
  BY <1>3, <1>7 DEF G
<1> QED
  BY <1>1, <1>2, <1>8

\* What is known of the reads rs of a pipeline that started at block b and got to block o,
\* at a block n past the timeout.
Window(rs, b, o, n) ==
    /\ rs \in Seq(Read) /\ b \in Nat \ {0} /\ o \in Nat /\ o <= Len(l1)
    /\ n \in Nat /\ n > CanyonBlock /\ n < o /\ n >= b + ChannelTimeout
    /\ ReadsSound(rs, b, o) /\ ReadsOrdered(rs) /\ Finished(rs, b, o)

LEMMA ReadInBoth ==
    ASSUME BankTypes, NEW rs, NEW b, NEW o, NEW n, Window(rs, b, o, n),
           NEW ts, NEW d, NEW u, Window(ts, d, u, n), NEW a \in DOMAIN ReadsAt(rs, n)
    PROVE  \E j \in DOMAIN ReadsAt(ts, n) : ReadsAt(rs, n)[a] = ReadsAt(ts, n)[j]
<1>1. PICK s, t : s = ReadsAt(rs, n) /\ t = ReadsAt(ts, n)
  OBVIOUS
<1>2. Filtered(s, rs, n, Len(rs)) /\ Filtered(t, ts, n, Len(ts))
  BY <1>1, ReadsAtFiltered DEF Window
<1>3. rs \in Seq(Read) /\ ts \in Seq(Read) /\ DOMAIN rs = 1..Len(rs) /\ DOMAIN ts = 1..Len(ts)
  BY DEF Window
<1>4. PICK i \in 1..Len(rs) : s[a] = rs[i] /\ IsAt(rs[i], n)
  BY <1>1, <1>2 DEF Filtered
<1>5. PICK c : c = rs[i].ch
  OBVIOUS
<1>6. c \in Regular /\ rs[i].at = n /\ rs[i] \in Read /\ i \in DOMAIN rs
  BY <1>3, <1>4, <1>5 DEF IsAt
<1>7. rs[i] = [ch |-> c, at |-> n]
  BY <1>5, <1>6 DEF Read
<1>8. InTime(c, n, b) /\ SomeAt(c, n)
  BY <1>5, <1>6 DEF Window, ReadsSound
<1>9. /\ b \in Nat /\ d \in Nat /\ u \in Nat /\ n \in Nat /\ ChannelTimeout \in Nat
      /\ n >= d + ChannelTimeout /\ n < u
  BY L1Facts DEF Window
<1>10. InTime(c, n, d)
  <2>1. ASSUME NEW k \in Nums(c)
        PROVE  \E m \in d..n : m + ChannelTimeout >= n /\ OnL1(FrameOf(c, k), m)
    <3>1. PICK m \in b..n : m + ChannelTimeout >= n /\ OnL1(FrameOf(c, k), m)
      BY <1>8 DEF InTime
    <3>2. m \in d..n
      BY <1>9, <3>1
    <3> QED
      BY <3>1, <3>2
  <2> QED
    BY <2>1 DEF InTime
<1>11. n \in d..(u - 1)
  BY <1>9
<1>12. PICK j \in DOMAIN ts : ts[j] = [ch |-> c, at |-> n]
  BY <1>6, <1>8, <1>10, <1>11 DEF Window, Finished
<1>13. IsAt(ts[j], n) /\ j \in 1..Len(ts) /\ ts[j] = s[a]
  BY <1>3, <1>4, <1>6, <1>7, <1>12 DEF IsAt
<1>14. \E h \in DOMAIN t : t[h] = ts[j]
  BY <1>2, <1>13 DEF Filtered
<1> QED
  BY <1>1, <1>13, <1>14

\* The place of the frame that completes channel r.ch in block n.
Ranks(n) == [r \in Read |-> IF \E p : LastAt(r.ch, n, p) THEN CHOOSE p : LastAt(r.ch, n, p) ELSE 0]

LEMMA RankFacts ==
    ASSUME BankTypes, NEW n \in 1..Len(l1)
    PROVE  /\ \A r \in Read : Ranks(n)[r] \in Int
           /\ \A r \in Read : \A p : LastAt(r.ch, n, p) => Ranks(n)[r] = p
<1>1. \A c : \A p : LastAt(c, n, p) => p \in Int
  BY L1Facts DEF LastAt
<1>2. ASSUME NEW c, NEW p, NEW q, LastAt(c, n, p), LastAt(c, n, q) PROVE p = q
  <2>1. p \in Int /\ q \in Int
    BY <1>1, <1>2
  <2>2. ~(p < q) /\ ~(q < p)
    BY <1>2, <2>1 DEF LastAt
  <2> QED
    BY <2>1, <2>2
<1>3. ASSUME NEW r \in Read, NEW p, LastAt(r.ch, n, p) PROVE Ranks(n)[r] = p
  <2>1. PICK c : c = r.ch
    OBVIOUS
  <2>2. LastAt(c, n, CHOOSE h : LastAt(c, n, h))
    BY <1>3, <2>1
  <2>3. Ranks(n)[r] = CHOOSE h : LastAt(c, n, h)
    BY <1>3, <2>1 DEF Ranks
  <2> QED
    BY <1>2, <1>3, <2>1, <2>2, <2>3
<1>4. ASSUME NEW r \in Read PROVE Ranks(n)[r] \in Int
  <2>1. CASE \E p : LastAt(r.ch, n, p)
    BY <1>1, <1>3, <2>1
  <2>2. CASE ~\E p : LastAt(r.ch, n, p)
    <3>1. Ranks(n)[r] = 0
      BY <2>2 DEF Ranks
    <3> QED
      BY <3>1
  <2> QED
    BY <2>1, <2>2
<1> QED
  BY <1>3, <1>4

LEMMA ReadsRanked ==
    ASSUME BankTypes, NEW rs, NEW b, NEW o, NEW n \in 1..Len(l1), Window(rs, b, o, n),
           NEW x \in DOMAIN ReadsAt(rs, n), NEW y \in DOMAIN ReadsAt(rs, n), x < y
    PROVE  Ranks(n)[ReadsAt(rs, n)[x]] < Ranks(n)[ReadsAt(rs, n)[y]]
<1>1. PICK s : s = ReadsAt(rs, n)
  OBVIOUS
<1>2. rs \in Seq(Read) /\ DOMAIN rs = 1..Len(rs) /\ Filtered(s, rs, n, Len(rs)) /\ s \in Seq(Read)
  <2>1. rs \in Seq(Read) /\ DOMAIN rs = 1..Len(rs)
    BY DEF Window
  <2>2. Filtered(s, rs, n, Len(rs))
    BY <1>1, <2>1, ReadsAtFiltered
  <2> QED
    BY <2>1, <2>2 DEF Filtered
<1>3. PICK i \in 1..Len(rs), j \in 1..Len(rs) : i < j /\ s[x] = rs[i] /\ s[y] = rs[j]
  BY <1>1, <1>2 DEF Filtered
<1>4. IsAt(s[x], n) /\ IsAt(s[y], n) /\ s[x] \in Read /\ s[y] \in Read
  BY <1>1, <1>2 DEF Filtered
<1>5. PICK p, q : p < q /\ LastAt(s[x].ch, n, p) /\ LastAt(s[y].ch, n, q)
  BY <1>2, <1>3, <1>4 DEF Window, ReadsOrdered, IsAt
<1>6. Ranks(n)[s[x]] = p /\ Ranks(n)[s[y]] = q
  BY <1>4, <1>5, RankFacts
<1> QED
  BY <1>1, <1>5, <1>6

\* A reset is harmless, for every channel timeout, L1 content and reset block: at every L1
\* block that is the timeout or more past both starts, the channels that are read, and
\* their order, are the same before and after the reset.
THEOREM BankResetReproduces == Spec => []ResetReproduces
<1>1. IBank => ResetReproduces
  <2> SUFFICES ASSUME IBank, ~pruned, NEW n \in 1..MaxL1,
                      n > CanyonBlock, n < origin, n < before.origin,
                      n >= base + ChannelTimeout, n >= before.base + ChannelTimeout
               PROVE  ReadsAt(reads, n) = ReadsAt(before.reads, n)
    BY DEF ResetReproduces
  <2>1. BankTypes
    BY DEF IBank
  <2>2. PICK rs, b, o : rs = reads /\ b = base /\ o = origin
    OBVIOUS
  <2>3. PICK ts, d, u : ts = before.reads /\ d = before.base /\ u = before.origin
    OBVIOUS
  <2>4. n \in Nat /\ Len(l1) \in Nat
    BY <2>1, L1Facts, BankAssumption
  <2>5. rs \in Seq(Read) /\ b \in Nat \ {0} /\ o \in Nat /\ o <= Len(l1)
    BY <2>1, <2>2, L1Facts DEF BankTypes
  <2>6. ts \in Seq(Read) /\ d \in Nat \ {0} /\ u \in Nat /\ u <= Len(l1)
    BY <2>1, <2>3, BankAssumption DEF IBank, BankTypes, BeforeInv
  <2>7. Window(rs, b, o, n)
    BY <2>2, <2>4, <2>5 DEF IBank, ReadsInv, Window
  <2>8. Window(ts, d, u, n)
    BY <2>3, <2>4, <2>6 DEF IBank, BeforeInv, Window
  <2>9. n \in 1..Len(l1)
    BY <2>2, <2>4, <2>5
  <2>10. PICK s, t, rank : s = ReadsAt(rs, n) /\ t = ReadsAt(ts, n) /\ rank = Ranks(n)
    OBVIOUS
  <2>11. s \in Seq(Read) /\ t \in Seq(Read)
    BY <2>5, <2>6, <2>10, ReadsAtFiltered DEF Filtered
  <2>12. Ranked(s, rank) /\ Ranked(t, rank)
    <3>1. \A x \in Read : rank[x] \in Int
      BY <2>1, <2>9, <2>10, RankFacts
    <3> QED
      BY <2>11, <3>1 DEF Ranked
  <2>13. Ascending(s, rank)
    BY <2>1, <2>7, <2>9, <2>10, ReadsRanked DEF Ascending
  <2>14. Ascending(t, rank)
    BY <2>1, <2>8, <2>9, <2>10, ReadsRanked DEF Ascending
  <2>15. Within(s, t)
    BY <2>1, <2>7, <2>8, <2>10, ReadInBoth DEF Within
  <2>16. Within(t, s)
    BY <2>1, <2>7, <2>8, <2>10, ReadInBoth DEF Within
  <2>17. s = t
    BY <2>11, <2>12, <2>13, <2>14, <2>15, <2>16, SortedIsUnique
  <2> QED
    BY <2>2, <2>3, <2>10, <2>17
<1> QED
  BY <1>1, IBankAlways, PTL
=============================================================================
