------------------------- MODULE L2DerivationProofs -------------------------
(***************************************************************************)
(* Proofs about L2Derivation: its types; that the finalizer finalizes L2   *)
(* blocks only for blocks of the finalized L1 chain; that the heads fit    *)
(* together whatever the engine refuses and whichever of its answers are   *)
(* lost; that the safe chain is on the L1 chain that is read; and, without *)
(* L1 reorganisations, that L1 derives what is safe and what is finalized. *)
(***************************************************************************)
EXTENDS L2Derivation, TLAPS

(***************************************************************************)
(* Prefixes of sequences: L1 blocks are prefixes of the chain.             *)
(***************************************************************************)

\* An element of a sequence, and the last one.
LEMMA ElementType ==
    ASSUME NEW T, NEW s \in Seq(T), NEW i \in DOMAIN s
    PROVE  s[i] \in T
  OBVIOUS

LEMMA LastType ==
    ASSUME NEW T, NEW s \in Seq(T), s # <<>>
    PROVE  s[Len(s)] \in T
  OBVIOUS

\* A prefix is a sequence of its length.
LEMMA PrefixType ==
    ASSUME NEW T, NEW s \in Seq(T), NEW k \in 0..Len(s)
    PROVE  SubSeq(s, 1, k) \in Seq(T) /\ Len(SubSeq(s, 1, k)) = k
  OBVIOUS

\* The prefixes of a chain do not change when a block is added to it.
LEMMA PrefixOfAppend ==
    ASSUME NEW T, NEW s \in Seq(T), NEW e \in T, NEW k \in 0..Len(s)
    PROVE  SubSeq(Append(s, e), 1, k) = SubSeq(s, 1, k)
  OBVIOUS

\* The prefixes of a prefix are prefixes of the chain.
LEMMA PrefixOfPrefix ==
    ASSUME NEW T, NEW s \in Seq(T), NEW h \in 0..Len(s), NEW k \in 0..h
    PROVE  SubSeq(SubSeq(s, 1, h), 1, k) = SubSeq(s, 1, k)
  OBVIOUS

(***************************************************************************)
(* Blocks.                                                                 *)
(***************************************************************************)

\* The block at a height of an L1 chain is a block of that height.
LEMMA L1AtType ==
    ASSUME NEW b \in L1Block, NEW h \in 0..Height(b)
    PROVE  L1At(b, h) \in L1Block /\ Height(L1At(b, h)) = h
  BY PrefixType DEF L1At, L1Block, Height

\* A height is a number.
LEMMA HeightType ==
    ASSUME NEW b \in L1Block
    PROVE  Height(b) \in Nat
  BY DEF Height, L1Block

\* A block is not the empty reference, so its number is the length of its chain.
LEMMA NumberType ==
    ASSUME NEW B \in L2Block
    PROVE  /\ B # NoBlock
           /\ Number(B) = Len(B.kinds) /\ Number(B) = Len(B.org) /\ Number(B) \in Nat
           /\ B.org \in L1Block /\ B.kinds \in Seq({0, 1})
<1>1. B.org \in L1Block /\ B.kinds \in Seq({0, 1}) /\ Len(B.org) = Len(B.kinds)
  BY DEF L2Block
<1>2. B # NoBlock
  <2> SUFFICES ASSUME B = NoBlock PROVE FALSE
    OBVIOUS
  <2>1. Len(B.kinds) = 1 /\ B.kinds[1] = 2
    BY DEF NoBlock
  <2> QED BY <1>1, <2>1
<1> QED BY <1>1, <1>2 DEF Number

\* Attributes that are neither none nor refused are those of a block.
LEMMA AttributesType ==
    ASSUME TypeOK, attributes # NoBlock, attributes # Refused
    PROVE  attributes \in L2Block
  BY DEF TypeOK

\* The ancestors of an L2 block are L2 blocks.
LEMMA L2AtType ==
    ASSUME NEW B \in L2Block, NEW n \in 0..Number(B)
    PROVE  L2At(B, n) \in L2Block
<1>1. B.org \in L1Block /\ B.kinds \in Seq({0, 1}) /\ n \in 0..Len(B.org) /\ n \in 0..Len(B.kinds)
  BY NumberType
<1>2. SubSeq(B.org, 1, n) \in L1Block /\ Len(SubSeq(B.org, 1, n)) = n
  <2>1. PICK s : s = B.org
    OBVIOUS
  <2>2. s \in L1Block /\ n \in 0..Len(s)
    BY <1>1, <2>1
  <2>3. SubSeq(s, 1, n) \in L1Block /\ Len(SubSeq(s, 1, n)) = n
    BY <2>2, PrefixType DEF L1Block
  <2> QED
    BY <2>1, <2>3
<1>3. SubSeq(B.kinds, 1, n) \in Seq({0, 1}) /\ Len(SubSeq(B.kinds, 1, n)) = n
  BY <1>1, PrefixType
<1> QED BY <1>2, <1>3 DEF L2At, L2Block

\* So is the child of a block, if its origin is known.
LEMMA ChildType ==
    ASSUME NEW S \in L2Block, NEW t \in L1Block, Height(t) > Number(S), NEW k \in {0, 1}
    PROVE  Child(S, t, k) \in L2Block
<1>1. Number(S) + 1 \in 0..Height(t) /\ S.kinds \in Seq({0, 1}) /\ Number(S) = Len(S.kinds)
  BY NumberType, HeightType
<1>2. L1At(t, Number(S) + 1) \in L1Block /\ Len(L1At(t, Number(S) + 1)) = Number(S) + 1
  BY <1>1, L1AtType DEF Height
<1>3. Append(S.kinds, k) \in Seq({0, 1}) /\ Len(Append(S.kinds, k)) = Number(S) + 1
  BY <1>1
<1> QED BY <1>2, <1>3 DEF Child, L2Block

\* The genesis block is an L2 block.
LEMMA GenesisType == GenesisL2 \in L2Block
  BY DEF GenesisL2, L2Block, L1Block

\* The L1 block to restart from is an L1 block.
LEMMA PipelineOriginType ==
    ASSUME NEW S \in L2Block
    PROVE  PipelineOrigin(S) \in L1Block
<1>1. S.org \in L1Block /\ Number(S) \in Nat /\ Height(S.org) = Number(S)
  BY NumberType DEF Height
<1>2. (IF Number(S) > ChannelTimeout THEN Number(S) - ChannelTimeout ELSE 0) \in 0..Height(S.org)
  BY <1>1, ParametersAssumption
<1> QED BY <1>1, <1>2, L1AtType DEF PipelineOrigin

\* What an L1 chain derives.
LEMMA DerivedType ==
    ASSUME NEW b \in L1Block
    PROVE  Derived(b) \in Seq({0, 1}) /\ Len(Derived(b)) \in Nat
<1>1. Derived(b) \in Seq({0, 1})
  <2>1. CASE b = <<>>
    <3>1. Derived(b) = <<>>
      BY <2>1 DEF Derived
    <3>2. <<>> \in Seq({0, 1})
      OBVIOUS
    <3> QED BY <3>1, <3>2, Zenon
  <2>2. CASE b # <<>>
    <3>1. b[Len(b)] \in [fork : Nat, l2 : Seq({0, 1})]
      BY <2>2, LastType DEF L1Block
    <3>2. b[Len(b)].l2 \in Seq({0, 1})
      BY <3>1
    <3> QED BY <2>2, <3>2 DEF Derived
  <2> QED BY <2>1, <2>2
<1> QED BY <1>1

(***************************************************************************)
(* The parts of the actions.                                               *)
(***************************************************************************)

\* The L2 blocks that L1 derives after a new L1 block.
LEMMA NewL1BlockType ==
    ASSUME TypeOK, NEW batch \in BOOLEAN, NEW h \in Nat
    PROVE  [fork |-> reorgs, l2 |-> WithExpiry(WithBatch(Derived(l1), batch), h)]
              \in [fork : Nat, l2 : Seq({0, 1})]
<1>1. Derived(l1) \in Seq({0, 1})
  BY DerivedType DEF TypeOK
<1>2. WithBatch(Derived(l1), batch) \in Seq({0, 1})
  BY <1>1 DEF WithBatch
<1>3. WithExpiry(WithBatch(Derived(l1), batch), h) \in Seq({0, 1})
  BY <1>2 DEF WithExpiry
<1>4. reorgs \in Nat
  BY ParametersAssumption DEF TypeOK
<1> QED BY <1>3, <1>4

\* What the finalizer remembers has its type.
LEMMA PostProcessType ==
    ASSUME TypeOK
    PROVE  PostProcessSafeL2 \in Seq([l2 : L2Block, l1 : L1Block])
<1> DEFINE E == [l2 : L2Block, l1 : L1Block]
<1>1. Entry(safeHead, origin) \in E /\ finalityData \in Seq(E) /\ safeHead \in L2Block
  BY DEF Entry, TypeOK
<1> HIDE DEF E
<1>2. Pruned(finalityData) \in Seq(E)
  <2>1. CASE Len(finalityData) >= FinalityLookback
    <3>1. finalityData # <<>>
      BY <2>1, ParametersAssumption
    <3> QED BY <1>1, <2>1, <3>1 DEF Pruned
  <2>2. CASE ~(Len(finalityData) >= FinalityLookback)
    BY <1>1, <2>2 DEF Pruned
  <2> QED BY <2>1, <2>2
<1>3. CASE NewL1(finalityData, origin)
  BY <1>1, <1>2, <1>3 DEF PostProcessSafeL2, E
<1>4. CASE ~NewL1(finalityData, origin)
  <2>1. Len(finalityData) \in DOMAIN finalityData
    BY <1>1, <1>4 DEF NewL1
  <2>2. finalityData[Len(finalityData)] \in E
    BY <1>1, <2>1
  <2>3. [finalityData[Len(finalityData)] EXCEPT !.l2 = safeHead] \in E
    BY <1>1, <2>2 DEF E
  <2>4. [finalityData EXCEPT ![Len(finalityData)] =
            [finalityData[Len(finalityData)] EXCEPT !.l2 = safeHead]] \in Seq(E)
    BY <1>1, <2>1, <2>3
  <2> QED BY <1>4, <2>4 DEF PostProcessSafeL2, E
<1> QED BY <1>3, <1>4

\* tryFinalize keeps the types, and what it finalizes a block for is canonical and not
\* higher than the signal.
LEMMA TryFinalizeStep ==
    ASSUME TypeOK, NEW fd \in Seq([l2 : L2Block, l1 : L1Block]), NEW b \in L1Block,
           NEW result, TryFinalize(fd, b, result)
    PROVE  /\ finalizedHead' \in L2Block /\ finalizedFrom' \in L1Block
           /\ needFCUCall' \in BOOLEAN
           /\ \/ finalizedFrom' = finalizedFrom
              \/ Canonical(finalizedFrom') /\ Height(finalizedFrom') <= Height(b)
<1>1. ASSUME NEW i \in DOMAIN fd, LastFinalizable(i, fd, b), OnFinalizingChain(b, fd[i].l1),
             finalizedHead' = fd[i].l2, finalizedFrom' = fd[i].l1, needFCUCall' = TRUE
      PROVE  /\ finalizedHead' \in L2Block /\ finalizedFrom' \in L1Block
             /\ needFCUCall' \in BOOLEAN
             /\ Canonical(finalizedFrom') /\ Height(finalizedFrom') <= Height(b)
  <2>1. fd[i] \in [l2 : L2Block, l1 : L1Block]
    BY ElementType
  <2>2. Height(fd[i].l1) <= Height(b)
    BY <1>1 DEF LastFinalizable, Finalizable
  <2> QED BY <1>1, <2>1, <2>2 DEF OnFinalizingChain
<1>2. \/ UNCHANGED <<finalizedVars, needFCUCall>>
      \/ \E i \in DOMAIN fd :
            /\ LastFinalizable(i, fd, b) /\ OnFinalizingChain(b, fd[i].l1)
            /\ finalizedHead' = fd[i].l2 /\ finalizedFrom' = fd[i].l1 /\ needFCUCall' = TRUE
  BY Zenon DEF TryFinalize
<1>3. CASE UNCHANGED <<finalizedVars, needFCUCall>>
  BY <1>3 DEF TypeOK, finalizedVars
<1>4. CASE ~UNCHANGED <<finalizedVars, needFCUCall>>
  <2>1. PICK i \in DOMAIN fd :
            /\ LastFinalizable(i, fd, b) /\ OnFinalizingChain(b, fd[i].l1)
            /\ finalizedHead' = fd[i].l2 /\ finalizedFrom' = fd[i].l1 /\ needFCUCall' = TRUE
    BY <1>2, <1>4, Zenon
  <2> QED BY <1>1, <2>1, Zenon
<1> QED BY <1>3, <1>4

\* The heads to restart from are blocks.
LEMMA ResetHeadsType ==
    ASSUME TypeOK, ResetHeads
    PROVE  /\ unsafeHead' \in L2Block \cup {NoBlock} /\ safeHead' \in L2Block
           /\ finalizedHead' \in L2Block /\ origin' \in L1Block
           /\ needFCUCall' \in BOOLEAN /\ attributes' \in L2Block \cup {NoBlock, Refused}
           /\ triedFinalizeAt' \in Nat /\ resetting' \in 0..2
           /\ finalityData' \in Seq([l2 : L2Block, l1 : L1Block])
<1>1. labels.unsafe \in L2Block /\ labels.finalized \in L2Block
  BY DEF TypeOK
<1>2. ChainOf(labels.unsafe) \subseteq L2Block
  BY <1>1, L2AtType DEF ChainOf
<1>3. unsafeHead' \in L2Block \cup {NoBlock}
  BY <1>2 DEF ResetHeads
<1>4. PICK S \in ChainOf(labels.unsafe) :
        /\ safeHead' = S /\ origin' = PipelineOrigin(S)
        /\ finalizedHead' = IF Number(labels.finalized) > Number(S) THEN S
                            ELSE labels.finalized
  BY DEF ResetHeads
<1>5. safeHead' \in L2Block /\ finalizedHead' \in L2Block /\ origin' \in L1Block
  BY <1>1, <1>2, <1>4, PipelineOriginType
<1> QED BY <1>3, <1>5 DEF ResetHeads, ResetData

\* Moving the pipeline on keeps the types of its variables.
LEMMA MoveOnType ==
    ASSUME TypeOK, MoveOn
    PROVE  /\ traversal' \in L1Block /\ origin' \in L1Block /\ resetting' \in 0..2
           /\ attributes' \in L2Block \cup {NoBlock, Refused}
           /\ faults' \in Nat /\ stepReq' \in BOOLEAN
<1>0. faults' \in Nat /\ stepReq' \in BOOLEAN
  <2>1. faults \in Nat
    BY DEF TypeOK
  <2>2. faults' = faults \/ faults' = faults + 1
    BY Zenon DEF MoveOn, NextAttributes, Fault
  <2>3. stepReq' = TRUE \/ stepReq' = FALSE
    BY Zenon DEF MoveOn, NextAttributes, AdvanceL1Block
  <2>4. stepReq' \in BOOLEAN
    BY <2>3, Zenon
  <2> QED BY <2>1, <2>2, <2>4
<1> SUFFICES /\ traversal' \in L1Block /\ origin' \in L1Block /\ resetting' \in 0..2
             /\ attributes' \in L2Block \cup {NoBlock, Refused}
  BY <1>0
<1>1. CASE UNCHANGED pipelineVars
  BY <1>1 DEF TypeOK, pipelineVars
<1>2. CASE resetting' = 0 /\ UNCHANGED <<traversal, origin, attributes>>
  BY <1>2 DEF TypeOK
<1>3. CASE origin' = traversal /\ NextAttributes
  <2>1. origin' \in L1Block
    BY <1>3 DEF TypeOK
  <2>2. CASE resetting' = 0 /\ UNCHANGED <<traversal, attributes>>
    BY <2>1, <2>2 DEF TypeOK
  <2>3. ASSUME NEW k \in {0, 1}, NextKind(k, safeHead, traversal),
               attributes' = Child(safeHead, traversal, k), UNCHANGED <<traversal, resetting>>
        PROVE  attributes' \in L2Block /\ traversal' \in L1Block /\ resetting' \in 0..2
    BY <2>3, ChildType DEF TypeOK, NextKind
  <2>4. CASE AdvanceL1Block /\ UNCHANGED attributes
    <3>1. l1 \in L1Block /\ traversal \in L1Block
      BY DEF TypeOK
    <3>2. Height(l1) > Height(traversal) => L1At(l1, Height(traversal) + 1) \in L1Block
      BY <3>1, HeightType, L1AtType
    <3>3. traversal' \in L1Block /\ resetting' \in 0..2
      BY <2>4, <3>1, <3>2 DEF AdvanceL1Block, TypeOK
    <3> QED BY <2>1, <2>4, <3>3 DEF TypeOK
  <2>5. CASE attributes' = Refused /\ UNCHANGED <<traversal, resetting>>
    BY <2>1, <2>5 DEF TypeOK
  <2> QED BY <1>3, <2>1, <2>2, <2>3, <2>4, <2>5 DEF NextAttributes
<1> QED BY <1>1, <1>2, <1>3 DEF MoveOn

(***************************************************************************)
(* The invariant.  The last finality signal is for a final L1 block; with  *)
(* that, what a block is finalized for is at most as high as the final     *)
(* block, where L1 is not reorganised any more.                            *)
(***************************************************************************)
SignalFinal == Height(finalizedL1) <= l1Final
IInv == TypeOK /\ SignalFinal /\ FinalizedOnFinalChain

\* It holds initially.
LEMMA InitIInv == Init => IInv
<1> SUFFICES ASSUME Init PROVE IInv
  OBVIOUS
<1>1. <<>> \in L1Block /\ Height(<<>>) = 0
  BY DEF L1Block, Height
<1>2. TypeOK
  <2>1. labels \in [unsafe : L2Block, safe : L2Block, finalized : L2Block]
    BY GenesisType DEF Init
  <2>2. finalityData \in Seq([l2 : L2Block, l1 : L1Block])
    BY DEF Init
  <2>3. /\ l1 \in L1Block /\ l1Final \in 0..Height(l1)
        /\ reorgs \in 0..MaxDisruptions /\ resets \in Nat /\ faults \in Nat
        /\ stepReq \in BOOLEAN
        /\ traversal \in L1Block /\ origin \in L1Block /\ resetting \in 0..2
        /\ finalizedL1 \in L1Block /\ triedFinalizeAt \in Nat /\ finalizedFrom \in L1Block
    BY <1>1, ParametersAssumption DEF Init
  <2>4. /\ attributes \in L2Block \cup {NoBlock, Refused}
        /\ unsafeHead \in L2Block \cup {NoBlock}
        /\ safeHead \in L2Block /\ finalizedHead \in L2Block /\ needFCUCall \in BOOLEAN
    BY GenesisType DEF Init
  <2> QED BY <2>1, <2>2, <2>3, <2>4 DEF TypeOK
<1>3. SignalFinal
  BY <1>1 DEF Init, SignalFinal
<1>4. Canonical(<<>>)
  <2>1. L1At(<<>>, 0) \in L1Block /\ Height(L1At(<<>>, 0)) = 0
    BY <1>1, L1AtType
  <2>2. L1At(<<>>, 0) = <<>>
    BY <2>1 DEF L1Block, Height
  <2> QED BY <1>1, <2>2 DEF Init, Canonical
<1>5. FinalizedOnFinalChain
  BY <1>1, <1>4 DEF Init, FinalizedOnFinalChain
<1> QED BY <1>2, <1>3, <1>5 DEF IInv

\* A canonical block below the final height stays canonical when L1 grows or is
\* reorganised above that height.
LEMMA CanonicalGrow ==
    ASSUME NEW c \in L1Block, NEW e \in [fork : Nat, l2 : Seq({0, 1})], NEW b \in L1Block,
           Height(b) <= Height(c), L1At(c, Height(b)) = b
    PROVE  Append(c, e) \in L1Block /\ Height(Append(c, e)) = Height(c) + 1
           /\ L1At(Append(c, e), Height(b)) = b
<1>1. Height(b) \in 0..Len(c)
  BY HeightType DEF Height
<1>2. SubSeq(Append(c, e), 1, Height(b)) = SubSeq(c, 1, Height(b))
  BY <1>1, PrefixOfAppend DEF L1Block
<1> QED BY <1>2 DEF L1Block, Height, L1At

\* The same holds for a chain cut above the block.
LEMMA CanonicalReorg ==
    ASSUME NEW c \in L1Block, NEW h \in 0..Height(c), NEW b \in L1Block,
           Height(b) <= h, L1At(c, Height(b)) = b
    PROVE  L1At(L1At(c, h), Height(b)) = b
<1>1. Height(b) \in 0..h /\ h \in 0..Len(c)
  BY HeightType DEF Height
<1>2. SubSeq(SubSeq(c, 1, h), 1, Height(b)) = SubSeq(c, 1, Height(b))
  BY <1>1, PrefixOfPrefix DEF L1Block
<1> QED BY <1>2 DEF L1At

\* Each step preserves it.
LEMMA L1GrowStep ==
    ASSUME IInv, NEW batch \in BOOLEAN, L1Grow(batch)
    PROVE  IInv'
<1> DEFINE e == [fork |-> reorgs,
                 l2 |-> WithExpiry(WithBatch(Derived(l1), batch), Height(l1) + 1)]
<1>1. TypeOK /\ SignalFinal /\ FinalizedOnFinalChain
  BY DEF IInv
<1>2. l1 \in L1Block /\ finalizedFrom \in L1Block /\ Height(l1) \in Nat
  BY <1>1, HeightType DEF TypeOK
<1>3. e \in [fork : Nat, l2 : Seq({0, 1})]
  BY <1>1, <1>2, NewL1BlockType
<1>4. l1' = Append(l1, e)
  BY DEF L1Grow
<1> HIDE DEF e
<1>5. /\ l1' \in L1Block /\ Height(l1') = Height(l1) + 1
      /\ L1At(l1', Height(finalizedFrom)) = finalizedFrom
  BY <1>1, <1>2, <1>3, <1>4, CanonicalGrow DEF FinalizedOnFinalChain, Canonical
<1>6. UNCHANGED <<l1Final, reorgs, countVars, stepReq, pipelineVars, engineVars,
                  finalizedVars, finalizerVars>>
  BY DEF L1Grow
<1>7. TypeOK'
  BY <1>1, <1>2, <1>5, <1>6 DEF TypeOK, countVars, pipelineVars, engineVars, finalizedVars, finalizerVars
<1>8. SignalFinal'
  BY <1>1, <1>6 DEF SignalFinal, finalizerVars
<1>9. FinalizedOnFinalChain'
  BY <1>1, <1>2, <1>5, <1>6, HeightType
     DEF FinalizedOnFinalChain, Canonical, finalizedVars
<1> QED BY <1>7, <1>8, <1>9 DEF IInv

\* L1 is reorganised above its finalized block.
LEMMA L1ReorgStep ==
    ASSUME IInv, NEW h \in 0..MaxL1, L1Reorg(h)
    PROVE  IInv'
<1>1. TypeOK /\ SignalFinal /\ FinalizedOnFinalChain
  BY DEF IInv
<1>2. l1 \in L1Block /\ finalizedFrom \in L1Block /\ Height(l1) \in Nat
      /\ l1Final \in 0..Height(l1) /\ Height(finalizedFrom) \in Nat
  BY <1>1, HeightType DEF TypeOK
<1>3. h \in 0..Height(l1) /\ l1Final <= h /\ l1' = L1At(l1, h)
  BY <1>2 DEF L1Reorg
<1>4. l1' \in L1Block /\ Height(l1') = h
  BY <1>2, <1>3, L1AtType
<1>5. Height(finalizedFrom) <= h /\ L1At(l1', Height(finalizedFrom)) = finalizedFrom
  BY <1>1, <1>2, <1>3, CanonicalReorg DEF FinalizedOnFinalChain, Canonical
<1>6. /\ UNCHANGED <<l1Final, countVars, stepReq, pipelineVars, engineVars, finalizedVars,
                     finalizerVars>>
      /\ reorgs + resets < MaxDisruptions /\ reorgs' = reorgs + 1
  BY DEF L1Reorg
<1>7. TypeOK'
  <2>1. l1Final' \in 0..Height(l1')
    BY <1>2, <1>3, <1>4, <1>6
  <2>2. reorgs' \in 0..MaxDisruptions
    BY <1>1, <1>6, ParametersAssumption DEF TypeOK
  <2> QED BY <1>1, <1>4, <1>6, <2>1, <2>2
             DEF TypeOK, countVars, pipelineVars, engineVars, finalizedVars, finalizerVars
<1>8. SignalFinal'
  BY <1>1, <1>6 DEF SignalFinal, finalizerVars
<1>9. FinalizedOnFinalChain'
  BY <1>1, <1>4, <1>5, <1>6 DEF FinalizedOnFinalChain, Canonical, finalizedVars
<1> QED BY <1>7, <1>8, <1>9 DEF IInv

\* A finality signal.
LEMMA FinalizeStep ==
    ASSUME IInv, NEW h \in 1..MaxL1, Finalize(h)
    PROVE  IInv'
<1> DEFINE b == L1At(l1, h)
<1>1. TypeOK /\ SignalFinal /\ FinalizedOnFinalChain
  BY DEF IInv
<1>2. l1 \in L1Block /\ Height(l1) \in Nat /\ l1Final \in 0..Height(l1)
  BY <1>1, HeightType DEF TypeOK
<1>3. h \in 1..Height(l1) /\ finalizedL1' = b
  BY DEF Finalize
<1>4. b \in L1Block /\ Height(b) = h
  BY <1>2, <1>3, L1AtType
<1>5. /\ l1Final' \in 0..Height(l1) /\ h <= l1Final' /\ l1Final <= l1Final'
      /\ UNCHANGED <<l1, reorgs, countVars, pipelineVars, unsafeHead, safeHead, labels,
                     finalityData>>
      /\ triedFinalizeAt' \in Nat /\ stepReq' = TRUE
  BY <1>1, <1>2, <1>3 DEF Finalize, TypeOK
<1>6. PICK result \in {"done", "reset", "temporary"} : TryFinalize(finalityData, b, result)
  BY DEF Finalize
<1> HIDE DEF b
<1>7. finalityData \in Seq([l2 : L2Block, l1 : L1Block])
  BY <1>1 DEF TypeOK
<1>8. /\ finalizedHead' \in L2Block /\ finalizedFrom' \in L1Block
      /\ needFCUCall' \in BOOLEAN
      /\ \/ finalizedFrom' = finalizedFrom
         \/ Canonical(finalizedFrom') /\ Height(finalizedFrom') <= Height(b)
  BY <1>1, <1>4, <1>6, <1>7, TryFinalizeStep
<1>9. TypeOK'
  BY <1>1, <1>3, <1>4, <1>5, <1>8 DEF TypeOK, countVars, pipelineVars
<1>10. SignalFinal'
  BY <1>3, <1>4, <1>5 DEF SignalFinal
<1>11. FinalizedOnFinalChain'
  <2>1. finalizedFrom \in L1Block /\ Height(finalizedFrom) \in Nat /\ Height(finalizedFrom') \in Nat
    BY <1>1, <1>8, HeightType DEF TypeOK
  <2>2. Height(finalizedFrom') <= l1Final'
    BY <1>1, <1>2, <1>4, <1>5, <1>8, <2>1 DEF FinalizedOnFinalChain
  <2>3. Height(finalizedFrom') <= Height(l1) /\ L1At(l1, Height(finalizedFrom')) = finalizedFrom'
    BY <1>1, <1>8 DEF FinalizedOnFinalChain, Canonical
  <2> QED BY <1>5, <2>2, <2>3 DEF FinalizedOnFinalChain, Canonical
<1> QED BY <1>9, <1>10, <1>11 DEF IInv

\* An action that leaves L1 and what concerns finality alone has the types to keep only.
LEMMA FinalityUntouched ==
    ASSUME IInv, TypeOK', UNCHANGED <<l1, l1Final, finalizedFrom>>,
           finalizedL1' = finalizedL1 \/ finalizedL1' = <<>>
    PROVE  IInv'
<1>1. SignalFinal'
  <2>1. Height(<<>>) = 0 /\ l1Final >= 0
    BY DEF Height, IInv, TypeOK
  <2> QED BY <2>1 DEF SignalFinal, IInv
<1>2. FinalizedOnFinalChain'
  BY DEF FinalizedOnFinalChain, IInv, Canonical
<1> QED BY <1>1, <1>2 DEF IInv

\* Resets and restarts, and a signal to step again.
LEMMA ResetStep ==
    ASSUME IInv, ResetEngineQueue \/ ResetStages \/ ForceReset \/ Restart \/ Signal
    PROVE  IInv'
<1>1. TypeOK
  BY DEF IInv
<1>2. CASE ResetEngineQueue
  <2>1. TypeOK'
    BY <1>1, <1>2, ResetHeadsType
       DEF ResetEngineQueue, StepsAgain, TypeOK, l1Vars, countVars
  <2> QED BY <1>2, <2>1, FinalityUntouched DEF ResetEngineQueue, l1Vars
<1>3. CASE ResetStages
  <2>1. TypeOK'
    BY <1>1, <1>3 DEF ResetStages, StepsAgain, TypeOK, l1Vars, countVars, engineVars,
                      finalizedVars, finalizerVars
  <2> QED BY <1>3, <2>1, FinalityUntouched DEF ResetStages, l1Vars, finalizedVars, finalizerVars
<1>4. CASE ForceReset
  <2>1. TypeOK'
    BY <1>1, <1>4 DEF ForceReset, TypeOK, l1Vars, engineVars, finalizedVars, finalizerVars
  <2> QED BY <1>4, <2>1, FinalityUntouched DEF ForceReset, l1Vars, finalizedVars, finalizerVars
<1>5. CASE Restart
  <2>1. <<>> \in L1Block
    BY DEF L1Block
  <2>2. TypeOK'
    BY <1>1, <1>5, <2>1, ResetHeadsType DEF Restart, TypeOK, l1Vars
  <2> QED BY <1>5, <2>2, FinalityUntouched DEF Restart, l1Vars
<1>6. CASE Signal
  <2>1. TypeOK'
    BY <1>1, <1>6 DEF Signal, TypeOK, l1Vars, countVars, pipelineVars, engineVars,
                      finalizedVars, finalizerVars
  <2> QED BY <1>6, <2>1, FinalityUntouched DEF Signal, l1Vars, finalizedVars, finalizerVars
<1> QED BY <1>2, <1>3, <1>4, <1>5, <1>6

\* The steps of the engine controller and of the attributes handler.
EngineAction ==
    \/ TryUpdateEngine \/ UpdateNeedsReset \/ UpdateUnanswered
    \/ InsertUnsafePayload \/ InsertUnanswered
    \/ ConsolidateNextSafeAttributes \/ ConsolidateNeedsReset
    \/ ForceNextSafeAttributes \/ ForceUnanswered \/ ForceRejected

\* What the engine is told is made of blocks.
EngineLabels == [unsafe : L2Block, safe : L2Block, finalized : L2Block]
LEMMA ToldType ==
    ASSUME TypeOK, NEW head \in L2Block, NEW safe \in L2Block
    PROVE  Told(head, safe) \in EngineLabels
  BY DEF Told, TypeOK, EngineLabels

\* The payload to insert is a block.
LEMMA PayloadType ==
    ASSUME TypeOK, MayInsert
    PROVE  unsafeHead \in L2Block /\ Child(unsafeHead, l1, 1) \in L2Block
<1>1. unsafeHead \in L2Block /\ l1 \in L1Block /\ Number(unsafeHead) < Height(l1)
  BY DEF MayInsert, TypeOK
<1> QED BY <1>1, ChildType, NumberType, HeightType

\* They leave L1 and what concerns finality alone.
LEMMA EngineActionFrame ==
    ASSUME EngineAction
    PROVE  /\ UNCHANGED <<l1, l1Final, reorgs, traversal, origin, finalizedHead, finalizedFrom>>
           /\ UNCHANGED <<finalizedL1, triedFinalizeAt, finalityData>>
<1>1. CASE TryUpdateEngine \/ UpdateNeedsReset \/ UpdateUnanswered
  BY <1>1 DEF TryUpdateEngine, UpdateNeedsReset, UpdateUnanswered, l1Vars, pipelineVars,
              finalizedVars, finalizerVars
<1>2. CASE InsertUnsafePayload \/ InsertUnanswered
  BY <1>2 DEF InsertUnsafePayload, InsertUnanswered, l1Vars, pipelineVars, finalizedVars,
              finalizerVars
<1>3. CASE ConsolidateNextSafeAttributes \/ ConsolidateNeedsReset
  BY <1>3 DEF ConsolidateNextSafeAttributes, ConsolidateNeedsReset, l1Vars, finalizedVars,
              finalizerVars
<1>4. CASE ForceNextSafeAttributes \/ ForceUnanswered \/ ForceRejected
  BY <1>4 DEF ForceNextSafeAttributes, ForceUnanswered, ForceRejected, l1Vars, pipelineVars,
              finalizedVars, finalizerVars
<1> QED BY <1>1, <1>2, <1>3, <1>4 DEF EngineAction

\* The flags they set are Booleans.
LEMMA EngineActionBooleans ==
    ASSUME TypeOK, EngineAction
    PROVE  stepReq' \in BOOLEAN /\ needFCUCall' \in BOOLEAN
<1>1. stepReq' = TRUE \/ stepReq' = FALSE
  BY Zenon DEF EngineAction, TryUpdateEngine, UpdateNeedsReset, UpdateUnanswered,
     InsertUnsafePayload, InsertUnanswered, ConsolidateNextSafeAttributes,
     ConsolidateNeedsReset, ForceNextSafeAttributes, ForceUnanswered, ForceRejected,
     StepsAgain, StepsNoMore
<1>2. needFCUCall' = TRUE \/ needFCUCall' = FALSE \/ needFCUCall' = needFCUCall
  BY Zenon DEF EngineAction, TryUpdateEngine, UpdateNeedsReset, UpdateUnanswered,
     InsertUnsafePayload, InsertUnanswered, ConsolidateNextSafeAttributes,
     ConsolidateNeedsReset, ForceNextSafeAttributes, ForceUnanswered, ForceRejected,
     SetSafeHead, engineVars
<1>3. needFCUCall \in BOOLEAN
  BY DEF TypeOK
<1> QED BY <1>1, <1>2, <1>3, Zenon

\* They keep the types of what they change.
LEMMA EngineActionType ==
    ASSUME TypeOK, EngineAction
    PROVE  /\ resets' \in Nat /\ faults' \in Nat /\ stepReq' \in BOOLEAN
           /\ resetting' \in 0..2 /\ attributes' \in L2Block \cup {NoBlock, Refused}
           /\ unsafeHead' \in L2Block \cup {NoBlock} /\ safeHead' \in L2Block
           /\ needFCUCall' \in BOOLEAN /\ labels' \in EngineLabels
<1>1. /\ resets \in Nat /\ faults \in Nat
      /\ resetting \in 0..2 /\ attributes \in L2Block \cup {NoBlock, Refused}
      /\ unsafeHead \in L2Block \cup {NoBlock} /\ safeHead \in L2Block
      /\ labels \in EngineLabels /\ finalizedHead \in L2Block
  BY DEF TypeOK, EngineLabels
<1> SUFFICES /\ resets' \in Nat /\ faults' \in Nat
             /\ resetting' \in 0..2 /\ attributes' \in L2Block \cup {NoBlock, Refused}
             /\ unsafeHead' \in L2Block \cup {NoBlock} /\ safeHead' \in L2Block
             /\ labels' \in EngineLabels
  BY EngineActionBooleans
<1>2. CASE TryUpdateEngine \/ UpdateUnanswered
  <2>1. unsafeHead # NoBlock => Told(unsafeHead, safeHead) \in EngineLabels
    BY <1>1, ToldType
  <2>2. labels' \in EngineLabels
    BY <1>1, <1>2, <2>1 DEF TryUpdateEngine, UpdateUnanswered
  <2>3. /\ resets' = resets /\ faults' \in Nat
        /\ UNCHANGED <<resetting, attributes, unsafeHead, safeHead>>
    BY <1>1, <1>2 DEF TryUpdateEngine, UpdateUnanswered, Fault, countVars, pipelineVars
  <2> QED BY <1>1, <2>2, <2>3
<1>3. CASE UpdateNeedsReset
  <2>1. labels' \in EngineLabels
    BY <1>1, <1>3 DEF UpdateNeedsReset, EngineLabels
  <2> QED BY <1>1, <1>3, <2>1 DEF UpdateNeedsReset, countVars
<1>4. CASE InsertUnsafePayload \/ InsertUnanswered
  <2>1. Child(unsafeHead, l1, 1) \in L2Block
    BY <1>4, PayloadType DEF InsertUnsafePayload, InsertUnanswered
  <2>2. Told(Child(unsafeHead, l1, 1), safeHead) \in EngineLabels
    BY <1>1, <2>1, ToldType
  <2>3. labels' \in EngineLabels /\ unsafeHead' \in L2Block \cup {NoBlock}
    BY <1>1, <1>4, <2>1, <2>2 DEF InsertUnsafePayload, InsertUnanswered
  <2>4. /\ resets' = resets /\ faults' \in Nat
        /\ UNCHANGED <<resetting, attributes, safeHead>>
    BY <1>1, <1>4 DEF InsertUnsafePayload, InsertUnanswered, Fault, countVars, pipelineVars
  <2> QED BY <1>1, <2>3, <2>4
<1>5. CASE ConsolidateNextSafeAttributes
  <2>1. attributes \in L2Block
    BY <1>5, AttributesType DEF ConsolidateNextSafeAttributes, Consolidates, HasAttributes, Matches
  <2> QED BY <1>1, <1>5, <2>1 DEF ConsolidateNextSafeAttributes, SetSafeHead, countVars
<1>6. CASE ConsolidateNeedsReset
  BY <1>1, <1>6 DEF ConsolidateNeedsReset, engineVars
<1>7. CASE ForceNextSafeAttributes
  <2>1. attributes \in L2Block
    BY <1>7, AttributesType DEF ForceNextSafeAttributes, MayForce, Consolidates, HasAttributes
  <2>2. Told(attributes, attributes) \in EngineLabels
    BY <2>1, ToldType
  <2> QED BY <1>1, <1>7, <2>1, <2>2 DEF ForceNextSafeAttributes, countVars
<1>8. CASE ForceUnanswered \/ ForceRejected
  <2>1. Told(safeHead, safeHead) \in EngineLabels
    BY <1>1, ToldType
  <2>2. attributes \in L2Block => Told(attributes, attributes) \in EngineLabels
    BY ToldType
  <2>3. ForceUnanswered /\ attributes # Refused => attributes \in L2Block
    BY AttributesType DEF ForceUnanswered, MayForce, Consolidates, HasAttributes
  <2>4. labels' \in EngineLabels
    BY <1>1, <1>8, <2>1, <2>2, <2>3 DEF ForceUnanswered, ForceRejected
  <2>5. /\ resets' = resets /\ faults' \in Nat
        /\ attributes' \in {attributes, NoBlock}
        /\ UNCHANGED <<resetting, unsafeHead, safeHead>>
    BY <1>1, <1>8 DEF ForceUnanswered, ForceRejected, Fault, countVars, pipelineVars
  <2> QED BY <1>1, <2>4, <2>5
<1> QED BY <1>2, <1>3, <1>4, <1>5, <1>6, <1>7, <1>8 DEF EngineAction

\* So they preserve the invariant.
LEMMA EngineStep ==
    ASSUME IInv, EngineAction
    PROVE  IInv'
<1>1. TypeOK
  BY DEF IInv
<1>2. /\ UNCHANGED <<l1, l1Final, reorgs, traversal, origin, finalizedHead, finalizedFrom>>
      /\ UNCHANGED <<finalizedL1, triedFinalizeAt, finalityData>>
  BY EngineActionFrame
<1>3. TypeOK'
  <2>1. /\ resets' \in Nat /\ faults' \in Nat /\ stepReq' \in BOOLEAN
        /\ resetting' \in 0..2 /\ attributes' \in L2Block \cup {NoBlock, Refused}
        /\ unsafeHead' \in L2Block \cup {NoBlock} /\ safeHead' \in L2Block
        /\ needFCUCall' \in BOOLEAN /\ labels' \in EngineLabels
    BY <1>1, EngineActionType
  <2> QED BY <1>1, <1>2, <2>1 DEF TypeOK, EngineLabels
<1> QED BY <1>2, <1>3, FinalityUntouched

\* The actions by kind.
LEMMA NextCases ==
    Next <=> \/ \E batch \in BOOLEAN : L1Grow(batch)
             \/ \E h \in 0..MaxL1 : L1Reorg(h)
             \/ \E h \in 1..MaxL1 : Finalize(h)
             \/ EngineAction
             \/ ForceReset \/ Restart \/ ResetEngineQueue \/ ResetStages \/ Signal
             \/ Step("done") \/ Step("reset") \/ Step("temporary")
  BY Zenon DEF Next, SyncStep, FailedStep, EngineAction

\* A step of the pipeline.
LEMMA PipelineStep ==
    ASSUME IInv, NEW result, Step(result)
    PROVE  IInv'
<1> DEFINE fd == PostProcessSafeL2
<1>1. TypeOK /\ SignalFinal /\ FinalizedOnFinalChain
  BY DEF IInv
<1>2. fd \in Seq([l2 : L2Block, l1 : L1Block])
  BY <1>1, PostProcessType
<1>3. /\ finalityData' = fd /\ OnDerivationL1End(fd, result)
      /\ UNCHANGED <<l1Vars, resets, unsafeHead, safeHead, labels, finalizedL1>>
  BY DEF Step
<1> HIDE DEF fd
<1>4. /\ traversal' \in L1Block /\ origin' \in L1Block /\ resetting' \in 0..2
      /\ attributes' \in L2Block \cup {NoBlock, Refused}
      /\ faults' \in Nat /\ stepReq' \in BOOLEAN
  <2>1. CASE MoveOn
    BY <1>1, <2>1, MoveOnType
  <2>2. CASE /\ resetting' = 0 /\ stepReq' = FALSE
             /\ UNCHANGED <<traversal, origin, attributes, faults>>
    <3>1. stepReq' \in BOOLEAN
      BY <2>2, Zenon
    <3> QED BY <1>1, <2>2, <3>1 DEF TypeOK
  <2>3. CASE stepReq' = TRUE /\ UNCHANGED <<pipelineVars, faults>>
    <3>1. stepReq' \in BOOLEAN
      BY <2>3, Zenon
    <3> QED BY <1>1, <2>3, <3>1 DEF TypeOK, pipelineVars
  <2> QED BY <2>1, <2>2, <2>3 DEF Step
<1>5. /\ triedFinalizeAt' \in Nat
      /\ finalizedHead' \in L2Block /\ finalizedFrom' \in L1Block /\ needFCUCall' \in BOOLEAN
      /\ \/ finalizedFrom' = finalizedFrom
         \/ Canonical(finalizedFrom') /\ Height(finalizedFrom') <= Height(finalizedL1)
  <2>1. CASE UNCHANGED <<triedFinalizeAt, finalizedVars, needFCUCall>>
    BY <1>1, <2>1 DEF TypeOK, finalizedVars
  <2>2. CASE triedFinalizeAt' = Height(origin) /\ TryFinalize(fd, finalizedL1, result)
    <3>1. origin \in L1Block /\ finalizedL1 \in L1Block
      BY <1>1 DEF TypeOK
    <3>2. triedFinalizeAt' \in Nat
      BY <2>2, <3>1, HeightType
    <3> QED BY <1>1, <1>2, <2>2, <3>1, <3>2, TryFinalizeStep
  <2> QED BY <1>3, <2>1, <2>2 DEF OnDerivationL1End
<1>6. TypeOK'
  BY <1>1, <1>2, <1>3, <1>4, <1>5 DEF TypeOK, l1Vars
<1>7. SignalFinal'
  BY <1>1, <1>3 DEF SignalFinal, l1Vars
<1>8. FinalizedOnFinalChain'
  <2>1. /\ Height(finalizedL1) \in Nat /\ Height(finalizedFrom') \in Nat
        /\ l1Final \in Nat /\ l1' = l1 /\ l1Final' = l1Final
    BY <1>1, <1>3, <1>5, HeightType DEF TypeOK, l1Vars
  <2>2. Height(finalizedFrom') <= l1Final
    BY <1>1, <1>5, <2>1 DEF FinalizedOnFinalChain, SignalFinal
  <2>3. Height(finalizedFrom') <= Height(l1) /\ L1At(l1, Height(finalizedFrom')) = finalizedFrom'
    BY <1>1, <1>5 DEF FinalizedOnFinalChain, Canonical
  <2> QED BY <2>1, <2>2, <2>3 DEF FinalizedOnFinalChain, Canonical
<1> QED BY <1>6, <1>7, <1>8 DEF IInv

\* So it is an invariant of the specification.
LEMMA NextIInv == IInv /\ [Next]_vars => IInv'
<1> SUFFICES ASSUME IInv, [Next]_vars PROVE IInv'
  OBVIOUS
<1>1. CASE \E batch \in BOOLEAN : L1Grow(batch)
  BY <1>1, L1GrowStep
<1>2. CASE \E h \in 0..MaxL1 : L1Reorg(h)
  BY <1>2, L1ReorgStep
<1>3. CASE \E h \in 1..MaxL1 : Finalize(h)
  BY <1>3, FinalizeStep
<1>4. CASE EngineAction
  BY <1>4, EngineStep
<1>5. CASE ForceReset \/ Restart \/ ResetEngineQueue \/ ResetStages \/ Signal
  BY <1>5, ResetStep
<1>6. CASE Step("done") \/ Step("reset") \/ Step("temporary")
  BY <1>6, PipelineStep
<1>7. CASE UNCHANGED vars
  <2>1. /\ UNCHANGED <<l1, l1Final, reorgs, resets, faults, stepReq>>
        /\ UNCHANGED <<traversal, origin, attributes, resetting>>
        /\ UNCHANGED <<unsafeHead, safeHead, needFCUCall, labels>>
        /\ UNCHANGED <<finalizedHead, finalizedFrom>>
        /\ UNCHANGED <<finalizedL1, triedFinalizeAt, finalityData>>
    BY <1>7 DEF vars, l1Vars, countVars, pipelineVars, engineVars, finalizedVars, finalizerVars
  <2>2. TypeOK'
    BY <2>1 DEF IInv, TypeOK
  <2> QED BY <2>1, <2>2, FinalityUntouched
<1> QED BY <1>1, <1>2, <1>3, <1>4, <1>5, <1>6, <1>7, NextCases

\* The variables of the derivation pipeline, the engine controller and the finalizer
\* keep their types, for all parameters.
THEOREM DerivationTypeCorrect == Spec => []TypeOK
<1>1. IInv => TypeOK
  BY DEF IInv
<1> QED BY InitIInv, NextIInv, <1>1, PTL DEF Spec

\* However L1 is reorganised above its finalized block, and however often the node is
\* reset or restarted, what tryFinalize finalizes an L2 block for is a block of the
\* finalized L1 chain.
THEOREM FinalizedOnFinalChainTheorem == Spec => []FinalizedOnFinalChain
<1>1. IInv => FinalizedOnFinalChain
  BY DEF IInv
<1> QED BY InitIInv, NextIInv, <1>1, PTL DEF Spec

(***************************************************************************)
(* L2 chains.                                                              *)
(***************************************************************************)

\* A whole sequence is its longest prefix.
LEMMA WholePrefix ==
    ASSUME NEW T, NEW s \in Seq(T)
    PROVE  SubSeq(s, 1, Len(s)) = s
  OBVIOUS

\* The ancestor with number n has that number.
LEMMA L2AtNumber ==
    ASSUME NEW B \in L2Block, NEW n \in 0..Number(B)
    PROVE  L2At(B, n) \in L2Block /\ Number(L2At(B, n)) = n
<1>1. B.kinds \in Seq({0, 1}) /\ n \in 0..Len(B.kinds)
  BY NumberType
<1>2. Len(SubSeq(B.kinds, 1, n)) = n
  BY <1>1, PrefixType
<1>3. L2At(B, n) \in L2Block
  BY L2AtType
<1>4. Number(L2At(B, n)) = Len(L2At(B, n).kinds)
  BY <1>3, NumberType
<1> QED BY <1>2, <1>3, <1>4 DEF L2At

\* The ancestors of an ancestor are ancestors.
LEMMA L2AtL2At ==
    ASSUME NEW B \in L2Block, NEW n \in 0..Number(B), NEW k \in 0..n
    PROVE  L2At(L2At(B, n), k) = L2At(B, k)
<1>1. B.org \in L1Block /\ B.kinds \in Seq({0, 1}) /\ n \in 0..Len(B.org) /\ n \in 0..Len(B.kinds)
  BY NumberType
<1>2. SubSeq(SubSeq(B.org, 1, n), 1, k) = SubSeq(B.org, 1, k)
  BY <1>1, PrefixOfPrefix DEF L1Block
<1>3. SubSeq(SubSeq(B.kinds, 1, n), 1, k) = SubSeq(B.kinds, 1, k)
  BY <1>1, PrefixOfPrefix
<1> QED BY <1>2, <1>3 DEF L2At

\* So it is an ancestor.
LEMMA L2AtIsAncestor ==
    ASSUME NEW B \in L2Block, NEW n \in 0..Number(B)
    PROVE  IsAncestor(L2At(B, n), B)
  BY L2AtNumber, NumberType DEF IsAncestor

\* IsAncestor is a partial order on L2 blocks.
LEMMA AncestorReflexive ==
    ASSUME NEW B \in L2Block
    PROVE  IsAncestor(B, B)
<1>1. /\ Number(B) = Len(B.org) /\ Number(B) = Len(B.kinds) /\ Number(B) \in Nat
      /\ B.org \in L1Block /\ B.kinds \in Seq({0, 1})
  BY NumberType
<1>2. SubSeq(B.org, 1, Number(B)) = B.org /\ SubSeq(B.kinds, 1, Number(B)) = B.kinds
  BY <1>1, WholePrefix DEF L1Block
<1>3. B = [org |-> B.org, kinds |-> B.kinds]
  BY DEF L2Block
<1>4. L2At(B, Number(B)) = B
  BY <1>2, <1>3, Zenon DEF L2At
<1>5. Number(B) <= Number(B)
  BY <1>1
<1> QED BY <1>4, <1>5, Zenon DEF IsAncestor

\* And it is transitive.
LEMMA AncestorTransitive ==
    ASSUME NEW A \in L2Block, NEW B \in L2Block, NEW D \in L2Block,
           IsAncestor(A, B), IsAncestor(B, D)
    PROVE  IsAncestor(A, D)
<1>1. Number(A) \in Nat /\ Number(B) \in Nat /\ Number(D) \in Nat
  BY NumberType
<1>2. /\ Number(A) <= Number(B) /\ L2At(B, Number(A)) = A
      /\ Number(B) <= Number(D) /\ L2At(D, Number(B)) = B
  BY DEF IsAncestor
<1>3. L2At(L2At(D, Number(B)), Number(A)) = L2At(D, Number(A))
  BY <1>1, <1>2, L2AtL2At
<1>4. L2At(D, Number(A)) = A
  BY <1>2, <1>3, Zenon
<1>5. Number(A) <= Number(D)
  BY <1>1, <1>2
<1> QED BY <1>4, <1>5 DEF IsAncestor

\* Of two ancestors of a block, the lower one is an ancestor of the higher one.
LEMMA AncestorsComparable ==
    ASSUME NEW A \in L2Block, NEW B \in L2Block, NEW D \in L2Block,
           IsAncestor(A, D), IsAncestor(B, D), Number(A) <= Number(B)
    PROVE  IsAncestor(A, B)
<1>1. Number(A) \in Nat /\ Number(B) \in Nat /\ Number(D) \in Nat
  BY NumberType
<1>2. /\ L2At(D, Number(A)) = A
      /\ Number(B) <= Number(D) /\ L2At(D, Number(B)) = B
  BY DEF IsAncestor
<1>3. L2At(L2At(D, Number(B)), Number(A)) = L2At(D, Number(A))
  BY <1>1, <1>2, L2AtL2At
<1> QED BY <1>1, <1>2, <1>3 DEF IsAncestor

\* Two blocks with one number that are ancestors of each other are the same.
LEMMA AncestorSameNumber ==
    ASSUME NEW A \in L2Block, NEW B \in L2Block, IsAncestor(A, B), Number(B) <= Number(A)
    PROVE  A = B
<1>1. Number(A) = Number(B) /\ L2At(B, Number(B)) = A
  BY NumberType DEF IsAncestor
<1>2. L2At(B, Number(B)) = B
  BY AncestorReflexive DEF IsAncestor
<1> QED BY <1>1, <1>2

\* The parent of a child is an ancestor of it, if the origins are on one L1 chain.
LEMMA ChildOnParent ==
    ASSUME NEW S \in L2Block, NEW t \in L1Block, Height(t) > Number(S), NEW k \in {0, 1},
           L1At(t, Number(S)) = S.org
    PROVE  /\ Child(S, t, k) \in L2Block /\ Number(Child(S, t, k)) = Number(S) + 1
           /\ IsAncestor(S, Child(S, t, k))
           /\ Child(S, t, k).org = L1At(t, Number(S) + 1)
<1> DEFINE C == Child(S, t, k)
           n == Number(S)
<1>1. C \in L2Block
  BY ChildType
<1>2. C.kinds = Append(S.kinds, k) /\ C.org = L1At(t, n + 1)
  BY DEF Child
<1>3. /\ n \in Nat /\ n = Len(S.kinds) /\ n = Len(S.org) /\ S.kinds \in Seq({0, 1})
      /\ n + 1 \in 0..Len(t) /\ S.org \in L1Block
  BY NumberType, HeightType DEF Height
<1>4. Number(C) = n + 1
  BY <1>1, <1>2, <1>3, NumberType
<1>5. SubSeq(C.kinds, 1, n) = S.kinds
  <2>1. SubSeq(Append(S.kinds, k), 1, Len(S.kinds)) = SubSeq(S.kinds, 1, Len(S.kinds))
    BY <1>3, PrefixOfAppend, Len(S.kinds) \in 0..Len(S.kinds)
  <2>2. SubSeq(S.kinds, 1, Len(S.kinds)) = S.kinds
    BY <1>3, WholePrefix
  <2> QED BY <1>2, <1>3, <2>1, <2>2
<1>6. SubSeq(C.org, 1, n) = S.org
  BY <1>2, <1>3, PrefixOfPrefix DEF L1At, L1Block
<1>7. S = [org |-> S.org, kinds |-> S.kinds]
  BY DEF L2Block
<1> HIDE DEF C, n
<1>8. L2At(C, n) = S
  BY <1>5, <1>6, <1>7, Zenon DEF L2At
<1> QED BY <1>1, <1>2, <1>3, <1>4, <1>8 DEF IsAncestor, C, n

(***************************************************************************)
(* The canonical L1 chain.                                                 *)
(***************************************************************************)

\* The block of the chain of b at the height of an ancestor of L2 block B.
LEMMA OriginOfAncestor ==
    ASSUME NEW A \in L2Block, NEW B \in L2Block, IsAncestor(A, B)
    PROVE  A.org = L1At(B.org, Number(A)) /\ Height(A.org) = Number(A)
           /\ Number(A) <= Height(B.org)
  BY NumberType DEF IsAncestor, L2At, L1At, Height

\* The L1 blocks below a canonical block are canonical.
LEMMA CanonicalBelow ==
    ASSUME l1 \in L1Block, NEW b \in L1Block, Canonical(b), NEW h \in 0..Height(b)
    PROVE  L1At(b, h) = L1At(l1, h) /\ Canonical(L1At(b, h))
<1>1. Height(b) \in 0..Len(l1) /\ SubSeq(l1, 1, Height(b)) = b
  BY HeightType DEF Canonical, Height, L1At
<1>2. L1At(b, h) = L1At(l1, h)
  BY <1>1, PrefixOfPrefix DEF L1Block, L1At
<1>3. Height(L1At(b, h)) = h
  BY L1AtType
<1> QED BY <1>1, <1>2, <1>3 DEF Canonical, Height

\* The origins of the ancestors of a block with a canonical origin are canonical.
LEMMA CanonicalAncestor ==
    ASSUME l1 \in L1Block, NEW A \in L2Block, NEW B \in L2Block, IsAncestor(A, B),
           Canonical(B.org)
    PROVE  Canonical(A.org)
<1>1. A.org = L1At(B.org, Number(A)) /\ Number(A) \in 0..Height(B.org) /\ B.org \in L1Block
  BY OriginOfAncestor, NumberType
<1> QED BY <1>1, CanonicalBelow

(***************************************************************************)
(* What orders the heads.                                                  *)
(***************************************************************************)

\* B is A or a child of A.
IsOrChild(A, B) == IsAncestor(A, B) /\ Number(B) <= Number(A) + 1

\* The attributes to process are for the child of the safe head, and the pipeline has
\* read L1 up to their origin.
AttributesOnTop ==
    attributes \notin {NoBlock, Refused} =>
        /\ Number(attributes) = Number(safeHead) + 1 /\ IsAncestor(safeHead, attributes)
        /\ Number(attributes) <= Height(origin)
        /\ L1At(origin, Number(attributes)) = attributes.org

\* The finality data is about ancestors of the safe head.
DataBelowSafe ==
    \A i \in DOMAIN finalityData : IsAncestor(finalityData[i].l2, safeHead)

\* Without an unsafe head nothing is above the finalized head, and the pipeline has not
\* read L1 beyond the origin of that.
NothingUnsafe ==
    unsafeHead = NoBlock =>
        /\ Height(origin) <= Number(safeHead)
        /\ finalizedHead = safeHead /\ labels.finalized = safeHead

\* Once it was told, the engine knows the finalized head, and the safe one or the block
\* that was forced on it; its own blocks are on one chain, or its safe block is a child of
\* a block of the chain of its head.
LabelsFollow ==
    /\ ~needFCUCall => labels.finalized = finalizedHead
    /\ ~needFCUCall /\ unsafeHead # NoBlock => IsOrChild(safeHead, labels.safe)
    /\ IsAncestor(labels.finalized, labels.safe) /\ IsAncestor(labels.finalized, labels.unsafe)
    /\ \E P \in L2Block : IsOrChild(P, labels.safe) /\ IsAncestor(P, labels.unsafe)

\* A safe head that is not on the unsafe chain is the child of a block of that, and what
\* is or may be finalized is not above that block.
Fork(P) ==
    /\ IsOrChild(P, safeHead) /\ IsOrChild(P, labels.safe) /\ IsAncestor(P, unsafeHead)
    /\ IsAncestor(finalizedHead, P)
    /\ \A i \in DOMAIN finalityData : IsAncestor(finalityData[i].l2, P)
ForkAtParent == unsafeHead # NoBlock /\ ~Consistent => \E P \in L2Block : Fork(P)

\* SafeOnPipelineChain, as soon as EngineQueue is reset.
SafeRead ==
    resetting # 0 /\ Number(safeHead) <= Height(origin)
    => L1At(origin, Number(safeHead)) = safeHead.org

HeadsInv ==
    /\ HeadsOrdered /\ FinalityWindow
    /\ AttributesOnTop /\ DataBelowSafe /\ NothingUnsafe /\ LabelsFollow /\ SafeRead
    /\ ForkAtParent

\* What PostProcessSafeL2 makes of the data: the first entry may go and one for the safe
\* head and the origin comes last, or the last entry is updated.
LEMMA PostProcessShape ==
    ASSUME TypeOK, NEW fd, fd = PostProcessSafeL2, NEW old, old = finalityData
    PROVE  \/ /\ NewL1(old, origin)
              /\ \E skip \in {0, 1} :
                    /\ skip <= Len(old) /\ Len(fd) = Len(old) - skip + 1
                    /\ Len(old) >= FinalityLookback => skip = 1
                    /\ \A i \in 1..(Len(old) - skip) : fd[i] = old[i + skip]
                    /\ fd[Len(fd)] = Entry(safeHead, origin)
           \/ /\ ~NewL1(old, origin)
              /\ Len(fd) = Len(old) /\ Len(old) > 0
              /\ \A i \in 1..(Len(old) - 1) : fd[i] = old[i]
              /\ fd[Len(fd)] = Entry(safeHead, old[Len(old)].l1)
<1> DEFINE T == [l2 : L2Block, l1 : L1Block]
<1>1. old \in Seq(T) /\ Entry(safeHead, origin) \in T /\ FinalityLookback \in Nat \ {0}
  BY ParametersAssumption DEF TypeOK, Entry
<1>2. CASE NewL1(old, origin)
  <2> DEFINE e == Entry(safeHead, origin)
  <2>1. fd = Append(Pruned(old), e)
    BY <1>2 DEF PostProcessSafeL2
  <2> HIDE DEF T, e
  <2>2. CASE Len(old) >= FinalityLookback
    <3>1. Len(old) >= 1
      BY <1>1, <2>2
    <3>2. fd = Append(Tail(old), e)
      BY <2>1, <2>2 DEF Pruned
    <3>3. /\ Len(fd) = Len(old) - 1 + 1 /\ fd[Len(fd)] = e
          /\ \A i \in 1..(Len(old) - 1) : fd[i] = old[i + 1]
      BY <1>1, <3>1, <3>2
    <3> QED BY <1>2, <3>1, <3>3 DEF e
  <2>3. CASE ~(Len(old) >= FinalityLookback)
    <3>1. fd = Append(old, e)
      BY <2>1, <2>3 DEF Pruned
    <3>2. /\ Len(fd) = Len(old) - 0 + 1 /\ fd[Len(fd)] = e /\ 0 <= Len(old)
          /\ \A i \in 1..(Len(old) - 0) : fd[i] = old[i + 0]
      BY <1>1, <3>1
    <3> QED BY <1>2, <2>3, <3>2 DEF e
  <2> QED BY <2>2, <2>3
<1>3. CASE ~NewL1(old, origin)
  <2>0. old # <<>>
    BY <1>3 DEF NewL1
  <2>1. Len(old) > 0 /\ Len(old) \in DOMAIN old /\ old[Len(old)] \in T
    <3> HIDE DEF T
    <3>1. Len(old) > 0 /\ Len(old) \in DOMAIN old
      BY <1>1, <2>0
    <3>2. old[Len(old)] \in T
      BY <1>1, <2>0, LastType
    <3> QED BY <3>1, <3>2
  <2>2. [old[Len(old)] EXCEPT !.l2 = safeHead] = Entry(safeHead, old[Len(old)].l1)
    BY <1>1, <2>1 DEF Entry
  <2>3. fd = [old EXCEPT ![Len(old)] = Entry(safeHead, old[Len(old)].l1)]
    BY <1>3, <2>2 DEF PostProcessSafeL2
  <2> QED BY <1>1, <1>3, <2>1, <2>3
<1> QED BY <1>2, <1>3

\* PostProcessSafeL2 keeps the finality data a window.
LEMMA PostProcessWindow ==
    ASSUME TypeOK, FinalityWindow, DataBelowSafe, finalityData' = PostProcessSafeL2,
           UNCHANGED safeHead
    PROVE  FinalityWindow' /\ DataBelowSafe'
<1> DEFINE fd == PostProcessSafeL2
           old == finalityData
           T == [l2 : L2Block, l1 : L1Block]
<1>1. fd \in Seq(T) /\ old \in Seq(T) /\ safeHead \in L2Block /\ origin \in L1Block
  BY PostProcessType DEF TypeOK
<1>2. /\ \A i \in DOMAIN fd : fd[i].l2 \in L2Block /\ Height(fd[i].l1) \in Nat
      /\ \A i \in DOMAIN old : old[i].l2 \in L2Block /\ Height(old[i].l1) \in Nat
  <2> HIDE DEF fd, old, T
  <2>1. \A i \in DOMAIN fd : fd[i] \in T
    BY <1>1, ElementType
  <2>2. \A i \in DOMAIN old : old[i] \in T
    BY <1>1, ElementType
  <2> QED BY <2>1, <2>2, HeightType DEF T
<1>3. Height(origin) \in Nat /\ FinalityLookback \in Nat \ {0} /\ IsAncestor(safeHead, safeHead)
  BY <1>1, HeightType, AncestorReflexive, ParametersAssumption
<1>4. /\ Len(old) <= FinalityLookback
      /\ \A i, j \in DOMAIN old : i < j =>
            Height(old[i].l1) < Height(old[j].l1) /\ IsAncestor(old[i].l2, old[j].l2)
      /\ \A i \in DOMAIN old : IsAncestor(old[i].l2, safeHead)
  BY DEF FinalityWindow, DataBelowSafe
<1> DEFINE Window(f) ==
      /\ Len(f) <= FinalityLookback
      /\ \A i, j \in DOMAIN f : i < j =>
            Height(f[i].l1) < Height(f[j].l1) /\ IsAncestor(f[i].l2, f[j].l2)
      /\ \A i \in DOMAIN f : IsAncestor(f[i].l2, safeHead)
<1> SUFFICES Window(fd)
  BY DEF FinalityWindow, DataBelowSafe
<1>5. CASE NewL1(old, origin)
  <2>1. PICK skip \in {0, 1} :
            /\ skip <= Len(old) /\ Len(fd) = Len(old) - skip + 1
            /\ Len(old) >= FinalityLookback => skip = 1
            /\ \A i \in 1..(Len(old) - skip) : fd[i] = old[i + skip]
            /\ fd[Len(fd)] = Entry(safeHead, origin)
    BY <1>5, PostProcessShape
  <2> HIDE DEF fd, old, T
  <2>2. DOMAIN fd = 1..Len(fd) /\ DOMAIN old = 1..Len(old) /\ Len(old) \in Nat /\ Len(fd) \in Nat
    BY <1>1
  <2>3. \A i \in 1..Len(old) : Height(old[i].l1) < Height(origin)
    <3>1. CASE old = <<>>
      BY <3>1
    <3>2. CASE old # <<>>
      <4>1. Len(old) \in 1..Len(old) /\ Height(old[Len(old)].l1) < Height(origin)
        BY <1>1, <1>5, <2>2, <3>2 DEF NewL1
      <4> QED BY <1>2, <1>3, <1>4, <2>2, <4>1
    <3> QED BY <3>1, <3>2
  <2>4. fd[Len(fd)].l2 = safeHead /\ fd[Len(fd)].l1 = origin
    BY <2>1 DEF Entry
  <2>5. Len(fd) <= FinalityLookback
    BY <1>3, <1>4, <2>1, <2>2
  <2>6. ASSUME NEW i \in DOMAIN fd, NEW j \in DOMAIN fd, i < j
        PROVE  Height(fd[i].l1) < Height(fd[j].l1) /\ IsAncestor(fd[i].l2, fd[j].l2)
    <3>1. i \in 1..(Len(old) - skip) /\ i + skip \in DOMAIN old /\ fd[i] = old[i + skip]
      <4>1. i \in Nat /\ j \in Nat /\ 1 <= i /\ i < j /\ j <= Len(fd)
        BY <2>2, <2>6
      <4>2. i \in 1..(Len(old) - skip) /\ i + skip \in 1..Len(old)
        BY <2>1, <2>2, <4>1
      <4> QED BY <2>1, <2>2, <4>2
    <3>2. CASE j = Len(fd)
      BY <1>4, <2>2, <2>3, <2>4, <3>1, <3>2
    <3>3. CASE j # Len(fd)
      <4>1. j + skip \in DOMAIN old /\ fd[j] = old[j + skip] /\ i + skip < j + skip
        BY <2>1, <2>2, <2>6, <3>3
      <4> QED BY <1>4, <3>1, <4>1
    <3> QED BY <3>2, <3>3
  <2>7. ASSUME NEW i \in DOMAIN fd
        PROVE  IsAncestor(fd[i].l2, safeHead)
    <3>1. CASE i = Len(fd)
      BY <1>3, <2>4, <3>1
    <3>2. CASE i # Len(fd)
      <4>1. i \in Nat /\ 1 <= i /\ i < Len(fd)
        BY <2>2, <2>7, <3>2
      <4>2. i \in 1..(Len(old) - skip) /\ i + skip \in 1..Len(old)
        BY <2>1, <2>2, <4>1
      <4>3. i + skip \in DOMAIN old /\ fd[i] = old[i + skip]
        BY <2>1, <2>2, <4>2
      <4> QED BY <1>4, <4>3
    <3> QED BY <3>1, <3>2
  <2> QED BY <2>5, <2>6, <2>7
<1>6. CASE ~NewL1(old, origin)
  <2>1. /\ Len(fd) = Len(old) /\ Len(old) > 0
        /\ \A i \in 1..(Len(old) - 1) : fd[i] = old[i]
        /\ fd[Len(fd)] = Entry(safeHead, old[Len(old)].l1)
    BY <1>6, PostProcessShape
  <2> HIDE DEF fd, old, T
  <2>2. DOMAIN fd = 1..Len(fd) /\ DOMAIN old = 1..Len(old) /\ Len(old) \in Nat
    BY <1>1
  <2>3. fd[Len(fd)].l2 = safeHead /\ fd[Len(fd)].l1 = old[Len(fd)].l1
    BY <2>1 DEF Entry
  <2>4. \A i \in DOMAIN fd : fd[i].l1 = old[i].l1 /\ IsAncestor(fd[i].l2, safeHead)
    BY <1>3, <1>4, <2>1, <2>2, <2>3
  <2>5. ASSUME NEW i \in DOMAIN fd, NEW j \in DOMAIN fd, i < j
        PROVE  Height(fd[i].l1) < Height(fd[j].l1) /\ IsAncestor(fd[i].l2, fd[j].l2)
    <3>1. i \in DOMAIN old /\ j \in DOMAIN old /\ fd[i] = old[i]
      BY <2>1, <2>2, <2>5
    <3>2. CASE j = Len(fd)
      BY <1>4, <2>3, <2>4, <2>5, <3>1, <3>2
    <3>3. CASE j # Len(fd)
      BY <1>4, <2>1, <2>2, <2>5, <3>1, <3>3
    <3> QED BY <3>2, <3>3
  <2> QED BY <1>4, <2>1, <2>4, <2>5
<1> QED BY <1>5, <1>6

\* tryFinalize moves the finalized head up the safe chain, if it moves it.
LEMMA TryFinalizeAdvances ==
    ASSUME TypeOK, NEW fd \in Seq([l2 : L2Block, l1 : L1Block]), NEW b, NEW result,
           \A i \in DOMAIN fd : IsAncestor(fd[i].l2, safeHead),
           IsAncestor(finalizedHead, safeHead), TryFinalize(fd, b, result)
    PROVE  /\ IsAncestor(finalizedHead, finalizedHead') /\ IsAncestor(finalizedHead', safeHead)
           /\ \/ UNCHANGED <<finalizedHead, finalizedFrom, needFCUCall>>
              \/ /\ Number(finalizedHead) < Number(finalizedHead') /\ needFCUCall' = TRUE
                 /\ \E i \in DOMAIN fd : finalizedHead' = fd[i].l2 /\ finalizedFrom' = fd[i].l1
<1>1. finalizedHead \in L2Block /\ safeHead \in L2Block /\ IsAncestor(finalizedHead, finalizedHead)
  BY AncestorReflexive DEF TypeOK
<1>2. \/ UNCHANGED <<finalizedHead, finalizedFrom, needFCUCall>>
      \/ \E i \in DOMAIN fd :
            /\ LastFinalizable(i, fd, b)
            /\ finalizedHead' = fd[i].l2 /\ finalizedFrom' = fd[i].l1 /\ needFCUCall' = TRUE
  BY Zenon DEF TryFinalize, finalizedVars
<1>3. CASE UNCHANGED <<finalizedHead, finalizedFrom, needFCUCall>>
  BY <1>1, <1>3
<1>4. ASSUME NEW i \in DOMAIN fd, LastFinalizable(i, fd, b),
             finalizedHead' = fd[i].l2, finalizedFrom' = fd[i].l1, needFCUCall' = TRUE
      PROVE  /\ IsAncestor(finalizedHead, finalizedHead') /\ IsAncestor(finalizedHead', safeHead)
             /\ Number(finalizedHead) < Number(finalizedHead')
  <2>1. fd[i] \in [l2 : L2Block, l1 : L1Block]
    BY ElementType
  <2>2. fd[i].l2 \in L2Block /\ Number(fd[i].l2) > Number(finalizedHead)
    BY <1>4, <2>1 DEF LastFinalizable, Finalizable
  <2>3. Number(finalizedHead) \in Nat /\ Number(fd[i].l2) \in Nat
    BY <1>1, <2>2, NumberType
  <2>4. IsAncestor(fd[i].l2, safeHead)
    OBVIOUS
  <2>5. Number(finalizedHead) <= Number(fd[i].l2)
    BY <2>2, <2>3
  <2>6. IsAncestor(finalizedHead, fd[i].l2)
    BY <1>1, <2>2, <2>4, <2>5, AncestorsComparable
  <2> QED BY <1>4, <2>2, <2>3, <2>4, <2>6
<1> QED BY <1>2, <1>3, <1>4

(***************************************************************************)
(* FindL2Heads and EngineQueue.Reset.                                      *)
(***************************************************************************)

\* A block of the chain of u below a canonical origin does not conflict.
LEMMA CanonicalOnChain ==
    ASSUME l1 \in L1Block, NEW u \in L2Block, NEW m \in 0..Number(u), NEW n \in 0..m,
           Canonical(L2At(u, m).org)
    PROVE  Canonical(L2At(u, n).org)
<1>1. Number(u) \in Nat
  BY NumberType
<1>2. n \in 0..Number(u) /\ L2At(u, m) \in L2Block /\ Number(L2At(u, m)) = m
  BY <1>1, L2AtNumber
<1>3. L2At(u, n) \in L2Block /\ Number(L2At(u, n)) = n
  BY <1>2, L2AtNumber
<1>4. L2At(L2At(u, m), n) = L2At(u, n)
  BY L2AtL2At
<1>5. IsAncestor(L2At(u, n), L2At(u, m))
  BY <1>2, <1>3, <1>4 DEF IsAncestor
<1> QED BY <1>2, <1>3, <1>5, CanonicalAncestor

\* The safe block found is the finalized one, or the parent of a safe block that canonical
\* origins for more than a sequencing window follow.
LEMMA FoundSafeShape ==
    ASSUME NEW u \in L2Block, NEW s \in L2Block, NEW f \in L2Block, IsAncestor(f, u),
           NEW S, FoundSafe(S, u, s, f)
    PROVE  /\ S \in L2Block /\ IsAncestor(S, u) /\ IsAncestor(f, S)
           /\ \/ S = f
              \/ /\ Number(S) < Number(s)
                 /\ \E m \in (Number(S) + SeqWindowSize + 2)..Number(u) :
                       Canonical(L2At(u, m).org)
<1> DEFINE N == {n \in (Number(f) + 1)..Number(u) : OldEnough(n, u, s)}
<1>1. Number(f) \in Nat /\ Number(u) \in Nat /\ Number(s) \in Nat /\ Number(f) <= Number(u)
      /\ SeqWindowSize \in Nat
  BY NumberType, ParametersAssumption DEF IsAncestor
<1>2. CASE S = f
  BY <1>2, AncestorReflexive
<1>3. CASE \E n \in N : S = L2At(u, n - 1)
  <2>1. PICK n \in N : S = L2At(u, n - 1)
    BY <1>3
  <2>2. n \in (Number(f) + 1)..Number(u) /\ OldEnough(n, u, s)
    BY <2>1
  <2>3. n - 1 \in 0..Number(u) /\ Number(f) <= n - 1
    BY <1>1, <2>2
  <2>4. S \in L2Block /\ Number(S) = n - 1 /\ IsAncestor(S, u)
    BY <2>1, <2>3, L2AtNumber, L2AtIsAncestor
  <2>5. Number(f) <= Number(S)
    BY <2>3, <2>4
  <2>6. IsAncestor(f, S)
    BY <2>4, <2>5, AncestorsComparable
  <2>7. n <= Number(s) /\ \E m \in (n + SeqWindowSize + 1)..Number(u) : Canonical(L2At(u, m).org)
    BY <2>2 DEF OldEnough
  <2>8. n + SeqWindowSize + 1 = Number(S) + SeqWindowSize + 2 /\ Number(S) < Number(s)
    BY <1>1, <2>2, <2>4, <2>7
  <2> QED BY <2>4, <2>6, <2>7, <2>8
<1> QED BY <1>2, <1>3 DEF FoundSafe

\* The heads found are ordered; no unsafe block is left only if the finalized one is
\* given up, and then that is the safe block found.
LEMMA FoundInOrder ==
    ASSUME l1 \in L1Block, NEW u \in L2Block, NEW s \in L2Block, NEW f \in L2Block,
           IsAncestor(f, u), NEW B, FoundUnsafe(B, u, f), NEW S, FoundSafe(S, u, s, f)
    PROVE  /\ B = NoBlock => S = f
           /\ B # NoBlock => B \in L2Block /\ IsAncestor(S, B)
<1>1. /\ S \in L2Block /\ IsAncestor(S, u) /\ IsAncestor(f, S)
      /\ \/ S = f
         \/ \E m \in (Number(S) + SeqWindowSize + 2)..Number(u) : Canonical(L2At(u, m).org)
  BY FoundSafeShape
<1>2. /\ Number(f) \in Nat /\ Number(u) \in Nat /\ Number(S) \in Nat /\ Number(f) <= Number(u)
      /\ Number(f) <= Number(S) /\ SeqWindowSize \in Nat
  BY <1>1, NumberType, ParametersAssumption DEF IsAncestor
<1>3. ASSUME NEW n \in Conflicting(u, f), S # f
      PROVE  Number(S) < n - 1
  <2>1. PICK m \in (Number(S) + SeqWindowSize + 2)..Number(u) : Canonical(L2At(u, m).org)
    BY <1>1, <1>3
  <2>2. n \in Number(f)..Number(u) /\ ~Canonical(L2At(u, n).org)
    BY DEF Conflicting
  <2>3. m \in 0..Number(u) /\ n \in Nat
    BY <1>2, <2>2
  <2>4. ~(n <= m)
    BY <2>1, <2>2, <2>3, CanonicalOnChain
  <2> QED BY <1>2, <2>1, <2>2, <2>3, <2>4
<1>4. CASE B = u
  BY <1>1, <1>4, NumberType
<1>5. CASE Number(f) \in Conflicting(u, f) /\ B = NoBlock
  <2>1. S # f => Number(S) < Number(f) - 1
    BY <1>3, <1>5
  <2> QED BY <1>2, <1>5, <2>1
<1>6. CASE \E n \in Conflicting(u, f) : n > Number(f) /\ B = L2At(u, n - 1)
  <2>1. PICK n \in Conflicting(u, f) : n > Number(f) /\ B = L2At(u, n - 1)
    BY <1>6
  <2>2. n \in Number(f)..Number(u)
    BY DEF Conflicting
  <2>3. n - 1 \in 0..Number(u)
    BY <1>2, <2>1, <2>2
  <2>4. B \in L2Block /\ Number(B) = n - 1 /\ IsAncestor(B, u)
    BY <2>1, <2>3, L2AtNumber, L2AtIsAncestor
  <2>5. Number(S) <= Number(B)
    BY <1>2, <1>3, <2>1, <2>2, <2>4
  <2> QED BY <1>1, <2>4, <2>5, AncestorsComparable, NumberType
<1> QED BY <1>4, <1>5, <1>6 DEF FoundUnsafe

\* The L1 block to restart from is on the chain of the safe block found, not above it.
LEMMA PipelineOriginBelow ==
    ASSUME NEW S \in L2Block
    PROVE  /\ Height(PipelineOrigin(S)) <= Number(S)
           /\ Number(S) <= Height(PipelineOrigin(S)) => L1At(PipelineOrigin(S), Number(S)) = S.org
           /\ \E k \in 0..Height(S.org) : PipelineOrigin(S) = L1At(S.org, k)
<1> DEFINE k == IF Number(S) > ChannelTimeout THEN Number(S) - ChannelTimeout ELSE 0
<1>1. S.org \in L1Block /\ Number(S) \in Nat /\ Height(S.org) = Number(S)
  BY NumberType DEF Height
<1>2. k \in 0..Height(S.org) /\ k <= Number(S)
  BY <1>1, ParametersAssumption
<1>3. PipelineOrigin(S) = L1At(S.org, k)
  BY DEF PipelineOrigin
<1> HIDE DEF k
<1>4. Height(PipelineOrigin(S)) = k
  BY <1>1, <1>2, <1>3, L1AtType
<1>5. ASSUME Number(S) <= k
      PROVE  L1At(PipelineOrigin(S), Number(S)) = S.org
  <2>1. k = Number(S)
    BY <1>1, <1>2, <1>5
  <2>2. L1At(S.org, Number(S)) = S.org
    BY <1>1, WholePrefix DEF L1At, L1Block, Height
  <2> QED BY <1>3, <2>1, <2>2
<1> QED BY <1>2, <1>3, <1>4, <1>5

\* What EngineQueue.Reset does to the heads.
LEMMA ResetHeadsResult ==
    ASSUME TypeOK, ResetHeads
    PROVE  /\ safeHead' \in L2Block /\ origin' = PipelineOrigin(safeHead')
           /\ finalizedHead' = labels.finalized
           /\ FoundSafe(safeHead', labels.unsafe, labels.safe, labels.finalized)
           /\ FoundUnsafe(unsafeHead', labels.unsafe, labels.finalized)
           /\ IsAncestor(labels.finalized, safeHead')
<1>1. /\ labels.unsafe \in L2Block /\ labels.safe \in L2Block /\ labels.finalized \in L2Block
      /\ IsAncestor(labels.finalized, labels.unsafe)
  BY DEF TypeOK, ResetHeads
<1>2. PICK S \in ChainOf(labels.unsafe) :
        /\ FoundSafe(S, labels.unsafe, labels.safe, labels.finalized)
        /\ safeHead' = S /\ origin' = PipelineOrigin(S)
        /\ finalizedHead' = IF Number(labels.finalized) > Number(S) THEN S
                            ELSE labels.finalized
  BY DEF ResetHeads
<1>3. S \in L2Block /\ IsAncestor(labels.finalized, S)
  BY <1>1, <1>2, FoundSafeShape
<1>4. ~(Number(labels.finalized) > Number(S))
  BY <1>1, <1>3, NumberType DEF IsAncestor
<1>5. FoundUnsafe(unsafeHead', labels.unsafe, labels.finalized)
  BY DEF ResetHeads
<1> QED BY <1>2, <1>3, <1>4, <1>5

\* A reset leaves the heads in order, whatever they were before.
LEMMA ResetHeadsInOrder ==
    ASSUME TypeOK, LabelsFollow, ResetHeads, UNCHANGED labels
    PROVE  HeadsInv'
<1>1. /\ labels.unsafe \in L2Block /\ labels.safe \in L2Block /\ labels.finalized \in L2Block
      /\ IsAncestor(labels.finalized, labels.unsafe) /\ l1 \in L1Block
  BY DEF TypeOK, ResetHeads
<1>2. /\ safeHead' \in L2Block /\ origin' = PipelineOrigin(safeHead')
      /\ finalizedHead' = labels.finalized
      /\ FoundSafe(safeHead', labels.unsafe, labels.safe, labels.finalized)
      /\ FoundUnsafe(unsafeHead', labels.unsafe, labels.finalized)
      /\ IsAncestor(labels.finalized, safeHead')
  BY ResetHeadsResult
<1>3. /\ unsafeHead' = NoBlock => safeHead' = labels.finalized
      /\ unsafeHead' # NoBlock => IsAncestor(safeHead', unsafeHead')
  BY <1>1, <1>2, FoundInOrder
<1>4. /\ attributes' = NoBlock /\ finalityData' = <<>> /\ needFCUCall' = TRUE
  BY DEF ResetHeads, ResetData
<1>5. HeadsOrdered' /\ ForkAtParent'
  BY <1>2, <1>3, <1>4 DEF HeadsOrdered, Consistent, ForkAtParent, IsAncestor
<1>6. FinalityWindow' /\ DataBelowSafe'
  <2>1. Len(<<>>) <= FinalityLookback /\ DOMAIN <<>> = {}
    BY ParametersAssumption
  <2> QED BY <1>4, <2>1, Zenon DEF FinalityWindow, DataBelowSafe
<1>7. AttributesOnTop' /\ LabelsFollow'
  BY <1>4 DEF AttributesOnTop, LabelsFollow
<1>8. NothingUnsafe' /\ SafeRead'
  BY <1>2, <1>3, PipelineOriginBelow DEF NothingUnsafe, SafeRead
<1> QED BY <1>5, <1>6, <1>7, <1>8 DEF HeadsInv

(***************************************************************************)
(* The order of the heads is kept by each step.                            *)
(***************************************************************************)

\* A step that leaves the node alone.
LEMMA HeadsUntouched ==
    ASSUME HeadsInv, UNCHANGED <<origin, attributes, unsafeHead, safeHead, finalizedHead,
                                 needFCUCall, labels, finalityData>>,
           resetting' = resetting \/ resetting' = 0 \/ resetting # 0
    PROVE  HeadsInv'
  BY DEF HeadsInv, HeadsOrdered, FinalityWindow, AttributesOnTop, DataBelowSafe,
         NothingUnsafe, LabelsFollow, SafeRead, Consistent, ForkAtParent, Fork

\* The finalized head moves up to an ancestor of the safe head, as tryFinalize does.
LEMMA FinalizedHeadStep ==
    ASSUME TypeOK, HeadsInv, IsAncestor(finalizedHead', safeHead),
           \/ UNCHANGED <<finalizedHead, needFCUCall>>
           \/ Number(finalizedHead) < Number(finalizedHead') /\ needFCUCall' = TRUE,
           finalizedHead' \in L2Block, UNCHANGED <<unsafeHead, safeHead, labels>>
    PROVE  /\ IsAncestor(finalizedHead', safeHead')
           /\ unsafeHead = NoBlock => UNCHANGED <<finalizedHead, needFCUCall>>
           /\ LabelsFollow'
<1>1. /\ finalizedHead \in L2Block /\ safeHead \in L2Block
      /\ Number(finalizedHead) \in Nat /\ Number(finalizedHead') \in Nat /\ Number(safeHead) \in Nat
  BY NumberType DEF TypeOK
<1>2. Number(finalizedHead') <= Number(safeHead)
  BY DEF IsAncestor
<1>3. unsafeHead = NoBlock => finalizedHead = safeHead
  BY DEF HeadsInv, NothingUnsafe
<1>4. unsafeHead = NoBlock => UNCHANGED <<finalizedHead, needFCUCall>>
  BY <1>1, <1>2, <1>3
<1>5. LabelsFollow'
  BY DEF HeadsInv, LabelsFollow
<1> QED BY <1>4, <1>5

\* A finality signal moves the finalized head up the safe chain.
LEMMA FinalizeHeads ==
    ASSUME IInv, TypeOK', HeadsInv, NEW h \in 1..MaxL1, Finalize(h)
    PROVE  HeadsInv' /\ IsAncestor(finalizedHead, finalizedHead')
<1>1. TypeOK /\ finalityData \in Seq([l2 : L2Block, l1 : L1Block]) /\ finalizedHead' \in L2Block
  BY DEF IInv, TypeOK
<1>2. /\ \A i \in DOMAIN finalityData : IsAncestor(finalityData[i].l2, safeHead)
      /\ IsAncestor(finalizedHead, safeHead)
  BY DEF HeadsInv, DataBelowSafe, HeadsOrdered
<1>3. PICK result \in {"done", "reset", "temporary"} :
         TryFinalize(finalityData, L1At(l1, h), result)
  BY DEF Finalize
<1>4. /\ IsAncestor(finalizedHead, finalizedHead') /\ IsAncestor(finalizedHead', safeHead)
      /\ \/ UNCHANGED <<finalizedHead, needFCUCall>>
         \/ /\ Number(finalizedHead) < Number(finalizedHead') /\ needFCUCall' = TRUE
            /\ \E i \in DOMAIN finalityData : finalizedHead' = finalityData[i].l2
  BY <1>1, <1>2, <1>3, TryFinalizeAdvances
<1>5. UNCHANGED <<traversal, origin, attributes, resetting, unsafeHead, safeHead, labels,
                  finalityData>>
  BY DEF Finalize, pipelineVars
<1>6. /\ IsAncestor(finalizedHead', safeHead')
      /\ unsafeHead = NoBlock => UNCHANGED <<finalizedHead, needFCUCall>>
      /\ LabelsFollow'
  BY <1>1, <1>4, <1>5, FinalizedHeadStep
<1>7. HeadsOrdered' /\ FinalityWindow' /\ AttributesOnTop' /\ DataBelowSafe' /\ SafeRead'
  BY <1>4, <1>5, <1>6 DEF HeadsInv, HeadsOrdered, Consistent, FinalityWindow,
                          AttributesOnTop, DataBelowSafe, SafeRead
<1>8. NothingUnsafe'
  BY <1>5, <1>6 DEF HeadsInv, NothingUnsafe
<1>9. ForkAtParent'
  <2> SUFFICES ASSUME unsafeHead # NoBlock, ~Consistent PROVE \E P \in L2Block : Fork(P)'
    BY <1>5 DEF ForkAtParent, Consistent
  <2>1. PICK P \in L2Block : Fork(P)
    BY DEF HeadsInv, ForkAtParent
  <2>2. IsAncestor(finalizedHead', P)
    BY <1>4, <2>1 DEF Fork
  <2>3. Fork(P)'
    BY <1>5, <2>1, <2>2 DEF Fork
  <2> QED BY <2>3
<1> QED BY <1>4, <1>6, <1>7, <1>8, <1>9 DEF HeadsInv

\* A block is itself.
LEMMA OrChildReflexive ==
    ASSUME NEW B \in L2Block
    PROVE  IsOrChild(B, B)
  BY NumberType, AncestorReflexive DEF IsOrChild

\* What an action on the engine's labels has to keep if it leaves the node's heads alone.
LEMMA LabelsChanged ==
    ASSUME HeadsInv, LabelsFollow', AttributesOnTop', Consistent \/ labels' = labels,
           unsafeHead # NoBlock, attributes' = attributes \/ unsafeHead' # NoBlock,
           UNCHANGED <<origin, unsafeHead, safeHead, finalizedHead, needFCUCall, finalityData>>,
           resetting' = resetting \/ resetting' = 0
    PROVE  HeadsInv'
<1>1. HeadsOrdered' /\ NothingUnsafe'
  BY DEF HeadsInv, HeadsOrdered, Consistent, NothingUnsafe
<1>2. FinalityWindow' /\ DataBelowSafe' /\ SafeRead'
  BY DEF HeadsInv, FinalityWindow, DataBelowSafe, SafeRead
<1>3. ForkAtParent'
  BY DEF HeadsInv, ForkAtParent, Consistent, Fork
<1> QED BY <1>1, <1>2, <1>3 DEF HeadsInv

\* The engine was told of a head and a safe block on its chain.
LEMMA ToldFollow ==
    ASSUME TypeOK, TypeOK', NEW head \in L2Block, NEW safe \in L2Block,
           IsAncestor(finalizedHead, safe), IsAncestor(safe, head),
           labels' = Told(head, safe), finalizedHead' = finalizedHead,
           IsOrChild(safeHead', safe)
    PROVE  LabelsFollow'
<1>1. labels'.unsafe = head /\ labels'.safe = safe /\ labels'.finalized = finalizedHead
  BY DEF Told
<1>2. finalizedHead \in L2Block /\ IsOrChild(safe, safe)
  BY OrChildReflexive DEF TypeOK
<1>3. IsAncestor(finalizedHead, head)
  BY <1>2, AncestorTransitive
<1> QED BY <1>1, <1>2, <1>3 DEF LabelsFollow

\* The engine is told of the heads.
LEMMA UpdateHeads ==
    ASSUME IInv, TypeOK', HeadsInv, TryUpdateEngine \/ UpdateUnanswered
    PROVE  HeadsInv'
<1>1. /\ UNCHANGED <<origin, attributes, resetting, unsafeHead, safeHead, finalizedHead,
                     finalityData>>
      /\ labels' = IF unsafeHead = NoBlock THEN labels ELSE Told(unsafeHead, safeHead)
      /\ unsafeHead # NoBlock => Consistent
      /\ needFCUCall' \in {FALSE, needFCUCall}
  BY DEF TryUpdateEngine, UpdateUnanswered, pipelineVars, finalizedVars, finalizerVars
<1>2. TypeOK
  BY DEF IInv
<1>3. CASE unsafeHead = NoBlock
  <2>1. labels' = labels /\ labels.finalized = finalizedHead
    BY <1>1, <1>3 DEF HeadsInv, NothingUnsafe
  <2>2. LabelsFollow'
    BY <1>1, <1>3, <2>1 DEF HeadsInv, LabelsFollow
  <2> QED BY <1>1, <1>3, <2>1, <2>2
          DEF HeadsInv, HeadsOrdered, FinalityWindow, AttributesOnTop, DataBelowSafe,
              NothingUnsafe, SafeRead, ForkAtParent
<1>4. CASE unsafeHead # NoBlock
  <2>1. unsafeHead \in L2Block /\ safeHead \in L2Block
    BY <1>2, <1>4 DEF TypeOK
  <2>2. IsAncestor(finalizedHead, safeHead) /\ IsAncestor(safeHead, unsafeHead)
    BY <1>1, <1>4 DEF HeadsInv, HeadsOrdered, Consistent
  <2>3. IsOrChild(safeHead', safeHead)
    BY <1>1, <2>1, OrChildReflexive
  <2>4. labels' = Told(unsafeHead, safeHead)
    BY <1>1, <1>4
  <2>5. LabelsFollow'
    BY <1>1, <1>2, <2>1, <2>2, <2>3, <2>4, ToldFollow
  <2>6. HeadsOrdered' /\ ForkAtParent'
    BY <1>1, <1>4 DEF HeadsInv, HeadsOrdered, Consistent, ForkAtParent
  <2> QED BY <1>1, <1>4, <2>5, <2>6 DEF HeadsInv, FinalityWindow, AttributesOnTop,
                                  DataBelowSafe, NothingUnsafe, SafeRead
<1> QED BY <1>3, <1>4

\* The engine refuses the heads, and may have moved to the unsafe one.
LEMMA UpdateNeedsResetHeads ==
    ASSUME IInv, TypeOK', HeadsInv, UpdateNeedsReset
    PROVE  HeadsInv'
<1>1. /\ unsafeHead # NoBlock /\ ~Consistent /\ needFCUCall /\ resetting' = 0
      /\ UNCHANGED <<origin, attributes, unsafeHead, safeHead, needFCUCall, finalizedHead,
                     finalityData>>
      /\ \/ labels' = labels
         \/ labels' = [labels EXCEPT !.unsafe = unsafeHead, !.finalized = finalizedHead]
  BY DEF UpdateNeedsReset, finalizedVars, finalizerVars
<1>2. /\ unsafeHead \in L2Block /\ safeHead \in L2Block /\ finalizedHead \in L2Block
      /\ labels.safe \in L2Block
  BY <1>1 DEF IInv, TypeOK
<1>3. PICK P \in L2Block : Fork(P)
  BY <1>1 DEF HeadsInv, ForkAtParent
<1>4. /\ IsOrChild(P, safeHead) /\ IsOrChild(P, labels.safe) /\ IsAncestor(P, unsafeHead)
      /\ IsAncestor(finalizedHead, P) /\ IsAncestor(P, labels.safe)
  BY <1>3 DEF Fork, IsOrChild
<1>5. IsAncestor(finalizedHead, labels.safe) /\ IsAncestor(finalizedHead, unsafeHead)
  BY <1>2, <1>4, AncestorTransitive
<1>6. labels'.safe = labels.safe /\ LabelsFollow'
  <2>1. CASE labels' = labels
    BY <1>1, <2>1 DEF HeadsInv, LabelsFollow
  <2>2. CASE labels' = [labels EXCEPT !.unsafe = unsafeHead, !.finalized = finalizedHead]
    <3>1. /\ labels'.unsafe = unsafeHead /\ labels'.safe = labels.safe
          /\ labels'.finalized = finalizedHead
      BY <2>2 DEF IInv, TypeOK
    <3> QED BY <1>1, <1>4, <1>5, <3>1 DEF LabelsFollow
  <2> QED BY <1>1, <2>1, <2>2
<1>7. Fork(P)'
  BY <1>1, <1>3, <1>6 DEF Fork
<1>8. HeadsOrdered' /\ ForkAtParent'
  BY <1>1, <1>7 DEF HeadsInv, HeadsOrdered, Consistent, ForkAtParent
<1> QED BY <1>1, <1>6, <1>8 DEF HeadsInv, FinalityWindow, AttributesOnTop, DataBelowSafe,
                                NothingUnsafe, SafeRead

\* The unsafe chain grows, or the engine's does alone.
LEMMA InsertHeads ==
    ASSUME IInv, TypeOK', HeadsInv, InsertUnsafePayload \/ InsertUnanswered
    PROVE  HeadsInv'
<1> DEFINE B == Child(unsafeHead, l1, 1)
<1>1. /\ unsafeHead # NoBlock /\ Number(unsafeHead) < Height(l1) /\ Canonical(unsafeHead.org)
      /\ ~needFCUCall /\ labels' = Told(B, safeHead)
      /\ UNCHANGED <<origin, attributes, resetting, safeHead, finalizedHead, finalityData>>
  BY DEF InsertUnsafePayload, InsertUnanswered, MayInsert, pipelineVars, finalizedVars,
         finalizerVars
<1>2. \/ unsafeHead' = B /\ needFCUCall' = TRUE
      \/ UNCHANGED <<unsafeHead, needFCUCall>>
  BY DEF InsertUnsafePayload, InsertUnanswered
<1> HIDE DEF B
<1>3. unsafeHead \in L2Block /\ l1 \in L1Block /\ safeHead \in L2Block /\ TypeOK
  BY <1>1 DEF IInv, TypeOK
<1>4. L1At(l1, Number(unsafeHead)) = unsafeHead.org
  BY <1>1, <1>3, NumberType DEF Canonical, Height
<1>5. B \in L2Block /\ IsAncestor(unsafeHead, B)
  BY <1>1, <1>3, <1>4, ChildOnParent, NumberType, HeightType DEF B
<1>6. IsAncestor(finalizedHead, safeHead) /\ IsAncestor(safeHead, unsafeHead)
  BY <1>1 DEF HeadsInv, HeadsOrdered, Consistent
<1>7. IsAncestor(safeHead, B) /\ B # NoBlock
  BY <1>3, <1>5, <1>6, AncestorTransitive, NumberType
<1>8. IsOrChild(safeHead', safeHead)
  BY <1>1, <1>3, OrChildReflexive
<1>9. LabelsFollow'
  BY <1>1, <1>3, <1>5, <1>6, <1>7, <1>8, ToldFollow
<1>10. IsAncestor(safeHead, unsafeHead') /\ unsafeHead' # NoBlock
  BY <1>1, <1>2, <1>6, <1>7
<1>11. HeadsOrdered' /\ NothingUnsafe' /\ ForkAtParent'
  BY <1>1, <1>6, <1>10 DEF HeadsOrdered, NothingUnsafe, Consistent, ForkAtParent, IsAncestor
<1> QED BY <1>1, <1>9, <1>11 DEF HeadsInv, FinalityWindow, AttributesOnTop, DataBelowSafe,
                                 SafeRead

\* The attributes become the safe head.
LEMMA AttributesToSafe ==
    ASSUME IInv, HeadsInv, attributes # NoBlock, attributes # Refused, safeHead' = attributes,
           attributes' = NoBlock,
           UNCHANGED <<origin, resetting, finalizedHead, finalityData>>
    PROVE  /\ attributes \in L2Block /\ safeHead \in L2Block /\ finalizedHead \in L2Block
           /\ unsafeHead # NoBlock /\ IsAncestor(finalizedHead, safeHead)
           /\ IsAncestor(finalizedHead, attributes) /\ IsOrChild(safeHead, attributes)
           /\ \A i \in DOMAIN finalityData : IsAncestor(finalityData[i].l2, safeHead)
           /\ FinalityWindow' /\ DataBelowSafe' /\ AttributesOnTop' /\ SafeRead'
<1>1. /\ attributes \in L2Block /\ safeHead \in L2Block /\ finalizedHead \in L2Block
      /\ \A i \in DOMAIN finalityData : finalityData[i].l2 \in L2Block
  <2>1. finalityData \in Seq([l2 : L2Block, l1 : L1Block])
    BY DEF IInv, TypeOK
  <2>2. \A i \in DOMAIN finalityData : finalityData[i] \in [l2 : L2Block, l1 : L1Block]
    BY <2>1, ElementType
  <2> QED BY <2>2, AttributesType DEF IInv, TypeOK
<1>2. /\ IsAncestor(finalizedHead, safeHead) /\ IsAncestor(safeHead, attributes)
      /\ Number(attributes) = Number(safeHead) + 1
      /\ Number(attributes) <= Height(origin) /\ L1At(origin, Number(attributes)) = attributes.org
      /\ \A i \in DOMAIN finalityData : IsAncestor(finalityData[i].l2, safeHead)
      /\ unsafeHead # NoBlock
  BY DEF HeadsInv, HeadsOrdered, AttributesOnTop, DataBelowSafe
<1>3. /\ IsAncestor(finalizedHead, attributes)
      /\ \A i \in DOMAIN finalityData : IsAncestor(finalityData[i].l2, attributes)
  BY <1>1, <1>2, AncestorTransitive
<1>4. IsOrChild(safeHead, attributes)
  BY <1>1, <1>2, NumberType DEF IsOrChild
<1>5. FinalityWindow' /\ DataBelowSafe' /\ AttributesOnTop' /\ SafeRead'
  BY <1>2, <1>3 DEF HeadsInv, FinalityWindow, DataBelowSafe, AttributesOnTop, SafeRead
<1> QED BY <1>1, <1>2, <1>3, <1>4, <1>5

\* The attributes are the engine's block.
LEMMA ConsolidateHeads ==
    ASSUME IInv, TypeOK', HeadsInv, ConsolidateNextSafeAttributes
    PROVE  HeadsInv'
<1>1. /\ attributes # NoBlock /\ attributes # Refused /\ safeHead' = attributes
      /\ attributes' = NoBlock /\ needFCUCall' = TRUE /\ ~needFCUCall
      /\ Number(safeHead) < Number(unsafeHead)
      /\ UNCHANGED <<origin, resetting, unsafeHead, labels, finalizedHead, finalityData>>
  BY DEF ConsolidateNextSafeAttributes, Consolidates, HasAttributes, Matches, SetSafeHead,
         finalizedVars, finalizerVars
<1>2. /\ attributes \in L2Block /\ safeHead \in L2Block /\ finalizedHead \in L2Block
      /\ unsafeHead # NoBlock /\ IsAncestor(finalizedHead, safeHead)
      /\ IsAncestor(finalizedHead, attributes) /\ IsOrChild(safeHead, attributes)
      /\ \A i \in DOMAIN finalityData : IsAncestor(finalityData[i].l2, safeHead)
      /\ FinalityWindow' /\ DataBelowSafe' /\ AttributesOnTop' /\ SafeRead'
  BY <1>1, AttributesToSafe
<1>3. /\ IsAncestor(safeHead, unsafeHead) /\ IsOrChild(safeHead, labels.safe)
  BY <1>1, <1>2 DEF HeadsInv, HeadsOrdered, Consistent, LabelsFollow
<1>4. PICK S \in L2Block : S = safeHead
  BY <1>2
<1>5. Fork(S)'
  BY <1>1, <1>2, <1>3, <1>4 DEF Fork
<1>6. ForkAtParent'
  BY <1>5 DEF ForkAtParent
<1>7. Number(attributes) <= Number(unsafeHead)
  <2>1. unsafeHead \in L2Block
    BY <1>2 DEF IInv, TypeOK
  <2> QED BY <1>1, <1>2, <2>1, NumberType DEF IsOrChild
<1>8. HeadsOrdered' /\ NothingUnsafe' /\ LabelsFollow'
  BY <1>1, <1>2, <1>7 DEF HeadsInv, HeadsOrdered, NothingUnsafe, LabelsFollow
<1> QED BY <1>2, <1>6, <1>8 DEF HeadsInv

\* The attributes are forced.
LEMMA ForceHeads ==
    ASSUME IInv, TypeOK', HeadsInv, ForceNextSafeAttributes
    PROVE  HeadsInv'
<1>1. /\ attributes # NoBlock /\ attributes # Refused /\ safeHead' = attributes
      /\ attributes' = NoBlock /\ unsafeHead' = attributes
      /\ labels' = Told(attributes, attributes)
      /\ UNCHANGED <<origin, resetting, finalizedHead, finalityData>>
  BY DEF ForceNextSafeAttributes, MayForce, Consolidates, HasAttributes, finalizedVars,
         finalizerVars
<1>2. /\ attributes \in L2Block /\ IsAncestor(finalizedHead, attributes)
      /\ FinalityWindow' /\ DataBelowSafe' /\ AttributesOnTop' /\ SafeRead'
  BY <1>1, AttributesToSafe
<1>3. /\ IsAncestor(attributes, attributes) /\ IsOrChild(attributes, attributes)
      /\ attributes # NoBlock /\ Number(attributes) <= Number(attributes)
  BY <1>2, AncestorReflexive, OrChildReflexive, NumberType
<1>4. LabelsFollow'
  BY <1>1, <1>2, <1>3, ToldFollow DEF IInv
<1>5. HeadsOrdered' /\ NothingUnsafe' /\ ForkAtParent'
  BY <1>1, <1>2, <1>3 DEF HeadsOrdered, NothingUnsafe, Consistent, ForkAtParent
<1> QED BY <1>2, <1>4, <1>5 DEF HeadsInv

\* A block that is forced is not taken, or its answer is lost.
LEMMA ForceFailedHeads ==
    ASSUME IInv, TypeOK', HeadsInv, ForceUnanswered \/ ForceRejected
    PROVE  HeadsInv'
<1>1. /\ attributes # NoBlock /\ ~needFCUCall
      /\ UNCHANGED <<origin, resetting, unsafeHead, safeHead, needFCUCall, finalizedHead,
                     finalityData>>
      /\ attributes' = attributes \/ attributes' = NoBlock
      /\ \/ labels' = labels
         \/ labels' = Told(safeHead, safeHead)
         \/ attributes # Refused /\ labels' = Told(attributes, attributes)
  BY DEF ForceUnanswered, ForceRejected, MayForce, Consolidates, HasAttributes, pipelineVars,
         finalizedVars, finalizerVars
<1>2. /\ TypeOK /\ safeHead \in L2Block /\ unsafeHead # NoBlock /\ Consistent
      /\ IsAncestor(finalizedHead, safeHead) /\ finalizedHead \in L2Block
  BY <1>1 DEF IInv, TypeOK, HeadsInv, HeadsOrdered
<1>3. LabelsFollow'
  <2>1. CASE labels' = labels
    BY <1>1, <2>1 DEF HeadsInv, LabelsFollow
  <2>2. CASE labels' = Told(safeHead, safeHead)
    <3>1. IsAncestor(safeHead, safeHead) /\ IsOrChild(safeHead', safeHead)
      BY <1>1, <1>2, AncestorReflexive, OrChildReflexive
    <3> QED BY <1>1, <1>2, <2>2, <3>1, ToldFollow
  <2>3. CASE attributes # Refused /\ labels' = Told(attributes, attributes)
    <3>1. attributes \in L2Block
      BY <1>1, <1>2, <2>3, AttributesType
    <3>2. IsAncestor(safeHead, attributes) /\ Number(attributes) = Number(safeHead) + 1
      BY <1>1, <2>3 DEF HeadsInv, AttributesOnTop
    <3>3. IsAncestor(attributes, attributes) /\ IsOrChild(safeHead', attributes)
      BY <1>1, <1>2, <3>1, <3>2, AncestorReflexive, NumberType DEF IsOrChild
    <3>4. IsAncestor(finalizedHead, attributes)
      BY <1>2, <3>1, <3>2, AncestorTransitive
    <3> QED BY <1>1, <1>2, <2>3, <3>1, <3>3, <3>4, ToldFollow
  <2> QED BY <1>1, <2>1, <2>2, <2>3
<1>4. AttributesOnTop'
  BY <1>1 DEF HeadsInv, AttributesOnTop
<1> QED BY <1>1, <1>2, <1>3, <1>4, LabelsChanged

\* So the steps of the engine controller and of the attributes handler keep the order.
LEMMA EngineActionHeads ==
    ASSUME IInv, TypeOK', HeadsInv, EngineAction
    PROVE  HeadsInv'
<1>1. CASE ConsolidateNeedsReset
  <2>1. /\ resetting' = 0
        /\ UNCHANGED <<origin, attributes, unsafeHead, safeHead, finalizedHead, needFCUCall,
                       labels, finalityData>>
    BY <1>1 DEF ConsolidateNeedsReset, engineVars, finalizedVars, finalizerVars
  <2> QED BY <2>1, HeadsUntouched
<1> QED BY <1>1, UpdateHeads, UpdateNeedsResetHeads, InsertHeads, ConsolidateHeads, ForceHeads,
           ForceFailedHeads DEF EngineAction

\* The attributes derived are for the child of the safe head.
LEMMA NextAttributesOnTop ==
    ASSUME TypeOK, HeadsInv, attributes = NoBlock, MoveOn, UNCHANGED <<safeHead, unsafeHead>>
    PROVE  /\ AttributesOnTop' /\ SafeRead'
           /\ unsafeHead = NoBlock => attributes' = NoBlock /\ origin' = origin
<1>1. safeHead \in L2Block /\ traversal \in L1Block /\ origin \in L1Block
      /\ Height(traversal) \in Nat /\ Number(safeHead) \in Nat
  BY HeightType, NumberType DEF TypeOK
<1>2. SafeRead /\ NothingUnsafe
  BY DEF HeadsInv
<1>3. CASE UNCHANGED pipelineVars
  BY <1>2, <1>3 DEF AttributesOnTop, SafeRead, pipelineVars
<1>4. CASE resetting' = 0 /\ UNCHANGED <<traversal, origin, attributes>>
  BY <1>4 DEF AttributesOnTop, SafeRead
<1>5. CASE ~OriginUnknown(traversal) /\ ~OriginConflict(traversal) /\ origin' = traversal
           /\ NextAttributes
  <2>1. unsafeHead = NoBlock => traversal = origin
    BY <1>5 DEF OriginConflict
  <2>2. CASE EpochMismatch(safeHead, traversal) /\ resetting' = 0
             /\ UNCHANGED <<traversal, attributes>>
    BY <1>5, <2>1, <2>2 DEF AttributesOnTop, SafeRead
  <2>3. ASSUME ~EpochMismatch(safeHead, traversal), NEW k \in {0, 1},
               NextKind(k, safeHead, traversal), attributes' = Child(safeHead, traversal, k),
               UNCHANGED <<traversal, resetting>>
        PROVE  AttributesOnTop' /\ SafeRead' /\ unsafeHead # NoBlock
    <3>1. Height(traversal) > Number(safeHead)
      BY <2>3 DEF NextKind
    <3>2. L1At(traversal, Number(safeHead)) = safeHead.org
      BY <1>1, <2>3, <3>1 DEF EpochMismatch
    <3>3. /\ Number(attributes') = Number(safeHead) + 1 /\ IsAncestor(safeHead, attributes')
          /\ attributes'.org = L1At(traversal, Number(safeHead) + 1)
      BY <1>1, <2>3, <3>1, <3>2, ChildOnParent
    <3>4. Number(attributes') <= Height(traversal)
      BY <1>1, <3>1, <3>3
    <3>5. unsafeHead # NoBlock
      <4>1. unsafeHead = NoBlock => Height(traversal) <= Number(safeHead)
        BY <1>2, <2>1 DEF NothingUnsafe
      <4> QED BY <1>1, <3>1, <4>1
    <3>6. AttributesOnTop'
      BY <1>5, <3>3, <3>4 DEF AttributesOnTop
    <3>7. SafeRead'
      BY <1>5, <3>2 DEF SafeRead
    <3> QED BY <3>5, <3>6, <3>7
  <2>4. CASE ~EpochMismatch(safeHead, traversal) /\ UNCHANGED attributes
    <3>1. Height(traversal) >= Number(safeHead) => L1At(traversal, Number(safeHead)) = safeHead.org
      BY <2>4 DEF EpochMismatch
    <3>2. SafeRead'
      BY <1>1, <1>5, <3>1 DEF SafeRead
    <3> QED BY <1>5, <2>1, <2>4, <3>2 DEF AttributesOnTop
  <2>5. CASE /\ ~EpochMismatch(safeHead, traversal) /\ Height(traversal) > Number(safeHead)
             /\ attributes' = Refused /\ UNCHANGED <<traversal, resetting>>
    <3>1. L1At(traversal, Number(safeHead)) = safeHead.org
      BY <1>1, <2>5 DEF EpochMismatch
    <3>2. unsafeHead = NoBlock => Height(traversal) <= Number(safeHead)
      BY <1>2, <2>1 DEF NothingUnsafe
    <3>3. unsafeHead # NoBlock
      BY <1>1, <2>5, <3>2
    <3> QED BY <1>5, <2>5, <3>1, <3>3 DEF AttributesOnTop, SafeRead
  <2> QED BY <1>5, <2>1, <2>2, <2>3, <2>4, <2>5 DEF NextAttributes
<1> QED BY <1>3, <1>4, <1>5 DEF MoveOn

\* A step of the pipeline, which may finalize.
LEMMA StepHeads ==
    ASSUME IInv, TypeOK', HeadsInv, NEW result, Step(result)
    PROVE  HeadsInv' /\ IsAncestor(finalizedHead, finalizedHead')
<1> DEFINE fd == PostProcessSafeL2
<1>1. /\ TypeOK /\ fd \in Seq([l2 : L2Block, l1 : L1Block]) /\ finalizedHead' \in L2Block
      /\ finalizedHead \in L2Block
  BY PostProcessType DEF IInv, TypeOK
<1>2. /\ attributes = NoBlock /\ resetting = 2 /\ finalityData' = fd /\ OnDerivationL1End(fd, result)
      /\ ~needFCUCall /\ UNCHANGED <<unsafeHead, safeHead, labels>>
  BY DEF Step
<1> HIDE DEF fd
<1>3. FinalityWindow' /\ DataBelowSafe'
  BY <1>1, <1>2, PostProcessWindow DEF HeadsInv, fd
<1>4. /\ \A i \in DOMAIN fd : IsAncestor(fd[i].l2, safeHead)
      /\ IsAncestor(finalizedHead, safeHead)
  BY <1>2, <1>3 DEF DataBelowSafe, HeadsInv, HeadsOrdered
<1>5. /\ IsAncestor(finalizedHead, finalizedHead') /\ IsAncestor(finalizedHead', safeHead)
      /\ \/ UNCHANGED <<finalizedHead, needFCUCall>>
         \/ Number(finalizedHead) < Number(finalizedHead') /\ needFCUCall' = TRUE
  <2>1. CASE UNCHANGED <<triedFinalizeAt, finalizedVars, needFCUCall>>
    BY <1>1, <1>4, <2>1, AncestorReflexive DEF finalizedVars
  <2>2. CASE TryFinalize(fd, finalizedL1, result)
    BY <1>1, <1>4, <2>2, TryFinalizeAdvances
  <2> QED BY <1>2, <2>1, <2>2 DEF OnDerivationL1End
<1>6. /\ IsAncestor(finalizedHead', safeHead')
      /\ unsafeHead = NoBlock => UNCHANGED <<finalizedHead, needFCUCall>>
      /\ LabelsFollow'
  BY <1>1, <1>2, <1>5, FinalizedHeadStep
<1>7. /\ AttributesOnTop' /\ SafeRead'
      /\ unsafeHead = NoBlock => attributes' = NoBlock /\ origin' = origin
  <2>1. CASE MoveOn
    BY <1>1, <1>2, <2>1, NextAttributesOnTop
  <2>2. CASE UNCHANGED <<origin, attributes>> /\ (resetting' = 0 \/ resetting' = resetting)
    BY <1>2, <2>2 DEF HeadsInv, AttributesOnTop, SafeRead
  <2> QED BY <2>1, <2>2 DEF Step, pipelineVars
<1>8. HeadsOrdered' /\ NothingUnsafe' /\ ForkAtParent'
  BY <1>2, <1>6, <1>7 DEF HeadsInv, HeadsOrdered, NothingUnsafe, Consistent, ForkAtParent
<1> QED BY <1>3, <1>5, <1>6, <1>7, <1>8 DEF HeadsInv

\* Initially all heads are genesis.
LEMMA InitHeads == Init => HeadsInv
<1> SUFFICES ASSUME Init PROVE HeadsInv
  OBVIOUS
<1>1. /\ GenesisL2 \in L2Block /\ IsAncestor(GenesisL2, GenesisL2) /\ GenesisL2 # NoBlock
  BY GenesisType, AncestorReflexive, NumberType
<1>2. DOMAIN <<>> = {} /\ Len(<<>>) <= FinalityLookback
  BY ParametersAssumption
<1>3. FinalityWindow /\ DataBelowSafe
  BY <1>2, Zenon DEF Init, FinalityWindow, DataBelowSafe
<1>4. labels.unsafe = GenesisL2 /\ labels.safe = GenesisL2 /\ labels.finalized = GenesisL2
  BY DEF Init
<1>5. HeadsOrdered /\ LabelsFollow /\ ForkAtParent
  <2>1. Number(GenesisL2) \in Nat
    BY <1>1, NumberType
  <2>2. IsOrChild(GenesisL2, GenesisL2)
    BY <1>1, <2>1 DEF IsOrChild
  <2> HIDE DEF GenesisL2, IsAncestor, IsOrChild
  <2> QED BY <1>1, <1>4, <2>1, <2>2 DEF Init, HeadsOrdered, Consistent, LabelsFollow, ForkAtParent
<1>6. AttributesOnTop /\ NothingUnsafe /\ SafeRead
  BY <1>1 DEF Init, AttributesOnTop, NothingUnsafe, SafeRead
<1> QED BY <1>3, <1>5, <1>6 DEF HeadsInv

\* Each step keeps the heads in order, and only a restart moves the finalized head back.
LEMMA NextHeads ==
    IInv /\ HeadsInv /\ [Next]_vars
    => HeadsInv' /\ (IsAncestor(finalizedHead, finalizedHead') \/ resets' # resets)
<1> SUFFICES ASSUME IInv, HeadsInv, [Next]_vars
             PROVE  HeadsInv' /\ (IsAncestor(finalizedHead, finalizedHead') \/ resets' # resets)
  OBVIOUS
<1>1. TypeOK /\ TypeOK' /\ finalizedHead \in L2Block
  BY NextIInv DEF IInv, TypeOK
<1>2. finalizedHead' = finalizedHead => IsAncestor(finalizedHead, finalizedHead')
  BY <1>1, AncestorReflexive
<1>3. CASE (\E batch \in BOOLEAN : L1Grow(batch)) \/ (\E h \in 0..MaxL1 : L1Reorg(h))
           \/ Signal \/ UNCHANGED vars
  <2>1. UNCHANGED <<origin, attributes, unsafeHead, safeHead, finalizedHead,
                    needFCUCall, labels, finalityData, resetting>>
    BY <1>3 DEF L1Grow, L1Reorg, Signal, vars, pipelineVars, engineVars, finalizedVars,
                finalizerVars
  <2> QED BY <1>2, <2>1, HeadsUntouched
<1>4. CASE ForceReset \/ ResetStages
  <2>1. UNCHANGED <<origin, attributes, unsafeHead, safeHead, finalizedHead,
                    needFCUCall, labels, finalityData>>
        /\ (resetting' = 0 \/ resetting # 0)
    BY <1>4 DEF ForceReset, ResetStages, engineVars, finalizedVars, finalizerVars
  <2> QED BY <1>2, <2>1, HeadsUntouched
<1>5. CASE \E h \in 1..MaxL1 : Finalize(h)
  BY <1>1, <1>5, FinalizeHeads
<1>6. CASE EngineAction
  BY <1>1, <1>2, <1>6, EngineActionFrame, EngineActionHeads
<1>9. CASE Step("done") \/ Step("reset") \/ Step("temporary")
  BY <1>1, <1>9, StepHeads
<1>10. CASE Restart
  <2>1. ResetHeads /\ UNCHANGED labels /\ resets' = resets + 1
    BY <1>10 DEF Restart
  <2>2. resets' # resets
    BY <1>1, <2>1 DEF TypeOK
  <2> QED BY <1>1, <2>1, <2>2, ResetHeadsInOrder DEF HeadsInv
<1>11. CASE ResetEngineQueue
  <2>1. ResetHeads /\ UNCHANGED labels /\ ~needFCUCall
    BY <1>11 DEF ResetEngineQueue
  <2>2. finalizedHead' = finalizedHead
    BY <1>1, <2>1, ResetHeadsResult DEF HeadsInv, LabelsFollow
  <2> QED BY <1>1, <1>2, <2>1, <2>2, ResetHeadsInOrder DEF HeadsInv
<1> QED BY <1>3, <1>4, <1>5, <1>6, <1>9, <1>10, <1>11, NextCases

\* So the order of the heads is an invariant.
LEMMA SpecHeads == Spec => [](IInv /\ HeadsInv)
<1>1. Init => IInv /\ HeadsInv
  BY InitIInv, InitHeads
<1>2. IInv /\ HeadsInv /\ [Next]_vars => (IInv /\ HeadsInv)'
  BY NextIInv, NextHeads
<1> QED BY <1>1, <1>2, PTL DEF Spec

\* Through resets, restarts, L1 reorganisations, refusals and lost answers the finalized
\* head is an ancestor of the safe one, and the unsafe one is a descendant of that unless
\* the engine has yet to be told of both.
THEOREM HeadsOrderedTheorem == Spec => []HeadsOrdered
<1>1. IInv /\ HeadsInv => HeadsOrdered
  BY DEF HeadsInv
<1> QED BY SpecHeads, <1>1, PTL

\* The finality data is a window of at most the lookback of entries, in the order of L1
\* and of L2.
THEOREM FinalityWindowTheorem == Spec => []FinalityWindow
<1>1. IInv /\ HeadsInv => FinalityWindow
  BY DEF HeadsInv
<1> QED BY SpecHeads, <1>1, PTL

\* The origin of the safe head is on the L1 chain the pipeline reads, once the pipeline
\* has read that far.
THEOREM SafeOnPipelineChainTheorem == Spec => []SafeOnPipelineChain
<1>1. IInv /\ HeadsInv => SafeOnPipelineChain
  <2> SUFFICES ASSUME IInv, HeadsInv, resetting = 2, Height(origin) >= Number(safeHead)
               PROVE  L1At(origin, Number(safeHead)) = safeHead.org
    BY DEF SafeOnPipelineChain
  <2>1. origin \in L1Block /\ safeHead \in L2Block
    BY DEF IInv, TypeOK
  <2>2. Number(safeHead) <= Height(origin)
    BY <2>1, HeightType, NumberType
  <2> QED BY <2>2 DEF HeadsInv, SafeRead
<1> QED BY SpecHeads, <1>1, PTL

\* While the node runs, the finalized head moves to descendants of itself only.
THEOREM FinalizedGrowsTheorem == Spec => FinalizedGrows
<1>1. IInv /\ HeadsInv /\ [Next]_vars
      => [IsAncestor(finalizedHead, finalizedHead') \/ resets' # resets]_vars
  BY NextHeads
<1> QED BY SpecHeads, <1>1, PTL DEF Spec, FinalizedGrows

(***************************************************************************)
(* What L1 derives.                                                        *)
(***************************************************************************)

\* The kinds of the L2 blocks that L1 derives up to height h.
DerivedAt(h) == Derived(L1At(l1, h))

PrefixOf(s, t) == Len(s) <= Len(t) /\ SubSeq(t, 1, Len(s)) = s

\* L1 only ever derives more; a sequencing window leaves no L2 block out; and a batch is
\* in the L1 block that first derives its L2 block, directly after the one derived before.
L1Laws ==
    /\ \A h \in 0..Height(l1) : \A g \in 0..h : PrefixOf(DerivedAt(g), DerivedAt(h))
    /\ \A h \in 0..Height(l1) : h <= Len(DerivedAt(h)) + SeqWindowSize
    /\ \A h \in 0..Height(l1) : \A n \in DOMAIN DerivedAt(h) :
          DerivedAt(h)[n] = 1 =>
             \E g \in 1..h : Len(DerivedAt(g - 1)) = n - 1 /\ n <= Len(DerivedAt(g))

\* PrefixOf is a partial order.
LEMMA PrefixTransitive ==
    ASSUME NEW T, NEW r \in Seq(T), NEW s \in Seq(T), NEW t \in Seq(T),
           PrefixOf(r, s), PrefixOf(s, t)
    PROVE  PrefixOf(r, t)
<1>1. /\ Len(r) \in Nat /\ Len(s) \in Nat /\ Len(t) \in Nat
      /\ Len(r) <= Len(s) /\ Len(s) <= Len(t)
      /\ SubSeq(s, 1, Len(r)) = r /\ SubSeq(t, 1, Len(s)) = s
  BY DEF PrefixOf
<1>2. SubSeq(SubSeq(t, 1, Len(s)), 1, Len(r)) = SubSeq(t, 1, Len(r))
  BY <1>1, PrefixOfPrefix
<1> QED BY <1>1, <1>2 DEF PrefixOf

\* A sequence is a prefix of itself.
LEMMA PrefixReflexive ==
    ASSUME NEW T, NEW s \in Seq(T)
    PROVE  PrefixOf(s, s)
  BY WholePrefix DEF PrefixOf

\* The elements of a prefix.
LEMMA PrefixElements ==
    ASSUME NEW T, NEW s \in Seq(T), NEW t \in Seq(T), PrefixOf(s, t), NEW n \in 1..Len(s)
    PROVE  t[n] = s[n]
<1>1. Len(s) \in Nat /\ Len(t) \in Nat /\ Len(s) <= Len(t) /\ SubSeq(t, 1, Len(s)) = s
  BY DEF PrefixOf
<1>2. SubSeq(t, 1, Len(s))[n] = t[n]
  BY <1>1
<1> QED BY <1>1, <1>2

\* What is derived up to a height of the chain of a canonical block.
LEMMA CanonicalDerived ==
    ASSUME l1 \in L1Block, NEW b \in L1Block, Canonical(b), NEW h \in 0..Height(b)
    PROVE  /\ Derived(L1At(b, h)) = DerivedAt(h)
           /\ h > 0 => b[h].l2 = DerivedAt(h)
           /\ Derived(b) = DerivedAt(Height(b))
<1>1. L1At(b, h) = L1At(l1, h) /\ L1At(l1, Height(b)) = b
  BY CanonicalBelow DEF Canonical
<1>2. ASSUME h > 0
      PROVE  Derived(L1At(b, h)) = b[h].l2
  <2>1. h \in 1..Len(b) /\ b \in Seq([fork : Nat, l2 : Seq({0, 1})])
    BY <1>2, HeightType DEF Height, L1Block
  <2>2. Len(SubSeq(b, 1, h)) = h
    BY L1AtType DEF Height, L1At
  <2>3. SubSeq(b, 1, h)[h] = b[h]
    BY <2>1
  <2>4. SubSeq(b, 1, h) # <<>>
    <3>1. Len(<<>>) = 0 /\ h # 0
      BY <1>2
    <3> QED BY <2>2, <3>1, Zenon
  <2> QED BY <2>2, <2>3, <2>4 DEF Derived, L1At
<1> QED BY <1>1, <1>2 DEF DerivedAt

\* What the chain derives up to a height is a sequence of kinds.
LEMMA DerivedAtType ==
    ASSUME l1 \in L1Block, NEW h \in 0..Height(l1)
    PROVE  DerivedAt(h) \in Seq({0, 1}) /\ Len(DerivedAt(h)) \in Nat
  BY L1AtType, DerivedType DEF DerivedAt

\* A block is the last one of its chain.
LEMMA WholeChain ==
    ASSUME NEW b \in L1Block
    PROVE  L1At(b, Height(b)) = b
  BY WholePrefix DEF L1At, Height, L1Block

(***************************************************************************)
(* A new L1 block.                                                         *)
(***************************************************************************)
LEMMA NewKinds ==
    ASSUME NEW kinds \in Seq({0, 1}), NEW batch \in BOOLEAN, NEW h \in Nat,
           NEW new, new = WithExpiry(WithBatch(kinds, batch), h)
    PROVE  /\ new \in Seq({0, 1}) /\ PrefixOf(kinds, new)
           /\ h - 1 <= Len(kinds) + SeqWindowSize => h <= Len(new) + SeqWindowSize
           /\ \A n \in DOMAIN new : new[n] = 1 => n <= Len(kinds) + 1
<1>1. SeqWindowSize \in Nat /\ Len(kinds) \in Nat
  BY ParametersAssumption
<1>2. ASSUME NEW mid \in Seq({0, 1}), mid = WithBatch(kinds, batch)
      PROVE  /\ PrefixOf(kinds, mid) /\ Len(mid) \in Nat
             /\ \A n \in DOMAIN mid : n <= Len(kinds) + 1
  <2>1. CASE batch
    <3>1. mid = Append(kinds, 1)
      BY <1>2, <2>1 DEF WithBatch
    <3>2. Len(mid) = Len(kinds) + 1 /\ SubSeq(mid, 1, Len(kinds)) = SubSeq(kinds, 1, Len(kinds))
      BY <3>1, <1>1, PrefixOfAppend, Len(kinds) \in 0..Len(kinds), 1 \in {0, 1}
    <3> QED BY <1>1, <3>2, WholePrefix DEF PrefixOf
  <2>2. CASE ~batch
    BY <1>1, <1>2, <2>2, PrefixReflexive DEF WithBatch
  <2> QED BY <2>1, <2>2
<1> DEFINE mid == WithBatch(kinds, batch)
<1>3. mid \in Seq({0, 1})
  BY DEF WithBatch
<1>4. new = IF Len(mid) + 1 + SeqWindowSize <= h THEN Append(mid, 0) ELSE mid
  BY DEF WithExpiry
<1>5. /\ PrefixOf(kinds, mid) /\ Len(mid) \in Nat
      /\ \A n \in DOMAIN mid : n <= Len(kinds) + 1
  BY <1>2, <1>3
<1> HIDE DEF mid
<1>6. CASE Len(mid) + 1 + SeqWindowSize <= h
  <2>1. new = Append(mid, 0)
    BY <1>4, <1>6
  <2>2. new \in Seq({0, 1}) /\ Len(new) = Len(mid) + 1 /\ SubSeq(new, 1, Len(mid)) = SubSeq(mid, 1, Len(mid))
    BY <2>1, <1>3, <1>5, PrefixOfAppend, Len(mid) \in 0..Len(mid), 0 \in {0, 1}
  <2>3. PrefixOf(mid, new)
    BY <1>3, <1>5, <2>2, WholePrefix DEF PrefixOf
  <2>4. PrefixOf(kinds, new)
    BY <1>3, <1>5, <2>2, <2>3, PrefixTransitive
  <2>5. \A n \in DOMAIN new : new[n] = 1 => n \in DOMAIN mid
    BY <1>3, <2>1
  <2> QED BY <1>1, <1>5, <1>6, <2>2, <2>4, <2>5 DEF PrefixOf
<1>7. CASE ~(Len(mid) + 1 + SeqWindowSize <= h)
  <2>1. new = mid
    BY <1>4, <1>7
  <2> QED BY <1>1, <1>3, <1>5, <1>7, <2>1
<1> QED BY <1>6, <1>7

\* L1 grows by the rules.
LEMMA L1GrowLaws ==
    ASSUME TypeOK, L1Laws, NEW batch \in BOOLEAN, L1Grow(batch)
    PROVE  L1Laws' /\ PrefixOf(Derived(l1), Derived(l1')) /\ l1' \in L1Block
           /\ Height(l1') = Height(l1) + 1
           /\ \A b \in L1Block : Canonical(b) => Canonical(b)'
<1>0. PICK H \in Nat : H = Height(l1)
  BY HeightType DEF TypeOK
<1> DEFINE kinds == Derived(l1)
           new == WithExpiry(WithBatch(kinds, batch), H + 1)
           e == [fork |-> reorgs, l2 |-> new]
<1>1. l1 \in L1Block /\ H \in Nat /\ H = Height(l1) /\ kinds \in Seq({0, 1})
      /\ Len(kinds) \in Nat /\ SeqWindowSize \in Nat
  BY <1>0, DerivedType, ParametersAssumption DEF TypeOK
<1>2. e \in [fork : Nat, l2 : Seq({0, 1})] /\ l1' = Append(l1, e)
  <2>1. H + 1 \in Nat
    BY <1>1
  <2>2. e \in [fork : Nat, l2 : Seq({0, 1})]
    BY <2>1, NewL1BlockType
  <2>3. l1' = Append(l1, [fork |-> reorgs, l2 |-> WithExpiry(WithBatch(Derived(l1), batch),
                                                             Height(l1) + 1)])
    BY DEF L1Grow
  <2> QED BY <1>1, <2>2, <2>3
<1>3. /\ new \in Seq({0, 1}) /\ PrefixOf(kinds, new)
      /\ (H + 1) - 1 <= Len(kinds) + SeqWindowSize => H + 1 <= Len(new) + SeqWindowSize
      /\ \A n \in DOMAIN new : new[n] = 1 => n <= Len(kinds) + 1
  <2>1. H + 1 \in Nat
    BY <1>1
  <2> HIDE DEF kinds
  <2> QED BY <1>1, <2>1, NewKinds
<1>4. e.l2 = new
  OBVIOUS
<1> HIDE DEF e, new
<1>5. l1' \in L1Block /\ Height(l1') = H + 1 /\ \A h \in 0..H : L1At(l1', h) = L1At(l1, h)
  <2>1. \A h \in 0..Len(l1) : SubSeq(Append(l1, e), 1, h) = SubSeq(l1, 1, h)
    BY <1>1, <1>2, PrefixOfAppend DEF L1Block
  <2>2. Append(l1, e) \in L1Block /\ Len(Append(l1, e)) = Len(l1) + 1
    BY <1>1, <1>2 DEF L1Block
  <2>3. Len(l1) = H
    BY <1>1 DEF Height
  <2>4. \A h \in 0..H : SubSeq(l1', 1, h) = SubSeq(l1, 1, h)
    BY <1>2, <2>1, <2>3
  <2>5. l1' \in L1Block /\ Len(l1') = H + 1
    BY <1>2, <2>2, <2>3
  <2> QED BY <2>4, <2>5 DEF L1At, Height
<1>6. Derived(l1') = new
  <2>1. l1' # <<>> /\ l1'[Len(l1')] = e
    BY <1>1, <1>2 DEF L1Block
  <2> QED BY <1>4, <2>1 DEF Derived
<1>7. /\ \A h \in 0..H : DerivedAt(h)' = DerivedAt(h)
      /\ DerivedAt(H + 1)' = new /\ DerivedAt(H) = kinds
  <2>1. \A h \in 0..H : DerivedAt(h)' = DerivedAt(h)
    BY <1>5 DEF DerivedAt
  <2>2. L1At(l1', H + 1) = l1' /\ L1At(l1, H) = l1
    BY <1>1, <1>5, WholeChain
  <2> QED BY <1>6, <2>1, <2>2 DEF DerivedAt
<1>8. ASSUME NEW b \in L1Block, Canonical(b)
      PROVE  Canonical(b)'
  <2>1. Height(b) \in 0..H /\ L1At(l1, Height(b)) = b
    BY <1>1, <1>8, HeightType DEF Canonical
  <2>2. Height(b) <= Height(l1') /\ L1At(l1', Height(b)) = b
    BY <1>1, <1>5, <2>1
  <2> QED BY <2>2 DEF Canonical
<1> HIDE DEF kinds
<1>9. ASSUME NEW h \in 0..(H + 1), NEW g \in 0..h
      PROVE  PrefixOf(DerivedAt(g)', DerivedAt(h)')
  <2>1. CASE h \in 0..H
    BY <1>1, <1>7, <2>1 DEF L1Laws
  <2>2. CASE h = H + 1 /\ g = H + 1
    BY <1>3, <1>7, <2>2, PrefixReflexive
  <2>3. CASE h = H + 1 /\ g \in 0..H
    <3>1. PrefixOf(DerivedAt(g), kinds)
      BY <1>1, <1>7, <2>3, H \in 0..H DEF L1Laws
    <3>2. DerivedAt(g) \in Seq({0, 1})
      BY <1>1, <2>3, DerivedAtType
    <3> QED BY <1>1, <1>3, <1>7, <2>3, <3>1, <3>2, PrefixTransitive
  <2> QED BY <1>1, <2>1, <2>2, <2>3
<1>10. ASSUME NEW h \in 0..(H + 1)
       PROVE  h <= Len(DerivedAt(h)') + SeqWindowSize
  <2>1. CASE h \in 0..H
    BY <1>1, <1>7, <2>1 DEF L1Laws
  <2>2. CASE h = H + 1
    <3>1. H <= Len(kinds) + SeqWindowSize
      BY <1>1, <1>7, H \in 0..H DEF L1Laws
    <3> QED BY <1>1, <1>3, <1>7, <2>2, <3>1
  <2> QED BY <1>1, <2>1, <2>2
<1>11. ASSUME NEW h \in 0..(H + 1), NEW n \in DOMAIN DerivedAt(h)', DerivedAt(h)'[n] = 1
       PROVE  \E g \in 1..h : Len(DerivedAt(g - 1)') = n - 1 /\ n <= Len(DerivedAt(g)')
  <2>1. CASE h \in 0..H
    <3>1. n \in DOMAIN DerivedAt(h) /\ DerivedAt(h)[n] = 1
      BY <1>7, <1>11, <2>1
    <3>2. PICK g \in 1..h : Len(DerivedAt(g - 1)) = n - 1 /\ n <= Len(DerivedAt(g))
      BY <1>1, <2>1, <3>1 DEF L1Laws
    <3>3. g \in 0..H /\ g - 1 \in 0..H
      BY <1>1, <2>1
    <3> QED BY <1>7, <3>2, <3>3
  <2>2. CASE h = H + 1
    <3>1. n \in DOMAIN new /\ new[n] = 1 /\ DOMAIN new = 1..Len(new) /\ Len(new) \in Nat
          /\ DOMAIN kinds = 1..Len(kinds)
      BY <1>1, <1>3, <1>7, <1>11, <2>2
    <3>2. CASE n <= Len(kinds)
      <4>1. n \in DOMAIN kinds /\ kinds[n] = 1
        BY <1>1, <1>3, <3>1, <3>2, PrefixElements
      <4>2. PICK g \in 1..H : Len(DerivedAt(g - 1)) = n - 1 /\ n <= Len(DerivedAt(g))
        BY <1>1, <1>7, <4>1, H \in 0..H DEF L1Laws
      <4>3. g \in 0..H /\ g - 1 \in 0..H /\ g \in 1..h
        BY <1>1, <2>2
      <4> QED BY <1>7, <4>2, <4>3
    <3>3. CASE ~(n <= Len(kinds))
      <4>1. n = Len(kinds) + 1
        BY <1>1, <1>3, <3>1, <3>3
      <4>2. h \in 1..h /\ h - 1 = H /\ H \in 0..H
        BY <1>1, <2>2
      <4>3. Len(DerivedAt(h - 1)') = n - 1 /\ n <= Len(DerivedAt(h)')
        BY <1>1, <1>7, <2>2, <3>1, <4>1, <4>2
      <4> QED BY <4>2, <4>3
    <3> QED BY <3>2, <3>3
  <2> QED BY <1>1, <2>1, <2>2
<1>12. L1Laws'
  BY <1>5, <1>9, <1>10, <1>11 DEF L1Laws
<1> QED BY <1>1, <1>3, <1>5, <1>6, <1>8, <1>12 DEF kinds

(***************************************************************************)
(* Deriving L2 blocks from the canonical chain.                            *)
(***************************************************************************)

\* A block derives the ancestors of what it derives.
LEMMA DerivesAncestor ==
    ASSUME NEW b \in L1Block, NEW A \in L2Block, NEW B \in L2Block,
           Derives(b, B), IsAncestor(A, B)
    PROVE  Derives(b, A)
<1>1. /\ Number(A) \in Nat /\ Number(B) \in Nat /\ Number(A) <= Number(B)
      /\ Derived(b) \in Seq({0, 1}) /\ Len(Derived(b)) \in Nat
      /\ Number(B) <= Len(Derived(b)) /\ SubSeq(Derived(b), 1, Number(B)) = B.kinds
      /\ Number(B) <= Height(b) /\ L1At(b, Number(B)) = B.org /\ Height(b) \in Nat
  BY NumberType, DerivedType, HeightType DEF Derives, IsAncestor
<1>2. SubSeq(B.kinds, 1, Number(A)) = A.kinds /\ SubSeq(B.org, 1, Number(A)) = A.org
  BY DEF IsAncestor, L2At
<1>3. SubSeq(SubSeq(Derived(b), 1, Number(B)), 1, Number(A)) = SubSeq(Derived(b), 1, Number(A))
  BY <1>1, PrefixOfPrefix
<1>4. SubSeq(SubSeq(b, 1, Number(B)), 1, Number(A)) = SubSeq(b, 1, Number(A))
  BY <1>1, PrefixOfPrefix DEF L1Block, Height
<1>5. SubSeq(Derived(b), 1, Number(A)) = A.kinds /\ L1At(b, Number(A)) = A.org
  BY <1>1, <1>2, <1>3, <1>4 DEF L1At
<1>6. Number(A) <= Len(Derived(b)) /\ Number(A) <= Height(b)
  BY <1>1
<1> QED BY <1>5, <1>6 DEF Derives

\* The chain derives what one of its blocks derives if it derives more.
LEMMA DerivesMore ==
    ASSUME NEW b \in L1Block, NEW c \in L1Block, Height(b) <= Height(c),
           L1At(c, Height(b)) = b, PrefixOf(Derived(b), Derived(c)),
           NEW B \in L2Block, Derives(b, B)
    PROVE  Derives(c, B)
<1> DEFINE n == Number(B)
<1>1. /\ n \in Nat /\ Height(b) \in Nat /\ Height(c) \in Nat
      /\ Derived(b) \in Seq({0, 1}) /\ Len(Derived(b)) \in Nat
      /\ Derived(c) \in Seq({0, 1}) /\ Len(Derived(c)) \in Nat
      /\ n <= Len(Derived(b)) /\ SubSeq(Derived(b), 1, n) = B.kinds
      /\ n <= Height(b) /\ L1At(b, n) = B.org
      /\ Len(Derived(b)) <= Len(Derived(c))
      /\ SubSeq(Derived(c), 1, Len(Derived(b))) = Derived(b)
  BY NumberType, DerivedType, HeightType DEF Derives, PrefixOf
<1> HIDE DEF n
<1>2. SubSeq(SubSeq(Derived(c), 1, Len(Derived(b))), 1, n) = SubSeq(Derived(c), 1, n)
  BY <1>1, PrefixOfPrefix
<1>3. SubSeq(SubSeq(c, 1, Height(b)), 1, n) = SubSeq(c, 1, n)
  BY <1>1, PrefixOfPrefix DEF L1Block, Height
<1>4. SubSeq(Derived(c), 1, n) = B.kinds /\ L1At(c, n) = B.org
  BY <1>1, <1>2, <1>3 DEF L1At
<1>5. n <= Len(Derived(c)) /\ n <= Height(c)
  BY <1>1
<1> QED BY <1>4, <1>5 DEF Derives, n

\* A higher canonical block derives more.
LEMMA DerivesUp ==
    ASSUME l1 \in L1Block, L1Laws, NEW b \in L1Block, NEW c \in L1Block, Canonical(b),
           Canonical(c), Height(b) <= Height(c), NEW B \in L2Block, Derives(b, B)
    PROVE  Derives(c, B)
<1>1. Height(b) \in 0..Height(c) /\ Height(c) \in 0..Height(l1) /\ Height(b) \in 0..Height(b)
      /\ Height(c) \in 0..Height(c)
  BY HeightType DEF Canonical
<1>2. Derived(b) = DerivedAt(Height(b)) /\ Derived(c) = DerivedAt(Height(c))
  BY <1>1, CanonicalDerived
<1>3. PrefixOf(Derived(b), Derived(c))
  BY <1>1, <1>2 DEF L1Laws
<1>4. L1At(c, Height(b)) = b
  BY <1>1, CanonicalBelow DEF Canonical
<1> QED BY <1>3, <1>4, DerivesMore

\* The chain is canonical itself.
LEMMA ChainCanonical ==
    ASSUME l1 \in L1Block
    PROVE  Canonical(l1)
  BY WholeChain, HeightType DEF Canonical

\* A canonical block that derives enough L2 blocks derives those of the chain.
LEMMA DerivesDown ==
    ASSUME l1 \in L1Block, L1Laws, NEW b \in L1Block, Canonical(b), NEW B \in L2Block,
           Derives(l1, B), Number(B) <= Height(b), Number(B) <= Len(Derived(b))
    PROVE  Derives(b, B)
<1> DEFINE n == Number(B)
<1>1. Height(b) \in 0..Height(l1) /\ Height(l1) \in 0..Height(l1) /\ Height(b) \in 0..Height(b)
      /\ n \in 0..Height(b)
  BY HeightType, NumberType DEF Canonical
<1>2. Derived(b) = DerivedAt(Height(b)) /\ Derived(l1) = DerivedAt(Height(l1))
  BY <1>1, CanonicalDerived, ChainCanonical
<1>3. PrefixOf(Derived(b), Derived(l1))
  BY <1>1, <1>2 DEF L1Laws
<1>4. /\ Derived(b) \in Seq({0, 1}) /\ Len(Derived(b)) \in Nat
      /\ Derived(l1) \in Seq({0, 1}) /\ Len(Derived(l1)) \in Nat
      /\ Len(Derived(b)) <= Len(Derived(l1))
      /\ SubSeq(Derived(l1), 1, Len(Derived(b))) = Derived(b)
      /\ SubSeq(Derived(l1), 1, n) = B.kinds /\ L1At(l1, n) = B.org
  BY <1>3, DerivedType DEF PrefixOf, Derives
<1>5. n \in 0..Len(Derived(b))
  BY <1>1, <1>4
<1> HIDE DEF n
<1>6. SubSeq(SubSeq(Derived(l1), 1, Len(Derived(b))), 1, n) = SubSeq(Derived(l1), 1, n)
  BY <1>4, <1>5, PrefixOfPrefix
<1>7. SubSeq(Derived(b), 1, n) = B.kinds
  BY <1>4, <1>6
<1>8. L1At(b, n) = B.org
  BY <1>1, <1>4, CanonicalBelow
<1>9. n <= Height(b) /\ n <= Len(Derived(b))
  BY <1>1, <1>5
<1> QED BY <1>7, <1>8, <1>9 DEF Derives, n

\* Batches and expired windows give the blocks that L1 derives.
LEMMA NextKindDerives ==
    ASSUME l1 \in L1Block, L1Laws, NEW t \in L1Block, Canonical(t), NEW S \in L2Block,
           Derives(l1, S), NEW k \in {0, 1}, NextKind(k, S, t)
    PROVE  Child(S, t, k) \in L2Block /\ Derives(t, Child(S, t, k))
<1> DEFINE n == Number(S)
           C == Child(S, t, k)
           D == Derived(t)
<1>1. /\ n \in Nat /\ Height(t) \in Nat /\ Height(t) > n /\ SeqWindowSize \in Nat
      /\ S.kinds \in Seq({0, 1}) /\ n = Len(S.kinds)
      /\ D \in Seq({0, 1}) /\ Len(D) \in Nat
  BY NumberType, HeightType, DerivedType, ParametersAssumption DEF NextKind
<1>2. C \in L2Block /\ Number(C) = n + 1 /\ C.kinds = Append(S.kinds, k) /\ C.org = L1At(t, n + 1)
  <2>1. C \in L2Block
    BY <1>1, ChildType
  <2>2. C.kinds = Append(S.kinds, k) /\ C.org = L1At(t, n + 1)
    BY DEF Child
  <2>3. Len(Append(S.kinds, k)) = n + 1
    BY <1>1
  <2> QED BY <2>1, <2>2, <2>3, NumberType
<1>3. /\ \A h \in 0..Height(t) : Derived(L1At(t, h)) = DerivedAt(h)
      /\ \A h \in 1..Height(t) : t[h].l2 = DerivedAt(h)
      /\ D = DerivedAt(Height(t))
  <2>1. \A h \in 1..Height(t) : h \in 0..Height(t) /\ h > 0
    BY <1>1
  <2> QED BY <1>1, <2>1, CanonicalDerived
<1>4. /\ \A h \in 0..Height(t) : PrefixOf(DerivedAt(h), D) /\ DerivedAt(h) \in Seq({0, 1})
      /\ Height(t) <= Len(D) + SeqWindowSize
      /\ \A i \in DOMAIN D : D[i] = 1 =>
            \E g \in 1..Height(t) : Len(DerivedAt(g - 1)) = i - 1 /\ i <= Len(DerivedAt(g))
  <2>1. Height(t) \in 0..Height(l1) /\ Height(l1) \in Nat
    BY <1>1, HeightType DEF Canonical
  <2>2. \A h \in 0..Height(t) : h \in 0..Height(l1)
    BY <1>1, <2>1
  <2> QED BY <1>3, <2>1, <2>2, DerivedAtType DEF L1Laws
<1>5. HasBatch(S, t) <=>
         \E h \in 1..Height(t) : /\ DerivedAt(h - 1) = S.kinds
                                 /\ Len(DerivedAt(h)) > n /\ DerivedAt(h)[n + 1] = 1
  <2>1. \A h \in 1..Height(t) : h - 1 \in 0..Height(t)
    BY <1>1
  <2>2. \A h \in 1..Height(t) :
           (LET before == Derived(L1At(t, h - 1))
            IN  /\ before = S.kinds
                /\ Len(t[h].l2) > Len(before) /\ t[h].l2[Len(before) + 1] = 1)
           <=> /\ DerivedAt(h - 1) = S.kinds
               /\ Len(DerivedAt(h)) > n /\ DerivedAt(h)[n + 1] = 1
    BY <1>1, <1>3, <2>1
  <2> HIDE DEF n, C, D
  <2> QED BY <2>2 DEF HasBatch
<1>6. n <= Len(D) => SubSeq(D, 1, n) = S.kinds
  <2>1. ASSUME n <= Len(D)
        PROVE  SubSeq(D, 1, n) = S.kinds
    <3>1. /\ D = DerivedAt(Height(t)) /\ Derived(l1) = DerivedAt(Height(l1))
          /\ Height(t) \in 0..Height(l1) /\ Height(l1) \in 0..Height(l1)
      BY <1>1, <1>3, HeightType, CanonicalDerived, ChainCanonical DEF Canonical
    <3>2. PrefixOf(D, Derived(l1)) /\ Derived(l1) \in Seq({0, 1}) /\ SubSeq(Derived(l1), 1, n) = S.kinds
      BY <3>1, DerivedType DEF L1Laws, Derives
    <3> HIDE DEF D, n
    <3>3. Len(D) \in 0..Len(Derived(l1)) /\ n \in 0..Len(D) /\ SubSeq(Derived(l1), 1, Len(D)) = D
      BY <1>1, <2>1, <3>2 DEF PrefixOf
    <3>4. SubSeq(SubSeq(Derived(l1), 1, Len(D)), 1, n) = SubSeq(Derived(l1), 1, n)
      BY <3>2, <3>3, PrefixOfPrefix
    <3> QED BY <3>2, <3>3, <3>4
  <2> QED BY <2>1
<1> HIDE DEF n, C, D
\* The next block that t derives is of kind k.
<1>7. n + 1 <= Len(D) /\ D[n + 1] = k
  <2>1. ASSUME k = 1, HasBatch(S, t)
        PROVE  n + 1 <= Len(D) /\ D[n + 1] = 1
    <3>1. PICK h \in 1..Height(t) : Len(DerivedAt(h)) > n /\ DerivedAt(h)[n + 1] = 1
      BY <1>5, <2>1
    <3>2. /\ h \in 0..Height(t) /\ PrefixOf(DerivedAt(h), D) /\ DerivedAt(h) \in Seq({0, 1})
          /\ Len(DerivedAt(h)) \in Nat
      BY <1>1, <1>4
    <3>3. n + 1 \in 1..Len(DerivedAt(h)) /\ Len(DerivedAt(h)) <= Len(D)
      BY <1>1, <3>1, <3>2 DEF PrefixOf
    <3>4. D[n + 1] = DerivedAt(h)[n + 1]
      BY <1>1, <3>2, <3>3, PrefixElements
    <3> QED BY <1>1, <3>1, <3>2, <3>3, <3>4
  <2>2. ASSUME k = 0, ~HasBatch(S, t), Height(t) >= n + 1 + SeqWindowSize
        PROVE  n + 1 <= Len(D) /\ D[n + 1] = 0
    <3>1. n + 1 <= Len(D)
      BY <1>1, <1>4, <2>2
    <3>2. n + 1 \in DOMAIN D /\ D[n + 1] \in {0, 1}
      BY <1>1, <3>1
    <3>3. ASSUME D[n + 1] = 1
          PROVE  FALSE
      <4>1. PICK g \in 1..Height(t) :
               Len(DerivedAt(g - 1)) = (n + 1) - 1 /\ n + 1 <= Len(DerivedAt(g))
        BY <1>4, <3>2, <3>3, Zenon
      <4>2. g \in 0..Height(t) /\ g - 1 \in 0..Height(t)
        BY <1>1
      <4>3. /\ PrefixOf(DerivedAt(g), D) /\ DerivedAt(g) \in Seq({0, 1})
            /\ PrefixOf(DerivedAt(g - 1), D) /\ Len(DerivedAt(g)) \in Nat
        BY <1>4, <4>2
      <4>4. DerivedAt(g - 1) = SubSeq(D, 1, n)
        BY <1>1, <4>1, <4>3 DEF PrefixOf
      <4>5. DerivedAt(g - 1) = S.kinds
        BY <1>1, <1>6, <3>1, <4>4
      <4>6. Len(DerivedAt(g)) > n /\ DerivedAt(g)[n + 1] = 1
        <5>1. n + 1 \in 1..Len(DerivedAt(g))
          BY <1>1, <4>1, <4>3
        <5> QED BY <1>1, <3>3, <4>3, <5>1, PrefixElements
      <4> QED BY <1>5, <2>2, <4>5, <4>6
    <3> QED BY <3>1, <3>2, <3>3
  <2> QED BY <2>1, <2>2 DEF NextKind, n
<1>8. SubSeq(D, 1, n + 1) = Append(S.kinds, k)
  <2>1. SubSeq(D, 1, n) = S.kinds
    BY <1>1, <1>6, <1>7
  <2>2. SubSeq(D, 1, n + 1) = Append(SubSeq(D, 1, n), D[n + 1])
    BY <1>1, <1>7
  <2> QED BY <1>7, <2>1, <2>2
<1>9. n + 1 <= Height(t)
  BY <1>1
<1> QED BY <1>2, <1>7, <1>8, <1>9 DEF Derives, C, D

(***************************************************************************)
(* Without L1 reorganisations: all the node knows is on one L1 chain, and  *)
(* the safe chain is what that derives.                                    *)
(***************************************************************************)

\* The pipeline derives the safe head from L1 up to its origin; or it is behind by more
\* than a sequencing window, since a reset, or does not know more than the finalized head.
FarBehind ==
    resetting # 0 =>
        \/ safeHead = finalizedHead
        \/ Number(safeHead) + SeqWindowSize + 1 <= Number(unsafeHead)
        \/ Derives(origin, safeHead)

OneL1 ==
    /\ L1Laws
    /\ Canonical(origin) /\ Canonical(traversal)
    /\ resetting = 2 => Height(origin) <= Height(traversal)
    /\ unsafeHead # NoBlock /\ Canonical(unsafeHead.org) /\ Canonical(labels.unsafe.org)
    /\ Derives(l1, safeHead) /\ Derives(l1, labels.safe)
    /\ attributes \notin {NoBlock, Refused} => Derives(origin, attributes)
    /\ FarBehind

OneChain == reorgs = 0 => OneL1

\* Two canonical blocks of one height are the same, and one is on the chain of the other.
LEMMA CanonicalSame ==
    ASSUME l1 \in L1Block, NEW b \in L1Block, NEW c \in L1Block, Canonical(b), Canonical(c),
           Height(b) <= Height(c)
    PROVE  L1At(c, Height(b)) = b
<1>1. Height(b) \in 0..Height(c)
  BY HeightType
<1> QED BY <1>1, CanonicalBelow DEF Canonical

\* What the chain derives has a canonical origin.
LEMMA DerivesCanonical ==
    ASSUME l1 \in L1Block, NEW B \in L2Block, Derives(l1, B)
    PROVE  Canonical(B.org)
  BY NumberType DEF Derives, Canonical, Height

\* The pipeline moves on without a reset.
LEMMA MoveOnOneL1 ==
    ASSUME TypeOK, HeadsInv, OneL1, resetting = 2, attributes = NoBlock, MoveOn,
           UNCHANGED <<l1, safeHead, unsafeHead>>
    PROVE  /\ resetting' = 2 /\ (origin' = origin \/ origin' = traversal)
           /\ Canonical(origin') /\ Canonical(traversal')
           /\ Height(origin) <= Height(origin') /\ Height(origin') <= Height(traversal')
           /\ attributes' \notin {NoBlock, Refused} => Derives(origin', attributes')
<1>1. /\ l1 \in L1Block /\ traversal \in L1Block /\ origin \in L1Block /\ safeHead \in L2Block
      /\ Canonical(traversal) /\ Canonical(origin) /\ Derives(l1, safeHead) /\ L1Laws
      /\ Height(origin) \in Nat /\ Height(traversal) \in Nat /\ Height(l1) \in Nat
      /\ Height(origin) <= Height(traversal) /\ Number(safeHead) \in Nat
  BY HeightType, NumberType DEF TypeOK, OneL1
<1>2. ~OriginConflict(traversal)
  <2> DEFINE u == unsafeHead.org
  <2>1. unsafeHead # NoBlock /\ u \in L1Block /\ Canonical(u) /\ Height(u) \in Nat
    BY HeightType, NumberType DEF TypeOK, OneL1
  <2> HIDE DEF u
  <2>2. Height(u) <= Height(traversal) => L1At(traversal, Height(u)) = u
    BY <1>1, <2>1, CanonicalSame
  <2>3. L1At(traversal, Height(traversal)) = traversal
    BY <1>1, WholeChain
  <2>4. Height(traversal) = Height(u) => traversal = u
    BY <1>1, <2>1, <2>2, <2>3
  <2>5. Height(traversal) = Height(u) + 1 => L1At(traversal, Height(u)) = u
    BY <1>1, <2>1, <2>2
  <2> QED BY <2>1, <2>4, <2>5 DEF OriginConflict, u
<1>3. CASE UNCHANGED pipelineVars
  BY <1>1, <1>3 DEF pipelineVars
<1>4. CASE origin' = traversal /\ NextAttributes
  <2>1. ~EpochMismatch(safeHead, traversal)
    <3>1. ASSUME Height(traversal) >= Number(safeHead)
          PROVE  L1At(traversal, Number(safeHead)) = safeHead.org
      <4>1. Number(safeHead) \in 0..Height(traversal)
        BY <1>1, <3>1
      <4>2. L1At(l1, Number(safeHead)) = safeHead.org
        BY <1>1 DEF Derives
      <4> QED BY <1>1, <4>1, <4>2, CanonicalBelow
    <3> QED BY <3>1 DEF EpochMismatch
  <2>2. ASSUME NEW k \in {0, 1}, NextKind(k, safeHead, traversal),
               attributes' = Child(safeHead, traversal, k), UNCHANGED <<traversal, resetting>>
        PROVE  Derives(origin', attributes') /\ traversal' = traversal /\ resetting' = 2
    BY <1>1, <1>4, <2>2, NextKindDerives
  <2>3. CASE AdvanceL1Block /\ UNCHANGED attributes
    <3>1. CASE UNCHANGED <<traversal, resetting>>
      BY <1>1, <1>4, <2>3, <3>1
    <3>2. CASE /\ Height(l1) > Height(traversal)
               /\ traversal' = L1At(l1, Height(traversal) + 1) /\ UNCHANGED resetting
      <4>1. Height(traversal) + 1 \in 0..Height(l1)
        BY <1>1, <3>2
      <4>2. Canonical(traversal')
        BY <1>1, <3>2, <4>1, CanonicalBelow, ChainCanonical
      <4>3. Height(traversal') = Height(traversal) + 1
        BY <1>1, <3>2, <4>1, L1AtType
      <4> QED BY <1>1, <1>4, <2>3, <3>2, <4>2, <4>3
    <3> QED BY <1>1, <2>3, <3>1, <3>2 DEF AdvanceL1Block
  <2>4. \/ \E k \in {0, 1} : /\ NextKind(k, safeHead, traversal)
                             /\ attributes' = Child(safeHead, traversal, k)
                             /\ UNCHANGED <<traversal, resetting>>
        \/ AdvanceL1Block /\ UNCHANGED attributes
        \/ attributes' = Refused /\ UNCHANGED <<traversal, resetting>>
    BY <1>4, <2>1 DEF NextAttributes
  <2>5. CASE \E k \in {0, 1} : /\ NextKind(k, safeHead, traversal)
                               /\ attributes' = Child(safeHead, traversal, k)
                               /\ UNCHANGED <<traversal, resetting>>
    BY <1>1, <1>4, <2>2, <2>5
  <2>6. CASE attributes' = Refused /\ UNCHANGED <<traversal, resetting>>
    BY <1>1, <1>4, <2>6
  <2> QED BY <2>3, <2>4, <2>5, <2>6
<1> QED BY <1>2, <1>3, <1>4 DEF MoveOn

\* FarBehind stays true when the finalized head moves up.
LEMMA FarBehindKept ==
    ASSUME TypeOK, TypeOK', l1' = l1, L1Laws, FarBehind, resetting # 0,
           Canonical(origin), Canonical(origin'), Height(origin) <= Height(origin'),
           IsAncestor(finalizedHead, finalizedHead'), IsAncestor(finalizedHead', safeHead),
           safeHead' = safeHead, unsafeHead' = unsafeHead
    PROVE  FarBehind'
<1>1. /\ finalizedHead' \in L2Block /\ safeHead \in L2Block /\ l1 \in L1Block
      /\ origin \in L1Block /\ origin' \in L1Block
  BY DEF TypeOK
<1>2. CASE safeHead = finalizedHead
  <2>1. Number(finalizedHead') <= Number(safeHead)
    BY DEF IsAncestor
  <2>2. safeHead = finalizedHead'
    BY <1>1, <1>2, <2>1, AncestorSameNumber
  <2> QED BY <2>2 DEF FarBehind
<1>3. CASE Number(safeHead) + SeqWindowSize + 1 <= Number(unsafeHead)
  BY <1>3 DEF FarBehind
<1>4. CASE Derives(origin, safeHead)
  <2>1. Derives(origin', safeHead)
    BY <1>1, <1>4, DerivesUp
  <2> QED BY <2>1 DEF FarBehind
<1> QED BY <1>2, <1>3, <1>4 DEF FarBehind

\* A reset finds what L1 derives.
LEMMA ResetOneL1 ==
    ASSUME TypeOK, HeadsInv, OneL1, ResetHeads, UNCHANGED <<l1, traversal, labels>>
    PROVE  OneL1'
<1> DEFINE u == labels.unsafe
           s == labels.safe
           f == labels.finalized
           S == safeHead'
<1>1. /\ u \in L2Block /\ s \in L2Block /\ f \in L2Block /\ l1 \in L1Block
      /\ Canonical(u.org) /\ Derives(l1, s) /\ L1Laws
      /\ IsAncestor(f, s) /\ IsAncestor(f, u)
      /\ \E P \in L2Block : IsOrChild(P, s) /\ IsAncestor(P, u)
  BY DEF TypeOK, OneL1, HeadsInv, LabelsFollow
<1>2. /\ S \in L2Block /\ origin' = PipelineOrigin(S) /\ finalizedHead' = f
      /\ FoundSafe(S, u, s, f) /\ FoundUnsafe(unsafeHead', u, f)
  BY ResetHeadsResult
<1>3. attributes' = NoBlock /\ resetting' = 1
  BY DEF ResetHeads
<1> HIDE DEF u, s, f, S
<1>4. IsAncestor(f, u)
  BY <1>1
<1>5. /\ Number(u) \in Nat /\ Number(f) \in Nat /\ Number(s) \in Nat /\ Number(S) \in Nat
      /\ SeqWindowSize \in Nat
  BY <1>1, <1>2, NumberType, ParametersAssumption
<1>6. Conflicting(u, f) = {}
  <2>1. L2At(u, Number(u)) = u
    BY <1>1, AncestorReflexive DEF IsAncestor
  <2>2. \A n \in 0..Number(u) : Canonical(L2At(u, n).org)
    BY <1>1, <1>5, <2>1, CanonicalOnChain, Number(u) \in 0..Number(u)
  <2>3. \A n \in Number(f)..Number(u) : n \in 0..Number(u)
    BY <1>5
  <2> QED BY <2>2, <2>3 DEF Conflicting
<1>7. unsafeHead' = u
  BY <1>2, <1>6 DEF FoundUnsafe
<1>8. /\ IsAncestor(S, u)
      /\ \/ S = f
         \/ /\ Number(S) < Number(s)
            /\ \E m \in (Number(S) + SeqWindowSize + 2)..Number(u) : Canonical(L2At(u, m).org)
  BY <1>1, <1>2, <1>4, FoundSafeShape
<1>9. IsAncestor(S, s)
  <2>1. CASE S = f
    BY <1>1, <2>1
  <2>2. CASE Number(S) < Number(s)
    <3>1. PICK P \in L2Block : IsOrChild(P, s) /\ IsAncestor(P, u)
      BY <1>1
    <3>2. Number(S) <= Number(P) /\ IsAncestor(P, s)
      BY <1>5, <2>2, <3>1, NumberType DEF IsOrChild
    <3>3. IsAncestor(S, P)
      BY <1>1, <1>2, <1>8, <3>1, <3>2, AncestorsComparable
    <3> QED BY <1>1, <1>2, <3>1, <3>2, <3>3, AncestorTransitive
  <2> QED BY <1>8, <2>1, <2>2
<1>10. Derives(l1, S)
  BY <1>1, <1>2, <1>9, DerivesAncestor
<1>11. S = f \/ Number(S) + SeqWindowSize + 1 <= Number(u)
  BY <1>5, <1>8
<1>12. FarBehind'
  BY <1>2, <1>7, <1>11 DEF FarBehind, S
<1>13. Canonical(origin')
  <2>1. PICK k \in 0..Height(S.org) : PipelineOrigin(S) = L1At(S.org, k)
    BY <1>2, PipelineOriginBelow
  <2>2. S.org \in L1Block /\ Canonical(S.org)
    BY <1>1, <1>2, <1>10, NumberType, DerivesCanonical
  <2> QED BY <1>1, <1>2, <2>1, <2>2, CanonicalBelow
<1>14. /\ L1Laws' /\ Canonical(origin)' /\ Canonical(traversal)'
       /\ Canonical(unsafeHead.org)' /\ Canonical(labels.unsafe.org)'
       /\ Derives(l1, safeHead)' /\ Derives(l1, labels.safe)'
  BY <1>1, <1>7, <1>10, <1>13 DEF OneL1, L1Laws, DerivedAt, Canonical, u, s, S
<1>15. unsafeHead' # NoBlock
  BY <1>1, <1>7, NumberType
<1> QED BY <1>3, <1>12, <1>14, <1>15 DEF OneL1

\* The parts of OneL1 that a step keeps if it changes neither L1 nor what they are about.
LEMMA SameL1 ==
    ASSUME UNCHANGED l1
    PROVE  /\ L1Laws' <=> L1Laws
           /\ \A b : Canonical(b)' <=> Canonical(b)
  BY DEF L1Laws, DerivedAt, Canonical

\* A new L1 block.
LEMMA L1GrowOneL1 ==
    ASSUME TypeOK, OneL1, NEW batch \in BOOLEAN, L1Grow(batch)
    PROVE  OneL1'
<1>1. /\ l1 \in L1Block /\ safeHead \in L2Block /\ labels.safe \in L2Block
      /\ origin \in L1Block /\ traversal \in L1Block /\ labels.unsafe.org \in L1Block
      /\ unsafeHead # NoBlock /\ unsafeHead.org \in L1Block
  <2>1. labels.unsafe \in L2Block /\ unsafeHead \in L2Block
    BY DEF TypeOK, OneL1
  <2> QED BY <2>1, NumberType DEF TypeOK, OneL1
<1>2. /\ L1Laws' /\ PrefixOf(Derived(l1), Derived(l1')) /\ l1' \in L1Block
      /\ Height(l1') = Height(l1) + 1
      /\ \A b \in L1Block : Canonical(b) => Canonical(b)'
  BY L1GrowLaws DEF OneL1
<1>3. UNCHANGED <<origin, traversal, attributes, resetting, unsafeHead, safeHead,
                  finalizedHead, labels>>
  BY DEF L1Grow, pipelineVars, engineVars, finalizedVars
<1>4. Height(l1) <= Height(l1') /\ L1At(l1', Height(l1)) = l1
  BY <1>1, <1>2, ChainCanonical DEF Canonical
<1>5. \A B \in L2Block : Derives(l1, B) => Derives(l1', B)
  BY <1>1, <1>2, <1>4, DerivesMore
<1>6. Derives(l1, safeHead)' /\ Derives(l1, labels.safe)'
  BY <1>1, <1>3, <1>5 DEF OneL1
<1>7. /\ Canonical(origin)' /\ Canonical(traversal)'
      /\ Canonical(unsafeHead.org)' /\ Canonical(labels.unsafe.org)'
  BY <1>1, <1>2, <1>3 DEF OneL1, Canonical
<1>8. FarBehind'
  BY <1>3 DEF OneL1, FarBehind
<1>9. (attributes \notin {NoBlock, Refused} => Derives(origin, attributes))'
  BY <1>3 DEF OneL1
<1> QED BY <1>2, <1>3, <1>6, <1>7, <1>8, <1>9 DEF OneL1

\* What an action of the engine controller or the attributes handler has to keep.
LEMMA HeadsOneL1 ==
    ASSUME OneL1, FarBehind', UNCHANGED <<l1, traversal, origin>>,
           resetting' = resetting \/ resetting' = 0,
           attributes' = attributes \/ attributes' = NoBlock,
           unsafeHead' # NoBlock, Canonical(unsafeHead'.org), Canonical(labels'.unsafe.org),
           Derives(l1, safeHead'), Derives(l1, labels'.safe)
    PROVE  OneL1'
<1>1. /\ L1Laws' /\ Canonical(origin)' /\ Canonical(traversal)'
      /\ Canonical(unsafeHead.org)' /\ Canonical(labels.unsafe.org)'
      /\ Derives(l1, safeHead)' /\ Derives(l1, labels.safe)'
  BY SameL1 DEF OneL1, Canonical
<1>2. (resetting = 2 => Height(origin) <= Height(traversal))'
  BY DEF OneL1
<1>3. (attributes \notin {NoBlock, Refused} => Derives(origin, attributes))'
  BY DEF OneL1
<1> QED BY <1>1, <1>2, <1>3 DEF OneL1

\* The engine is told of the heads, or refuses them.
LEMMA UpdateOneL1 ==
    ASSUME TypeOK, OneL1, TryUpdateEngine \/ UpdateUnanswered \/ UpdateNeedsReset
    PROVE  OneL1'
<1>1. /\ UNCHANGED <<l1, traversal, origin, attributes, unsafeHead, safeHead, finalizedHead>>
      /\ resetting' = resetting \/ resetting' = 0
      /\ unsafeHead # NoBlock
  BY DEF TryUpdateEngine, UpdateUnanswered, UpdateNeedsReset, l1Vars, pipelineVars,
         finalizedVars, OneL1
<1>2. labels'.unsafe \in {unsafeHead, labels.unsafe} /\ labels'.safe \in {safeHead, labels.safe}
  <2>1. CASE TryUpdateEngine \/ UpdateUnanswered
    <3>1. labels' = Told(unsafeHead, safeHead)
      BY <1>1, <2>1 DEF TryUpdateEngine, UpdateUnanswered
    <3> QED BY <3>1 DEF Told
  <2>2. CASE UpdateNeedsReset
    <3>1. labels \in EngineLabels
      BY DEF TypeOK, EngineLabels
    <3>2. \/ labels' = labels
          \/ labels' = [labels EXCEPT !.unsafe = unsafeHead, !.finalized = finalizedHead]
      BY <2>2 DEF UpdateNeedsReset
    <3> QED BY <3>1, <3>2 DEF EngineLabels
  <2> QED BY <2>1, <2>2
<1>3. FarBehind'
  BY <1>1 DEF OneL1, FarBehind
<1>4. /\ Canonical(unsafeHead'.org) /\ Canonical(labels'.unsafe.org)
      /\ Derives(l1, safeHead') /\ Derives(l1, labels'.safe)
  BY <1>1, <1>2 DEF OneL1
<1> QED BY <1>1, <1>3, <1>4, HeadsOneL1

\* The unsafe chain, or the engine's, grows on the L1 chain.
LEMMA InsertOneL1 ==
    ASSUME TypeOK, OneL1, InsertUnsafePayload \/ InsertUnanswered
    PROVE  OneL1'
<1> DEFINE B == Child(unsafeHead, l1, 1)
<1>1. /\ Number(unsafeHead) < Height(l1) /\ unsafeHead' \in {B, unsafeHead}
      /\ labels' = Told(B, safeHead)
      /\ UNCHANGED <<l1, traversal, origin, attributes, resetting, safeHead, finalizedHead>>
  BY DEF InsertUnsafePayload, InsertUnanswered, MayInsert, l1Vars, pipelineVars, finalizedVars
<1>2. unsafeHead \in L2Block /\ l1 \in L1Block /\ Canonical(unsafeHead.org)
      /\ Number(unsafeHead) \in Nat /\ Height(l1) \in Nat /\ Number(safeHead) \in Nat
      /\ SeqWindowSize \in Nat /\ unsafeHead # NoBlock
  BY NumberType, HeightType, ParametersAssumption DEF OneL1, TypeOK
<1>3. L1At(l1, Number(unsafeHead)) = unsafeHead.org
  BY <1>2, NumberType DEF Canonical, Height
<1>4. /\ B \in L2Block /\ Number(B) = Number(unsafeHead) + 1
      /\ B.org = L1At(l1, Number(unsafeHead) + 1)
  BY <1>1, <1>2, <1>3, ChildOnParent
<1> HIDE DEF B
<1>5. Number(unsafeHead) + 1 \in 0..Height(l1)
  BY <1>1, <1>2
<1>6. Canonical(B.org) /\ B # NoBlock
  BY <1>2, <1>4, <1>5, CanonicalBelow, ChainCanonical, NumberType
<1>7. FarBehind'
  BY <1>1, <1>2, <1>4 DEF OneL1, FarBehind
<1>8. labels'.unsafe = B /\ labels'.safe = safeHead
  BY <1>1 DEF Told
<1>9. /\ unsafeHead' # NoBlock /\ Canonical(unsafeHead'.org) /\ Canonical(labels'.unsafe.org)
      /\ Derives(l1, safeHead') /\ Derives(l1, labels'.safe)
  BY <1>1, <1>2, <1>6, <1>8 DEF OneL1
<1> QED BY <1>1, <1>7, <1>9, HeadsOneL1

\* The attributes are what L1 derives.
LEMMA AttributesDerived ==
    ASSUME TypeOK, OneL1, attributes # NoBlock, attributes # Refused
    PROVE  /\ attributes \in L2Block /\ Derives(origin, attributes) /\ Derives(l1, attributes)
           /\ Canonical(attributes.org)
<1>1. /\ attributes \in L2Block /\ l1 \in L1Block /\ origin \in L1Block /\ Canonical(origin)
      /\ Derives(origin, attributes) /\ L1Laws /\ Height(origin) <= Height(l1)
  BY AttributesType DEF TypeOK, OneL1, Canonical
<1>2. Derives(l1, attributes)
  BY <1>1, DerivesUp, ChainCanonical
<1>3. Canonical(attributes.org)
  BY <1>1, <1>2, DerivesCanonical
<1> QED BY <1>1, <1>2, <1>3

\* The safe chain grows by them.
LEMMA SafeGrowsOneL1 ==
    ASSUME TypeOK, OneL1, ConsolidateNextSafeAttributes \/ ForceNextSafeAttributes
    PROVE  OneL1'
<1>1. /\ attributes # NoBlock /\ attributes # Refused
      /\ safeHead' = attributes /\ attributes' = NoBlock
      /\ UNCHANGED <<l1, traversal, origin, resetting, finalizedHead>>
      /\ \/ UNCHANGED <<unsafeHead, labels>>
         \/ unsafeHead' = attributes /\ labels' = Told(attributes, attributes)
  BY DEF ConsolidateNextSafeAttributes, ForceNextSafeAttributes, MayForce, Consolidates,
         HasAttributes, Matches, SetSafeHead, l1Vars, finalizedVars
<1>2. /\ Derives(origin, attributes) /\ Derives(l1, attributes) /\ Canonical(attributes.org)
  BY <1>1, AttributesDerived
<1>3. FarBehind'
  BY <1>1, <1>2 DEF FarBehind
<1>4. /\ unsafeHead' \in {unsafeHead, attributes}
      /\ labels'.unsafe \in {labels.unsafe, attributes} /\ labels'.safe \in {labels.safe, attributes}
  BY <1>1 DEF Told
<1>5. /\ unsafeHead' # NoBlock /\ Canonical(unsafeHead'.org) /\ Canonical(labels'.unsafe.org)
      /\ Derives(l1, safeHead') /\ Derives(l1, labels'.safe)
  BY <1>1, <1>2, <1>4 DEF OneL1
<1> QED BY <1>1, <1>3, <1>5, HeadsOneL1

\* Attributes are forced without success.
LEMMA ForceFailedOneL1 ==
    ASSUME TypeOK, OneL1, HeadsInv, ForceUnanswered \/ ForceRejected
    PROVE  OneL1'
<1>1. /\ attributes # NoBlock
      /\ UNCHANGED <<l1, traversal, origin, resetting, unsafeHead, safeHead, finalizedHead>>
      /\ attributes' = attributes \/ attributes' = NoBlock
      /\ \/ labels' = labels
         \/ labels' = Told(safeHead, safeHead)
         \/ attributes # Refused /\ labels' = Told(attributes, attributes)
  BY DEF ForceUnanswered, ForceRejected, MayForce, Consolidates, HasAttributes, l1Vars,
         pipelineVars, finalizedVars
<1>2. FarBehind'
  BY <1>1 DEF OneL1, FarBehind
<1>3. Canonical(safeHead.org)
  BY DerivesCanonical DEF TypeOK, OneL1
<1>4. Canonical(labels'.unsafe.org) /\ Derives(l1, labels'.safe)
  <2>1. CASE labels' = labels
    BY <2>1 DEF OneL1
  <2>2. CASE labels' = Told(safeHead, safeHead)
    BY <1>3, <2>2 DEF OneL1, Told
  <2>3. CASE attributes # Refused /\ labels' = Told(attributes, attributes)
    BY <1>1, <2>3, AttributesDerived DEF Told
  <2> QED BY <1>1, <2>1, <2>2, <2>3
<1>5. unsafeHead' # NoBlock /\ Canonical(unsafeHead'.org) /\ Derives(l1, safeHead')
  BY <1>1 DEF OneL1
<1> QED BY <1>1, <1>2, <1>4, <1>5, HeadsOneL1

\* So the steps of the engine controller and of the attributes handler keep it.
LEMMA EngineActionOneL1 ==
    ASSUME TypeOK, HeadsInv, OneL1, EngineAction
    PROVE  OneL1'
<1>1. CASE ConsolidateNeedsReset
  <2>1. /\ resetting' = 0
        /\ UNCHANGED <<l1, traversal, origin, attributes, unsafeHead, safeHead, finalizedHead,
                       labels>>
    BY <1>1 DEF ConsolidateNeedsReset, l1Vars, engineVars, finalizedVars
  <2> QED BY <2>1, SameL1 DEF OneL1, FarBehind
<1> QED BY <1>1, UpdateOneL1, InsertOneL1, SafeGrowsOneL1, ForceFailedOneL1 DEF EngineAction

\* A finality signal.
LEMMA FinalizeOneL1 ==
    ASSUME IInv, TypeOK', HeadsInv, HeadsInv', OneL1, NEW h \in 1..MaxL1, Finalize(h)
    PROVE  OneL1'
<1>1. UNCHANGED <<l1, traversal, origin, attributes, resetting, unsafeHead, safeHead, labels>>
  BY DEF Finalize, pipelineVars
<1>2. IsAncestor(finalizedHead, finalizedHead') /\ IsAncestor(finalizedHead', safeHead)
  BY <1>1, FinalizeHeads DEF HeadsInv, HeadsOrdered
<1>3. TypeOK /\ L1Laws /\ FarBehind /\ Canonical(origin) /\ origin \in L1Block
  BY DEF IInv, TypeOK, OneL1
<1>4. Canonical(origin') /\ Height(origin) <= Height(origin')
  BY <1>1, <1>3, HeightType
<1>5. FarBehind'
  <2>1. CASE resetting = 0
    BY <1>1, <2>1 DEF FarBehind
  <2>2. CASE resetting # 0
    BY <1>1, <1>2, <1>3, <1>4, <2>2, FarBehindKept
  <2> QED BY <2>1, <2>2
<1> QED BY <1>1, <1>5, SameL1 DEF OneL1

\* A step of the pipeline.
LEMMA StepOneL1 ==
    ASSUME IInv, TypeOK', HeadsInv, HeadsInv', OneL1, NEW result, Step(result)
    PROVE  /\ OneL1' /\ Height(origin) <= Height(origin')
           /\ result # "reset" => resetting' = 2
<1>1. /\ UNCHANGED <<l1, unsafeHead, safeHead, labels>> /\ resetting = 2 /\ attributes = NoBlock
  BY DEF Step, l1Vars
<1>2. IsAncestor(finalizedHead, finalizedHead') /\ IsAncestor(finalizedHead', safeHead)
  BY <1>1, StepHeads DEF HeadsInv, HeadsOrdered
<1>3. /\ TypeOK /\ L1Laws /\ FarBehind /\ Canonical(origin) /\ Canonical(traversal)
      /\ Height(origin) \in Nat /\ Height(origin) <= Height(traversal)
  BY <1>1, HeightType DEF IInv, TypeOK, OneL1
<1>4. /\ Canonical(origin') /\ Canonical(traversal') /\ Height(origin) <= Height(origin')
      /\ Height(origin') <= Height(traversal')
      /\ attributes' \notin {NoBlock, Refused} => Derives(origin', attributes')
      /\ result # "reset" => resetting' = 2
  <2>1. CASE MoveOn
    BY <1>1, <1>3, <2>1, MoveOnOneL1
  <2>2. CASE result = "reset" /\ UNCHANGED <<traversal, origin, attributes>>
    BY <1>1, <1>3, <2>2
  <2>3. CASE UNCHANGED pipelineVars
    BY <1>1, <1>3, <2>3 DEF pipelineVars
  <2> QED BY <2>1, <2>2, <2>3 DEF Step
<1>5. FarBehind'
  BY <1>1, <1>2, <1>3, <1>4, FarBehindKept
<1>6. /\ L1Laws' /\ Canonical(origin)' /\ Canonical(traversal)'
      /\ Canonical(unsafeHead.org)' /\ Canonical(labels.unsafe.org)' /\ unsafeHead' # NoBlock
      /\ Derives(l1, safeHead)' /\ Derives(l1, labels.safe)'
  BY <1>1, <1>3, <1>4, SameL1 DEF OneL1, Canonical
<1> QED BY <1>4, <1>5, <1>6 DEF OneL1

\* Every L1 block derives the genesis block.
LEMMA DerivesGenesis ==
    ASSUME NEW b \in L1Block
    PROVE  Derives(b, GenesisL2)
<1>1. Number(GenesisL2) = 0
  BY GenesisType, NumberType DEF GenesisL2
<1>2. Derived(b) \in Seq({0, 1}) /\ Len(Derived(b)) \in Nat /\ Height(b) \in Nat
  BY DerivedType, HeightType
<1>3. SubSeq(Derived(b), 1, 0) = <<>> /\ L1At(b, 0) = <<>>
  BY <1>2 DEF L1At, L1Block
<1> QED BY <1>1, <1>2, <1>3 DEF Derives, GenesisL2

\* Initially there are only the genesis blocks.
LEMMA InitOneL1 == Init => OneL1
<1> SUFFICES ASSUME Init PROVE OneL1
  OBVIOUS
<1>1. /\ l1 = <<>> /\ l1 \in L1Block /\ Height(l1) = 0 /\ Derived(l1) = <<>>
      /\ GenesisL2 # NoBlock /\ GenesisL2.org = <<>>
  BY GenesisType, NumberType DEF Init, L1Block, Height, Derived, GenesisL2
<1>2. Canonical(<<>>)
  BY <1>1, ChainCanonical
<1>3. DerivedAt(0) = <<>>
  BY <1>1, WholeChain DEF DerivedAt
<1>4. L1Laws
  <2>1. PrefixOf(DerivedAt(0), DerivedAt(0))
    BY <1>1, <1>3, DerivedType, PrefixReflexive
  <2>2. 0 <= Len(DerivedAt(0)) + SeqWindowSize /\ DOMAIN DerivedAt(0) = {}
    BY <1>3, ParametersAssumption
  <2>3. \A h \in 0..0 : h = 0
    OBVIOUS
  <2> QED BY <1>1, <2>1, <2>2, <2>3 DEF L1Laws
<1>5. Derives(l1, GenesisL2)
  BY <1>1, DerivesGenesis
<1>6. labels.unsafe = GenesisL2 /\ labels.safe = GenesisL2
  BY DEF Init
<1>7. FarBehind
  BY DEF Init, FarBehind
<1> QED BY <1>1, <1>2, <1>4, <1>5, <1>6, <1>7 DEF Init, OneL1

\* Each step keeps the node on one L1 chain while there is no reorganisation.
LEMMA NextOneChain ==
    IInv /\ HeadsInv /\ OneChain /\ [Next]_vars => OneChain'
<1> SUFFICES ASSUME IInv, HeadsInv, OneChain, [Next]_vars, reorgs' = 0
             PROVE  OneL1'
  BY DEF OneChain
<1>1. TypeOK /\ TypeOK' /\ HeadsInv'
  BY NextIInv, NextHeads DEF IInv
<1>2. CASE \E h \in 0..MaxL1 : L1Reorg(h)
  <2>1. reorgs' = reorgs + 1 /\ reorgs \in Nat
    BY <1>1, <1>2, ParametersAssumption DEF L1Reorg, TypeOK
  <2> QED BY <2>1
<1>3. CASE UNCHANGED vars
  <2>1. UNCHANGED <<l1, reorgs, traversal, origin, attributes, resetting, unsafeHead, safeHead,
                    finalizedHead, labels>>
    BY <1>3 DEF vars, l1Vars, pipelineVars, engineVars, finalizedVars
  <2>2. OneL1
    BY <2>1 DEF OneChain
  <2> QED BY <2>1, <2>2, SameL1 DEF OneL1, FarBehind
<1>4. ASSUME Next, ~(\E h \in 0..MaxL1 : L1Reorg(h))
      PROVE  OneL1'
  <2>1. UNCHANGED reorgs
    BY <1>4, NextCases, EngineActionFrame
       DEF L1Grow, Finalize, ForceReset, Restart, ResetEngineQueue, ResetStages, Signal, Step,
           l1Vars
  <2>2. OneL1
    BY <2>1 DEF OneChain
  <2>3. CASE \E batch \in BOOLEAN : L1Grow(batch)
    BY <1>1, <2>2, <2>3, L1GrowOneL1
  <2>4. CASE \E h \in 1..MaxL1 : Finalize(h)
    BY <1>1, <2>2, <2>4, FinalizeOneL1
  <2>5. CASE EngineAction
    BY <1>1, <2>2, <2>5, EngineActionOneL1
  <2>6. CASE ForceReset \/ Signal
    <3>1. (resetting' = 0 \/ resetting' = resetting)
          /\ UNCHANGED <<l1, traversal, origin, attributes, unsafeHead, safeHead, finalizedHead, labels>>
      BY <2>6 DEF ForceReset, Signal, l1Vars, pipelineVars, engineVars, finalizedVars
    <3> QED BY <2>2, <3>1, SameL1 DEF OneL1, FarBehind
  <2>7. CASE Restart \/ ResetEngineQueue
    BY <1>1, <2>2, <2>7, ResetOneL1 DEF Restart, ResetEngineQueue, l1Vars
  <2>9. CASE ResetStages
    <3>1. /\ resetting = 1 /\ resetting' = 2 /\ traversal' = origin
          /\ UNCHANGED <<l1, origin, attributes, unsafeHead, safeHead, finalizedHead, labels>>
      BY <2>9 DEF ResetStages, l1Vars, engineVars, finalizedVars
    <3>2. Height(origin) \in Nat
      BY <1>1, HeightType DEF TypeOK
    <3> QED BY <2>2, <3>1, <3>2, SameL1 DEF OneL1, FarBehind
  <2>11. CASE Step("done") \/ Step("reset") \/ Step("temporary")
    BY <1>1, <2>2, <2>11, StepOneL1
  <2> QED BY <1>4, <2>3, <2>4, <2>5, <2>6, <2>7, <2>9, <2>11, NextCases
<1> QED BY <1>2, <1>3, <1>4

\* So it is an invariant.
LEMMA SpecOneChain == Spec => [](IInv /\ HeadsInv /\ OneChain)
<1>1. Init => OneChain
  BY InitOneL1 DEF OneChain
<1>2. OneChain /\ IInv /\ HeadsInv /\ [Next]_vars => OneChain'
  BY NextOneChain
<1> QED BY SpecHeads, <1>1, <1>2, PTL DEF Spec

\* As long as L1 is not reorganised, no reset or restart makes a block safe that L1 does
\* not derive up to the origin of the pipeline, once that has caught up.
THEOREM ResetHarmlessTheorem == Spec => []ResetHarmless
<1>1. IInv /\ HeadsInv /\ OneChain => ResetHarmless
  <2> SUFFICES ASSUME IInv, HeadsInv, OneChain, reorgs = 0, resetting = 2,
                      Height(origin) >= Height(unsafeHead.org), Derives(origin, finalizedHead)
               PROVE  Derives(origin, safeHead)
    BY DEF ResetHarmless, SafeFromL1
  <2>1. /\ OneL1 /\ TypeOK /\ L1Laws /\ Derives(l1, safeHead) /\ FarBehind /\ Canonical(origin)
    BY DEF OneChain, OneL1, IInv
  <2>2. /\ l1 \in L1Block /\ origin \in L1Block /\ safeHead \in L2Block
        /\ unsafeHead \in L2Block /\ SeqWindowSize \in Nat
    BY <2>1, ParametersAssumption DEF TypeOK, OneL1
  <2>3. CASE Number(safeHead) + SeqWindowSize + 1 <= Number(unsafeHead)
    <3>1. /\ Number(safeHead) \in Nat /\ Number(unsafeHead) \in Nat /\ Height(origin) \in Nat
          /\ Number(unsafeHead) = Height(unsafeHead.org)
      BY <2>2, NumberType, HeightType DEF Height
    <3>2. Number(safeHead) + SeqWindowSize + 1 <= Height(origin)
      BY <2>2, <2>3, <3>1
    <3>3. Height(origin) <= Len(Derived(origin)) + SeqWindowSize /\ Len(Derived(origin)) \in Nat
      <4>1. Height(origin) \in 0..Height(l1) /\ Height(origin) \in 0..Height(origin)
        BY <2>1, <2>2, <3>1, HeightType DEF Canonical
      <4>2. Derived(origin) = DerivedAt(Height(origin))
        BY <2>1, <2>2, <4>1, CanonicalDerived
      <4>3. Height(origin) <= Len(DerivedAt(Height(origin))) + SeqWindowSize
        BY <2>1, <4>1 DEF L1Laws
      <4> QED BY <2>2, <4>2, <4>3, DerivedType
    <3>4. Number(safeHead) <= Height(origin) /\ Number(safeHead) <= Len(Derived(origin))
      BY <2>2, <3>1, <3>2, <3>3
    <3> QED BY <2>1, <2>2, <3>4, DerivesDown
  <2> QED BY <2>1, <2>3 DEF FarBehind
<1> QED BY SpecOneChain, <1>1, PTL

(***************************************************************************)
(* Without resets either: what is finalized is what the L1 chain up to the *)
(* block of its finality data derives.                                     *)
(***************************************************************************)
\* The heads that the engine refuses for ever.
Forked == unsafeHead # NoBlock /\ ~Consistent

\* Nothing was derived yet.
AtGenesis ==
    /\ safeHead = GenesisL2 /\ finalizedHead = GenesisL2
    /\ labels.safe = GenesisL2 /\ finalityData = <<>>

SteadyParts ==
    /\ resetting # 2 => Forked \/ AtGenesis
    /\ Canonical(finalizedL1)
    /\ Derives(origin, safeHead) /\ Derives(finalizedFrom, finalizedHead)
    /\ \A i \in DOMAIN finalityData : /\ Canonical(finalityData[i].l1)
                                      /\ Derives(finalityData[i].l1, finalityData[i].l2)
Steady == reorgs = 0 /\ resets = 0 => SteadyParts

\* Initially nothing is finalized but genesis.
LEMMA InitSteady == Init => SteadyParts
<1> SUFFICES ASSUME Init PROVE SteadyParts
  OBVIOUS
<1>1. l1 = <<>> /\ l1 \in L1Block
  BY DEF Init, L1Block
<1>2. Canonical(<<>>) /\ Derives(<<>>, GenesisL2)
  BY <1>1, ChainCanonical, DerivesGenesis
<1>3. labels.safe = GenesisL2
  BY DEF Init
<1>4. \A i \in DOMAIN <<>> : FALSE
  OBVIOUS
<1> QED BY <1>2, <1>3, <1>4 DEF Init, SteadyParts, AtGenesis

\* PostProcessSafeL2 records what the origin derives.
LEMMA PostProcessSteady ==
    ASSUME TypeOK, OneL1, SteadyParts, finalityData' = PostProcessSafeL2, UNCHANGED l1
    PROVE  \A i \in DOMAIN finalityData' : /\ Canonical(finalityData'[i].l1)
                                           /\ Derives(finalityData'[i].l1, finalityData'[i].l2)
<1> DEFINE fd == PostProcessSafeL2
           old == finalityData
           T == [l2 : L2Block, l1 : L1Block]
           Good(x) == Canonical(x.l1) /\ Derives(x.l1, x.l2)
<1>1. /\ fd \in Seq(T) /\ old \in Seq(T) /\ safeHead \in L2Block /\ origin \in L1Block
      /\ l1 \in L1Block /\ L1Laws /\ Canonical(origin) /\ Derives(origin, safeHead)
      /\ \A i \in DOMAIN old : Good(old[i])
  BY PostProcessType DEF TypeOK, OneL1, SteadyParts
<1>2. fd = finalityData'
  OBVIOUS
<1>3. Good(Entry(safeHead, origin))
  BY <1>1 DEF Entry
<1> SUFFICES \A i \in DOMAIN fd : Good(fd[i])
  BY <1>2
<1>4. CASE NewL1(old, origin)
  <2>1. PICK skip \in {0, 1} :
            /\ skip <= Len(old) /\ Len(fd) = Len(old) - skip + 1
            /\ \A i \in 1..(Len(old) - skip) : fd[i] = old[i + skip]
            /\ fd[Len(fd)] = Entry(safeHead, origin)
    BY <1>4, PostProcessShape DEF OneL1
  <2> HIDE DEF fd, old, T, Good
  <2>2. DOMAIN fd = 1..Len(fd) /\ DOMAIN old = 1..Len(old) /\ Len(old) \in Nat /\ Len(fd) \in Nat
    BY <1>1
  <2>3. ASSUME NEW i \in DOMAIN fd, i # Len(fd)
        PROVE  Good(fd[i])
    <3>1. i \in Nat /\ 1 <= i /\ i < Len(fd)
      BY <2>2, <2>3
    <3>2. i \in 1..(Len(old) - skip) /\ i + skip \in 1..Len(old)
      BY <2>1, <2>2, <3>1
    <3>3. i + skip \in DOMAIN old /\ fd[i] = old[i + skip]
      BY <2>1, <2>2, <3>2
    <3> QED BY <1>1, <3>3
  <2> QED BY <1>3, <2>1, <2>3
<1>5. CASE ~NewL1(old, origin)
  <2>1. /\ Len(fd) = Len(old) /\ Len(old) > 0
        /\ \A i \in 1..(Len(old) - 1) : fd[i] = old[i]
        /\ fd[Len(fd)] = Entry(safeHead, old[Len(old)].l1)
    BY <1>5, PostProcessShape
  <2>2. Len(old) \in DOMAIN old /\ old # <<>>
    BY <1>1, <2>1
  <2> DEFINE b == old[Len(old)].l1
  <2>3. old[Len(old)] \in T
    <3> HIDE DEF T, old
    <3> QED BY <1>1, <2>2, ElementType
  <2>4. b \in L1Block /\ Canonical(b)
    BY <1>1, <2>2, <2>3
  <2>5. Height(origin) <= Height(b)
    BY <1>1, <1>5, <2>4, HeightType DEF NewL1
  <2> HIDE DEF b
  <2>6. Derives(b, safeHead)
    BY <1>1, <2>4, <2>5, DerivesUp
  <2>7. Good(Entry(safeHead, b))
    BY <2>4, <2>6 DEF Entry
  <2> HIDE DEF fd, old, T, Good
  <2>8. DOMAIN fd = 1..Len(fd) /\ DOMAIN old = 1..Len(old) /\ Len(old) \in Nat /\ Len(fd) \in Nat
    BY <1>1
  <2> QED BY <1>1, <2>1, <2>7, <2>8 DEF b
<1> QED BY <1>4, <1>5

\* What tryFinalize takes from data that names canonical blocks only.
LEMMA TryFinalizeSteady ==
    ASSUME NEW fd, NEW b, NEW result, Canonical(b),
           \A i \in DOMAIN fd : Canonical(fd[i].l1) /\ Derives(fd[i].l1, fd[i].l2),
           Derives(finalizedFrom, finalizedHead), TryFinalize(fd, b, result)
    PROVE  result # "reset" /\ Derives(finalizedFrom', finalizedHead')
<1>1. CASE result = "done" /\ UNCHANGED <<finalizedVars, needFCUCall>>
  BY <1>1 DEF finalizedVars
<1>2. CASE result = "temporary" /\ UNCHANGED <<finalizedVars, needFCUCall>>
  BY <1>2 DEF finalizedVars
<1>3. ASSUME NEW i \in DOMAIN fd,
             IF OnFinalizingChain(b, fd[i].l1)
             THEN /\ result = "done" /\ finalizedHead' = fd[i].l2
                  /\ finalizedFrom' = fd[i].l1 /\ needFCUCall' = TRUE
             ELSE result = "reset" /\ UNCHANGED <<finalizedVars, needFCUCall>>
      PROVE  result # "reset" /\ Derives(finalizedFrom', finalizedHead')
  <2>1. OnFinalizingChain(b, fd[i].l1)
    BY DEF OnFinalizingChain
  <2>2. result = "done" /\ finalizedHead' = fd[i].l2 /\ finalizedFrom' = fd[i].l1
    BY <1>3, <2>1, Zenon
  <2>3. Derives(fd[i].l1, fd[i].l2)
    OBVIOUS
  <2> QED BY <2>2, <2>3
<1> QED BY <1>1, <1>2, <1>3 DEF TryFinalize

\* A finality signal.
LEMMA FinalizeSteady ==
    ASSUME TypeOK, SteadyParts, NEW h \in 1..MaxL1, Finalize(h)
    PROVE  SteadyParts'
<1>1. /\ h \in 0..Height(l1) /\ finalizedL1' = L1At(l1, h)
      /\ UNCHANGED <<l1, traversal, origin, attributes, resetting, unsafeHead, safeHead, labels,
                     finalityData>>
  BY DEF Finalize, pipelineVars
<1>2. l1 \in L1Block
  BY DEF TypeOK
<1>3. Canonical(L1At(l1, h))
  BY <1>1, <1>2, CanonicalBelow, ChainCanonical
<1>4. PICK result \in {"done", "reset", "temporary"} :
         TryFinalize(finalityData, L1At(l1, h), result)
  BY DEF Finalize
<1>5. Derives(finalizedFrom', finalizedHead')
  BY <1>3, <1>4, TryFinalizeSteady DEF SteadyParts
<1>6. AtGenesis => AtGenesis'
  <2> SUFFICES ASSUME AtGenesis PROVE finalizedHead' = finalizedHead
    BY <1>1 DEF AtGenesis
  <2>1. finalityData = <<>>
    BY DEF AtGenesis
  <2>2. ~(\E i \in DOMAIN finalityData : TRUE)
    BY <2>1
  <2>3. UNCHANGED <<finalizedVars, needFCUCall>>
    BY <1>4, <2>2, Zenon DEF TryFinalize
  <2> QED BY <2>3 DEF finalizedVars
<1>7. Forked => Forked'
  BY <1>1 DEF Forked, Consistent
<1>8. (resetting # 2 => Forked \/ AtGenesis)'
  BY <1>1, <1>6, <1>7 DEF SteadyParts
<1> QED BY <1>1, <1>3, <1>5, <1>8, SameL1 DEF SteadyParts

\* A step of the pipeline.
LEMMA StepSteady ==
    ASSUME IInv, TypeOK', HeadsInv, HeadsInv', OneL1, SteadyParts, NEW result, Step(result)
    PROVE  SteadyParts'
<1> DEFINE fd == PostProcessSafeL2
<1>1. /\ finalityData' = fd /\ OnDerivationL1End(fd, result)
      /\ UNCHANGED <<l1, safeHead, labels, finalizedL1>> /\ TypeOK /\ resetting = 2
  BY DEF Step, l1Vars, IInv
<1>2. \A i \in DOMAIN fd : Canonical(fd[i].l1) /\ Derives(fd[i].l1, fd[i].l2)
  BY <1>1, PostProcessSteady
<1> HIDE DEF fd
<1>3. Canonical(finalizedL1) /\ Derives(finalizedFrom, finalizedHead) /\ Derives(origin, safeHead)
  BY DEF SteadyParts
<1>4. result # "reset" /\ Derives(finalizedFrom', finalizedHead')
  <2>1. CASE result = "done" /\ UNCHANGED finalizedVars
    BY <1>3, <2>1 DEF finalizedVars
  <2>2. CASE TryFinalize(fd, finalizedL1, result)
    BY <1>2, <1>3, <2>2, TryFinalizeSteady
  <2> QED BY <1>1, <2>1, <2>2 DEF OnDerivationL1End
<1>5. OneL1' /\ Height(origin) <= Height(origin') /\ resetting' = 2
  BY <1>1, <1>4, StepOneL1
<1>6. /\ l1 \in L1Block /\ origin \in L1Block /\ origin' \in L1Block /\ safeHead \in L2Block
      /\ L1Laws /\ Canonical(origin) /\ Canonical(origin')
  BY <1>1, <1>5 DEF TypeOK, OneL1, Canonical
<1>7. Derives(origin', safeHead)
  BY <1>3, <1>5, <1>6, DerivesUp
<1> QED BY <1>1, <1>2, <1>3, <1>4, <1>5, <1>7, SameL1 DEF SteadyParts

\* The first reset of the engine queue finds genesis.
LEMMA ResetSteady ==
    ASSUME TypeOK, HeadsInv, OneL1, SteadyParts, ResetEngineQueue
    PROVE  SteadyParts'
<1>1. /\ resetting = 0 /\ ~needFCUCall /\ ResetHeads
      /\ UNCHANGED <<l1, traversal, labels, finalizedFrom, finalizedL1>>
  BY DEF ResetEngineQueue, l1Vars
<1>0. labels.safe = GenesisL2
  <2>1. ~Forked
    BY <1>1 DEF HeadsInv, HeadsOrdered, Forked
  <2> QED BY <1>1, <2>1 DEF SteadyParts, AtGenesis
<1>2. /\ labels.unsafe \in L2Block /\ labels.safe \in L2Block /\ labels.finalized \in L2Block
      /\ labels.safe = GenesisL2 /\ finalizedFrom \in L1Block
      /\ IsAncestor(labels.finalized, labels.unsafe) /\ IsAncestor(labels.finalized, labels.safe)
  BY <1>0, <1>1 DEF TypeOK, HeadsInv, LabelsFollow, ResetHeads
<1>3. Number(GenesisL2) = 0 /\ GenesisL2 \in L2Block /\ Number(labels.finalized) \in Nat
  BY <1>2, GenesisType, NumberType DEF GenesisL2
<1>4. labels.finalized = GenesisL2
  BY <1>2, <1>3, AncestorSameNumber
<1>5. /\ safeHead' \in L2Block /\ origin' = PipelineOrigin(safeHead')
      /\ finalizedHead' = labels.finalized
      /\ FoundSafe(safeHead', labels.unsafe, labels.safe, labels.finalized)
  BY <1>1, ResetHeadsResult
<1>6. safeHead' = labels.finalized \/ Number(safeHead') < Number(labels.safe)
  BY <1>2, <1>5, FoundSafeShape
<1>7. safeHead' = GenesisL2
  BY <1>2, <1>3, <1>4, <1>5, <1>6, NumberType
<1>8. origin' \in L1Block
  BY <1>5, PipelineOriginType
<1>9. Derives(origin', GenesisL2) /\ Derives(finalizedFrom, GenesisL2)
  BY <1>2, <1>8, DerivesGenesis
<1>10. finalityData' = <<>>
  BY <1>1 DEF ResetHeads, ResetData
<1>11. \A i \in DOMAIN <<>> : FALSE
  OBVIOUS
<1>12. Canonical(finalizedL1)'
  BY <1>1, SameL1 DEF SteadyParts, Canonical
<1>13. AtGenesis'
  BY <1>1, <1>2, <1>4, <1>5, <1>7, <1>10 DEF AtGenesis
<1> QED BY <1>1, <1>4, <1>5, <1>7, <1>9, <1>10, <1>11, <1>12, <1>13 DEF SteadyParts

\* The steps of the engine controller and of the attributes handler, but for the reset
\* that a consolidation asks for.
LEMMA EngineSteady ==
    ASSUME TypeOK, HeadsInv, OneL1, SteadyParts, EngineAction, ~ConsolidateNeedsReset
    PROVE  SteadyParts'
<1>1. UNCHANGED <<l1, origin, finalizedHead, finalizedFrom, finalizedL1, finalityData>>
  BY EngineActionFrame
<1>2. Derives(origin', safeHead') /\ (resetting' # 2 => (Forked \/ AtGenesis)')
  <2>1. CASE TryUpdateEngine \/ UpdateUnanswered
    <3>1. /\ labels'.safe = safeHead
          /\ UNCHANGED <<unsafeHead, safeHead, resetting>> /\ ~Forked
      BY <2>1 DEF TryUpdateEngine, UpdateUnanswered, Told, pipelineVars, Forked, OneL1
    <3> QED BY <1>1, <3>1 DEF SteadyParts, AtGenesis
  <2>2. CASE UpdateNeedsReset
    <3>1. Forked /\ UNCHANGED <<unsafeHead, safeHead>>
      BY <2>2 DEF UpdateNeedsReset, Forked
    <3> QED BY <1>1, <3>1 DEF SteadyParts, Forked, Consistent
  <2>3. CASE InsertUnsafePayload \/ InsertUnanswered
    <3>1. /\ labels'.safe = safeHead /\ ~needFCUCall /\ UNCHANGED <<safeHead, resetting>>
      BY <2>3 DEF InsertUnsafePayload, InsertUnanswered, MayInsert, Told, pipelineVars
    <3>2. ~Forked
      BY <3>1 DEF HeadsInv, HeadsOrdered, Forked
    <3> QED BY <1>1, <3>1, <3>2 DEF SteadyParts, AtGenesis
  <2>4. CASE ConsolidateNextSafeAttributes \/ ForceNextSafeAttributes
    <3>1. /\ resetting' = 2 /\ safeHead' = attributes
          /\ attributes # NoBlock /\ attributes # Refused
      BY <2>4 DEF ConsolidateNextSafeAttributes, ForceNextSafeAttributes, MayForce,
                  Consolidates, HasAttributes, Matches, SetSafeHead
    <3> QED BY <1>1, <3>1, AttributesDerived
  <2>5. CASE ForceUnanswered \/ ForceRejected
    <3>1. resetting' = 2 /\ safeHead' = safeHead
      BY <2>5 DEF ForceUnanswered, ForceRejected, MayForce, Consolidates, HasAttributes,
                  pipelineVars
    <3> QED BY <1>1, <3>1 DEF SteadyParts
  <2> QED BY <2>1, <2>2, <2>3, <2>4, <2>5 DEF EngineAction
<1> QED BY <1>1, <1>2, SameL1 DEF SteadyParts

\* Each step preserves it, as long as there is no reorganisation, reset or restart.
LEMMA NextSteady ==
    IInv /\ HeadsInv /\ OneChain /\ Steady /\ [Next]_vars => Steady'
<1> SUFFICES ASSUME IInv, HeadsInv, OneChain, Steady, [Next]_vars, reorgs' = 0, resets' = 0
             PROVE  SteadyParts'
  BY DEF Steady
<1>1. TypeOK /\ TypeOK' /\ HeadsInv' /\ reorgs \in Nat /\ resets \in Nat
  BY NextIInv, NextHeads, ParametersAssumption DEF IInv, TypeOK
<1>2. ~(ForceReset \/ Restart \/ ConsolidateNeedsReset \/ \E h \in 0..MaxL1 : L1Reorg(h))
  <2> SUFFICES ASSUME ForceReset \/ Restart \/ ConsolidateNeedsReset
                      \/ \E h \in 0..MaxL1 : L1Reorg(h)
               PROVE  FALSE
    OBVIOUS
  <2>1. resets' = resets + 1 \/ reorgs' = reorgs + 1
    BY DEF ForceReset, Restart, ConsolidateNeedsReset, L1Reorg
  <2> QED BY <1>1, <2>1
<1>3. CASE UNCHANGED vars
  <2>1. UNCHANGED <<l1, reorgs, resets, origin, resetting, safeHead, finalizedHead, labels,
                    finalizedL1, finalityData, finalizedFrom, unsafeHead>>
    BY <1>3 DEF vars, l1Vars, countVars, pipelineVars, engineVars, finalizedVars, finalizerVars
  <2>2. SteadyParts
    BY <2>1 DEF Steady
  <2> QED BY <2>1, <2>2, SameL1 DEF SteadyParts, Forked, AtGenesis, Consistent
<1>4. ASSUME Next
      PROVE  SteadyParts'
  <2>0. EngineAction => UNCHANGED <<reorgs, resets>>
    <3>1. EngineAction => UNCHANGED reorgs
      BY EngineActionFrame
    <3>2. EngineAction => UNCHANGED resets
      BY <1>2 DEF EngineAction, TryUpdateEngine, UpdateNeedsReset, UpdateUnanswered,
         InsertUnsafePayload, InsertUnanswered, ConsolidateNextSafeAttributes,
         ForceNextSafeAttributes, ForceUnanswered, ForceRejected, countVars
    <3> QED BY <3>1, <3>2
  <2>1. UNCHANGED <<reorgs, resets>>
    <3>1. CASE EngineAction
      BY <2>0, <3>1
    <3>2. CASE ResetEngineQueue \/ ResetStages \/ Signal
      BY <3>2 DEF ResetEngineQueue, ResetStages, Signal, l1Vars, countVars
    <3>3. CASE \/ \E batch \in BOOLEAN : L1Grow(batch)
               \/ \E h \in 1..MaxL1 : Finalize(h)
      BY <3>3 DEF L1Grow, Finalize, countVars
    <3>4. CASE Step("done") \/ Step("reset") \/ Step("temporary")
      BY <3>4 DEF Step, l1Vars
    <3> QED BY <1>2, <1>4, <3>1, <3>2, <3>3, <3>4, NextCases
  <2>2. OneL1 /\ SteadyParts
    BY <2>1 DEF OneChain, Steady
  <2>3. CASE \E batch \in BOOLEAN : L1Grow(batch)
    <3>1. UNCHANGED <<origin, resetting, safeHead, finalizedHead, labels,
                      finalizedL1, finalityData, finalizedFrom, unsafeHead>>
      BY <2>3 DEF L1Grow, pipelineVars, engineVars, finalizedVars, finalizerVars
    <3>2. \A b \in L1Block : Canonical(b) => Canonical(b)'
      BY <1>1, <2>2, <2>3, L1GrowLaws DEF OneL1
    <3>3. /\ finalizedL1 \in L1Block
          /\ \A i \in DOMAIN finalityData : finalityData[i].l1 \in L1Block
      <4>1. finalityData \in Seq([l2 : L2Block, l1 : L1Block])
        BY <1>1 DEF TypeOK
      <4>2. \A i \in DOMAIN finalityData : finalityData[i] \in [l2 : L2Block, l1 : L1Block]
        BY <4>1, ElementType
      <4> QED BY <1>1, <4>2 DEF TypeOK
    <3>4. (resetting # 2 => Forked \/ AtGenesis)'
      BY <2>2, <3>1 DEF SteadyParts, Forked, AtGenesis, Consistent
    <3> QED BY <2>2, <3>1, <3>2, <3>3, <3>4 DEF SteadyParts
  <2>4. CASE \E h \in 1..MaxL1 : Finalize(h)
    BY <1>1, <2>2, <2>4, FinalizeSteady
  <2>5. CASE EngineAction
    BY <1>1, <1>2, <2>2, <2>5, EngineSteady
  <2>6. CASE Signal
    <3>1. UNCHANGED <<l1, origin, resetting, safeHead, finalizedHead, labels,
                      finalizedL1, finalityData, finalizedFrom, unsafeHead>>
      BY <2>6 DEF Signal, l1Vars, pipelineVars, engineVars, finalizedVars, finalizerVars
    <3> QED BY <2>2, <3>1, SameL1 DEF SteadyParts, Forked, AtGenesis, Consistent
  <2>7. CASE ResetEngineQueue
    BY <1>1, <2>2, <2>7, ResetSteady
  <2>8. CASE ResetStages
    <3>1. /\ resetting' = 2
          /\ UNCHANGED <<l1, origin, safeHead, finalizedHead, labels,
                         finalizedL1, finalityData, finalizedFrom>>
      BY <2>8 DEF ResetStages, l1Vars, engineVars, finalizedVars, finalizerVars
    <3> QED BY <2>2, <3>1, SameL1 DEF SteadyParts
  <2>10. CASE Step("done") \/ Step("reset") \/ Step("temporary")
    BY <1>1, <2>2, <2>10, StepSteady
  <2> QED BY <1>2, <1>4, <2>3, <2>4, <2>5, <2>6, <2>7, <2>8, <2>10, NextCases
<1> QED BY <1>2, <1>3, <1>4

\* So it is an invariant.
LEMMA SpecSteady == Spec => [](IInv /\ HeadsInv /\ OneChain /\ Steady)
<1>1. Init => Steady
  BY InitSteady DEF Steady
<1>2. IInv /\ HeadsInv /\ OneChain /\ Steady /\ [Next]_vars => Steady'
  BY NextSteady
<1> QED BY SpecOneChain, <1>1, <1>2, PTL DEF Spec

\* While neither L1 is reorganised nor the node reset or restarted, the finalized L1 chain
\* derives the finalized L2 block.
THEOREM SteadyFinalityTheorem == Spec => []SteadyFinality
<1>1. IInv /\ HeadsInv /\ OneChain /\ Steady => SteadyFinality
  <2> SUFFICES ASSUME IInv, OneChain, Steady, reorgs = 0, resets = 0
               PROVE  Derives(L1At(l1, l1Final), finalizedHead)
    BY DEF SteadyFinality, FinalReproducible
  <2> DEFINE b == L1At(l1, l1Final)
  <2>1. /\ l1 \in L1Block /\ finalizedFrom \in L1Block /\ finalizedHead \in L2Block
        /\ l1Final \in 0..Height(l1) /\ L1Laws /\ Derives(finalizedFrom, finalizedHead)
        /\ Canonical(finalizedFrom) /\ Height(finalizedFrom) <= l1Final
    BY DEF IInv, TypeOK, OneChain, OneL1, Steady, SteadyParts, FinalizedOnFinalChain
  <2>2. b \in L1Block /\ Height(b) = l1Final /\ Canonical(b)
    BY <2>1, L1AtType, CanonicalBelow, ChainCanonical
  <2> HIDE DEF b
  <2>3. Derives(b, finalizedHead)
    BY <2>1, <2>2, DerivesUp
  <2> QED BY <2>3 DEF b
<1> QED BY SpecSteady, <1>1, PTL
=============================================================================
