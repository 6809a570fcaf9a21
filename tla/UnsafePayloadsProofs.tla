------------------------ MODULE UnsafePayloadsProofs ------------------------
(***************************************************************************)
(* What holds of UnsafePayloads for every set of blocks, payload sizes and *)
(* memory limit.                                                           *)
(***************************************************************************)
EXTENDS UnsafePayloads, DataProofs

-----------------------------------------------------------------------------
(* Blocks and their ancestors. *)

\* Every block is on its own chain.
LEMMA AncestorReflexive ==
    ASSUME NEW b \in Blocks
    PROVE  IsAncestor(b, b)
<1>1. b \in Seq(Nat)
  BY BlocksAssumption
<1> QED
  BY <1>1 DEF IsAncestor, Number

\* What putting a block on top of a head relies on.
LEMMA AncestorOfParent ==
    ASSUME NEW a \in Blocks, NEW b \in Blocks, b # GenesisL2, IsAncestor(a, Parent(b))
    PROVE  IsAncestor(a, b)
<1>1. a \in Seq(Nat) /\ b \in Seq(Nat)
  BY BlocksAssumption
<1> QED
  BY <1>1, PrefixOfFront DEF IsAncestor, Number, Parent, GenesisL2

\* The parent of a block is another block.
LEMMA ParentDiffers ==
    ASSUME NEW b \in Blocks, b # GenesisL2
    PROVE  Parent(b) # b
<1>1. b \in Seq(Nat)
  BY BlocksAssumption
<1> QED
  BY <1>1, FrontShorter DEF Parent, GenesisL2

\* Numbers of blocks, and the parent as an ancestor.
LEMMA ParentFacts ==
    ASSUME NEW b \in Blocks
    PROVE  /\ Number(b) \in Nat
           /\ b # GenesisL2 => /\ Parent(b) \in Blocks /\ IsAncestor(Parent(b), b)
                               /\ Number(b) = Number(Parent(b)) + 1
<1>1. b \in Seq(Nat)
  BY BlocksAssumption
<1>2. Number(b) \in Nat
  BY <1>1 DEF Number
<1>3. ASSUME b # GenesisL2
      PROVE  /\ Parent(b) \in Blocks /\ IsAncestor(Parent(b), b)
             /\ Number(b) = Number(Parent(b)) + 1
  <2>1. Parent(b) \in Blocks
    BY <1>3, BlocksAssumption
  <2>2. Len(b) - 1 \in 0..Len(b) /\ Len(Parent(b)) = Len(b) - 1
    BY <1>1, <1>3, FrontShorter DEF Parent, GenesisL2
  <2> QED
    BY <1>2, <2>1, <2>2 DEF IsAncestor, Number, Parent
<1> QED
  BY <1>2, <1>3

\* Ancestors of an ancestor.
LEMMA AncestorTransitive ==
    ASSUME NEW a \in Blocks, NEW b \in Blocks, NEW c \in Blocks,
           IsAncestor(a, b), IsAncestor(b, c)
    PROVE  IsAncestor(a, c)
<1>1. c \in Seq(Nat) /\ Len(a) \in Nat /\ Len(b) \in Nat /\ Len(c) \in Nat
  BY BlocksAssumption, ParentFacts DEF Number
<1>2. Len(a) <= Len(b) /\ Len(b) <= Len(c) /\ SubSeq(b, 1, Len(a)) = a
      /\ SubSeq(c, 1, Len(b)) = b
  BY DEF IsAncestor, Number
<1>3. Len(b) \in 0..Len(c) /\ Len(a) \in 0..Len(b) /\ Len(a) <= Len(c)
  BY <1>1, <1>2
<1>4. SubSeq(c, 1, Len(a)) = a
  BY <1>1, <1>2, <1>3, PrefixOfPrefix
<1> QED
  BY <1>3, <1>4 DEF IsAncestor, Number

\* Of two blocks on one chain the lower is an ancestor of the other.
LEMMA LowerIsAncestor ==
    ASSUME NEW a \in Blocks, NEW b \in Blocks, NEW c \in Blocks,
           IsAncestor(a, c), IsAncestor(b, c), Number(a) <= Number(b)
    PROVE  IsAncestor(a, b)
<1>1. c \in Seq(Nat) /\ Len(a) \in Nat /\ Len(b) \in Nat /\ Len(c) \in Nat
  BY BlocksAssumption, ParentFacts DEF Number
<1>2. Len(a) <= Len(b) /\ Len(b) <= Len(c) /\ SubSeq(c, 1, Len(a)) = a
      /\ SubSeq(c, 1, Len(b)) = b
  BY DEF IsAncestor, Number
<1>3. Len(b) \in 0..Len(c) /\ Len(a) \in 0..Len(b)
  BY <1>1, <1>2
<1>4. SubSeq(b, 1, Len(a)) = a
  BY <1>1, <1>2, <1>3, PrefixOfPrefix
<1> QED
  BY <1>2, <1>4 DEF IsAncestor, Number

-----------------------------------------------------------------------------
(* Types. *)

\* The part of TypeOK that does not depend on the sizes adding up.
QueueTypes == queue \subseteq Envelopes /\ blockHashes \subseteq Blocks
HeadTypes ==
    /\ unsafeHead \in Blocks /\ safeHead \in Blocks
    /\ engineHead \in Blocks /\ needFCUCall \in BOOLEAN
    /\ attributes = NoAttributes \/ attributes \in [block : Blocks, valid : BOOLEAN]
CountTypes ==
    /\ resetting \in BOOLEAN
    /\ receipts \in 0..MaxReceipts /\ faults \in 0..MaxFaults /\ resets \in 0..MaxResets
Typing == QueueTypes /\ HeadTypes /\ CountTypes

\* What attributes at hand are, and those of no block.
LEMMA AttributesFacts ==
    ASSUME HeadTypes
    PROVE  /\ NoAttributes.valid = FALSE
           /\ attributes # NoAttributes => /\ attributes.block \in Blocks
                                           /\ attributes.valid \in BOOLEAN
  BY DEF HeadTypes, NoAttributes

LEMMA EnvelopeBlocks ==
    ASSUME QueueTypes, NEW e \in Lowest(queue)
    PROVE  e \in queue /\ e \in Envelopes /\ e.block \in Blocks /\ e.block # GenesisL2
  BY DEF QueueTypes, Lowest, Envelopes

LEMMA QueueTypesStep == QueueTypes /\ CountTypes /\ [Next]_vars => QueueTypes'
<1> SUFFICES ASSUME QueueTypes, CountTypes, [Next]_vars PROVE QueueTypes'
  OBVIOUS
<1>1. ASSUME UNCHANGED queueVars PROVE QueueTypes'
  BY <1>1 DEF QueueTypes, queueVars, Envelopes
<1>2. ASSUME NEW e \in queue, Pop(e) PROVE QueueTypes'
  BY <1>2 DEF QueueTypes, Pop, Forget, Envelopes
<1>3. ASSUME NEW b \in Blocks \ {GenesisL2}, AddUnsafePayload(b) PROVE QueueTypes'
  <2>1. CASE Push([block |-> b, receipt |-> receipts])
    <3>1. [block |-> b, receipt |-> receipts] \in Envelopes
      BY <1>3, PayloadsAssumption DEF Envelopes, AddUnsafePayload, CountTypes
    <3>2. queue' \subseteq Envelopes
      BY <2>1, <3>1 DEF Push, QueueTypes
    <3>3. blockHashes' \subseteq Blocks
      BY <2>1 DEF Push, Forget, QueueTypes
    <3> QED
      BY <3>2, <3>3 DEF QueueTypes, Envelopes
  <2> QED
    BY <1>1, <1>3, <2>1 DEF AddUnsafePayload
<1>4. CASE TryUpdateEngine \/ UpdateNeedsReset \/ UpdateUnanswered \/ RequestReset
  BY <1>1, <1>4 DEF TryUpdateEngine, UpdateNeedsReset, UpdateUnanswered, RequestReset
<1>5. CASE ProceedLowest
  BY <1>1, <1>2, <1>5
  DEF ProceedLowest, SkipStale, InsertUnsafePayload, InsertLater, DropAndReset, Lowest
<1>6. CASE NothingToApply
  BY <1>1, <1>2, <1>6 DEF NothingToApply, Lowest
<1>7. CASE UNCHANGED vars
  BY <1>1, <1>7 DEF vars
<1> QED
  BY <1>3, <1>4, <1>5, <1>6, <1>7 DEF Next, SyncStep

LEMMA HeadTypesStep == QueueTypes /\ HeadTypes /\ [Next]_vars => HeadTypes'
<1> SUFFICES ASSUME QueueTypes, HeadTypes, [Next]_vars PROVE HeadTypes'
  OBVIOUS
<1> USE DEF HeadTypes, headVars, engineVars
<1>1. CASE (\E b \in Blocks \ {GenesisL2} : AddUnsafePayload(b)) \/ RequestReset
  BY <1>1 DEF AddUnsafePayload, RequestReset, NoAttributes
<1>2. CASE TryUpdateEngine \/ UpdateNeedsReset \/ UpdateUnanswered
  BY <1>2 DEF TryUpdateEngine, UpdateNeedsReset, UpdateUnanswered, MaybeMoved, NoAttributes
<1>3. CASE ProceedLowest
  BY <1>3, EnvelopeBlocks
  DEF ProceedLowest, SkipStale, InsertUnsafePayload, InsertLater, DropAndReset, MaybeMoved,
      NoAttributes
<1>4. CASE NextAttributes
  BY <1>4 DEF NextAttributes, NoAttributes
<1>5. CASE ConsolidateNextSafeAttributes \/ ForceNextSafeAttributes
  <2>1. attributes.block \in Blocks
    BY <1>5, AttributesFacts
    DEF ConsolidateNextSafeAttributes, ForceNextSafeAttributes, MayForce, HasAttributes
  <2> QED
    BY <1>5, <2>1
    DEF ConsolidateNextSafeAttributes, ForceNextSafeAttributes, SetSafeHead, NoAttributes
<1>6. CASE ConsolidateNeedsReset \/ ForceNeedsReset \/ ForceRejected
  BY <1>6
  DEF ConsolidateNeedsReset, ForceNeedsReset, ForceRejected, MaybeMoved, NoAttributes
<1>7. CASE ForceUnanswered
  <2>1. attributes.block \in Blocks
    BY <1>7, AttributesFacts DEF ForceUnanswered, MayForce, HasAttributes
  <2> QED
    BY <1>7, <2>1 DEF ForceUnanswered, MaybeMoved, NoAttributes
<1>8. CASE \E u, s \in Blocks : ResetHeads(u, s)
  BY <1>8 DEF ResetHeads, NoAttributes
<1>9. CASE UNCHANGED <<headVars, engineVars, attributes, resetVars, faults>>
  BY <1>9 DEF NoAttributes
<1>10. CASE UNCHANGED vars
  BY <1>10 DEF vars, NoAttributes
<1> QED
  BY <1>1, <1>2, <1>3, <1>4, <1>5, <1>6, <1>7, <1>8, <1>9, <1>10
  DEF Next, SyncStep, DerivationStep

\* A counter of the bounds grows by one below its bound, or stays.
Counts(n, next, max) == next = n \/ (n < max /\ next = n + 1)

LEMMA CountsInBound ==
    ASSUME NEW max \in Nat, NEW n \in 0..max, NEW next, Counts(n, next, max)
    PROVE  next \in 0..max
  BY DEF Counts

LEMMA CountTypesStep == CountTypes /\ [Next]_vars => CountTypes'
<1> SUFFICES ASSUME CountTypes, [Next]_vars PROVE CountTypes'
  OBVIOUS
<1> DEFINE Step == /\ resetting' \in BOOLEAN
                   /\ Counts(receipts, receipts', MaxReceipts)
                   /\ Counts(faults, faults', MaxFaults)
                   /\ Counts(resets, resets', MaxResets)
<1> SUFFICES Step
  <2>1. MaxReceipts \in Nat /\ MaxFaults \in Nat /\ MaxResets \in Nat
    BY PayloadsAssumption
  <2> QED
    BY <2>1, CountsInBound DEF CountTypes
<1>0. resetting \in BOOLEAN
  BY DEF CountTypes
<1>1. CASE (\E b \in Blocks \ {GenesisL2} : AddUnsafePayload(b)) \/ RequestReset
  BY <1>0, <1>1 DEF AddUnsafePayload, RequestReset, ResetPipeline, resetVars, Counts
<1>2. CASE TryUpdateEngine \/ UpdateNeedsReset \/ UpdateUnanswered
  BY <1>0, <1>2
  DEF TryUpdateEngine, UpdateNeedsReset, UpdateUnanswered, Fault, resetVars, Counts
<1>3. CASE ProceedLowest
  BY <1>0, <1>3
  DEF ProceedLowest, SkipStale, InsertUnsafePayload, InsertLater, DropAndReset,
      ResetPipeline, resetVars, Counts
<1>4. CASE DerivationStep /\ UNCHANGED receipts
  BY <1>0, <1>4
  DEF DerivationStep, NextAttributes, ConsolidateNextSafeAttributes, ConsolidateNeedsReset,
      ForceNextSafeAttributes, ForceUnanswered, ForceNeedsReset, ForceRejected, ResetHeads,
      ResetPipeline, Fault, resetVars, Counts
<1>5. CASE UNCHANGED vars
  BY <1>0, <1>5 DEF vars, resetVars, Counts
<1> QED
  BY <1>1, <1>2, <1>3, <1>4, <1>5 DEF Next, SyncStep

\* Envelopes, hashes, heads and counters keep their types whatever is delivered, applied,
\* derived or reset.
LEMMA TypingInvariant == Spec => []Typing
<1>1. Init => Typing
  <2>1. /\ GenesisL2 \in Blocks
        /\ MaxReceipts \in Nat /\ MaxFaults \in Nat /\ MaxResets \in Nat
    BY BlocksAssumption, PayloadsAssumption
  <2>2. 0 \in 0..MaxReceipts /\ 0 \in 0..MaxFaults /\ 0 \in 0..MaxResets
    BY <2>1
  <2> QED
    BY <2>1, <2>2, ZenonT(30) DEF Init, Typing, QueueTypes, HeadTypes, CountTypes
<1>2. Typing /\ [Next]_vars => Typing'
  BY QueueTypesStep, HeadTypesStep, CountTypesStep DEF Typing
<1> QED
  BY <1>1, <1>2, PTL DEF Spec

-----------------------------------------------------------------------------
(* The queue. *)

\* The queue never holds a block twice, whatever is delivered again, popped or evicted:
\* NoDuplicates is inductive, since Push refuses a block whose hash is recorded and Pop
\* forgets the hash of a block that, by the first part, no other envelope has.
THEOREM NoDuplicatesTheorem == Spec => []NoDuplicates
<1>1. Init => NoDuplicates
  BY DEF Init, NoDuplicates, BlocksOf
<1>2. NoDuplicates /\ [Next]_vars => NoDuplicates'
  <2> SUFFICES ASSUME NoDuplicates, [Next]_vars PROVE NoDuplicates'
    OBVIOUS
  <2>1. ASSUME UNCHANGED queueVars PROVE NoDuplicates'
    BY <2>1 DEF NoDuplicates, BlocksOf, queueVars
  <2>2. ASSUME NEW e \in queue, Pop(e) PROVE NoDuplicates'
    BY <2>2 DEF NoDuplicates, BlocksOf, Pop, Forget
  <2>3. ASSUME NEW e, e.block \notin blockHashes, Push(e) PROVE NoDuplicates'
    <3>1. PICK D \in SUBSET (queue \union {e}) :
             /\ queue' = (queue \union {e}) \ D
             /\ blockHashes' = (blockHashes \ BlocksOf(D)) \union {e.block}
      BY <2>3 DEF Push, Forget
    <3>2. \A f, g \in queue \union {e} : f.block = g.block => f = g
      BY <2>3 DEF NoDuplicates, BlocksOf
    <3>3. ASSUME NEW f \in queue' PROVE f.block \in blockHashes'
      <4>1. CASE f = e
        BY <3>1, <4>1
      <4>2. CASE f # e
        <5>1. f \in queue /\ f \notin D
          BY <3>1, <3>3, <4>2
        <5>2. f.block \in blockHashes
          BY <5>1 DEF NoDuplicates, BlocksOf
        <5>3. f.block \notin BlocksOf(D)
          BY <3>1, <3>2, <5>1 DEF BlocksOf
        <5> QED
          BY <3>1, <5>2, <5>3
      <4> QED
        BY <4>1, <4>2
    <3> QED
      BY <3>1, <3>2, <3>3 DEF NoDuplicates, BlocksOf
  <2>4. ASSUME NEW b \in Blocks, AddUnsafePayload(b) PROVE NoDuplicates'
    <3>1. CASE b \in blockHashes \/ Size[b] > MaxSize
      BY <2>1, <2>4, <3>1 DEF AddUnsafePayload
    <3>2. CASE ~(b \in blockHashes \/ Size[b] > MaxSize)
      <4> DEFINE e == [block |-> b, receipt |-> receipts]
      <4>1. e.block = b
        OBVIOUS
      <4>2. Push(e)
        BY <2>4, <3>2 DEF AddUnsafePayload
      <4> QED
        BY <2>3, <3>2, <4>1, <4>2
    <3> QED
      BY <3>1, <3>2
  <2>5. ASSUME NEW e \in Lowest(queue), SkipStale(e) PROVE NoDuplicates'
    BY <2>2, <2>5 DEF SkipStale, Lowest
  <2>6. ASSUME NEW e \in Lowest(queue), InsertUnsafePayload(e) PROVE NoDuplicates'
    BY <2>2, <2>6 DEF InsertUnsafePayload, Lowest
  <2>7. ASSUME NEW e \in Lowest(queue), InsertLater(e) PROVE NoDuplicates'
    BY <2>1, <2>7 DEF InsertLater
  <2>8. ASSUME NEW e \in Lowest(queue), DropAndReset(e) PROVE NoDuplicates'
    BY <2>2, <2>8 DEF DropAndReset, Lowest
  <2>9. ASSUME NothingToApply PROVE NoDuplicates'
    BY <2>1, <2>2, <2>9 DEF NothingToApply, Lowest
  <2>10. CASE RequestReset \/ TryUpdateEngine \/ UpdateNeedsReset \/ UpdateUnanswered
    BY <2>1, <2>10 DEF RequestReset, TryUpdateEngine, UpdateNeedsReset, UpdateUnanswered
  <2>11. CASE UNCHANGED vars
    BY <2>1, <2>11 DEF vars
  <2> QED
    BY <2>4, <2>5, <2>6, <2>7, <2>8, <2>9, <2>10, <2>11
    DEF Next, SyncStep, ProceedLowest
<1> QED
  BY <1>1, <1>2, PTL DEF Spec

-----------------------------------------------------------------------------
(* The heads. *)

\* What is on the unsafe chain stays on it when the payload in e is applied.
LEMMA InsertExtends ==
    ASSUME Typing, NEW e \in Lowest(queue), ExtendsUnsafe(e),
           NEW a \in Blocks, IsAncestor(a, unsafeHead)
    PROVE  IsAncestor(a, e.block)
<1>1. e.block \in Blocks /\ e.block # GenesisL2
  BY EnvelopeBlocks DEF Typing
<1> QED
  BY <1>1, AncestorOfParent DEF ExtendsUnsafe

\* Two blocks are on one chain.
OneChain(a, b) == IsAncestor(a, b) \/ IsAncestor(b, a)

\* As long as every request has been answered, the engine's head and the unsafe head are on
\* one chain; so a block that matches the engine's is on the unsafe chain.  Later the safe
\* head may leave the unsafe chain by one block, and the engine is still to be told.
Attached == attributes # NoAttributes =>
                attributes.block # GenesisL2 /\ Parent(attributes.block) = safeHead
HeadsInv ==
    /\ Number(safeHead) <= Number(unsafeHead)
    /\ Consistent \/ (needFCUCall /\ faults # 0)
    /\ safeHead # GenesisL2 => IsAncestor(Parent(safeHead), unsafeHead)
    /\ faults = 0 => OneChain(engineHead, unsafeHead)

LEMMA AttachedStep == Typing /\ Attached /\ [Next]_vars => Attached'
<1> SUFFICES ASSUME Typing, Attached, [Next]_vars PROVE Attached'
  OBVIOUS
<1> USE DEF Attached, headVars
<1>1. CASE (\E b \in Blocks \ {GenesisL2} : AddUnsafePayload(b)) \/ RequestReset
  BY <1>1 DEF AddUnsafePayload, RequestReset, NoAttributes
<1>2. CASE TryUpdateEngine \/ UpdateNeedsReset \/ UpdateUnanswered
  BY <1>2 DEF TryUpdateEngine, UpdateNeedsReset, UpdateUnanswered, NoAttributes
<1>3. CASE ProceedLowest
  BY <1>3
  DEF ProceedLowest, SkipStale, InsertUnsafePayload, InsertLater, DropAndReset, NoAttributes
<1>4. CASE NextAttributes
  BY <1>4 DEF NextAttributes, NoAttributes
<1>5. CASE DerivationStep /\ ~NextAttributes
  BY <1>5
  DEF DerivationStep, ConsolidateNextSafeAttributes, ConsolidateNeedsReset,
      ForceNextSafeAttributes, ForceUnanswered, ForceNeedsReset, ForceRejected, ResetHeads,
      NoAttributes
<1>6. CASE UNCHANGED vars
  BY <1>6 DEF vars, NoAttributes
<1> QED
  BY <1>1, <1>2, <1>3, <1>4, <1>5, <1>6 DEF Next, SyncStep

\* Steps that keep both heads and move the engine's along the unsafe chain, or after a
\* request without an answer.
LEMMA HeadsKeptStep ==
    ASSUME Typing, HeadsInv, UNCHANGED headVars,
           faults' = faults \/ faults' = faults + 1,
           needFCUCall' = needFCUCall \/ Consistent,
           \/ engineHead' = engineHead
           \/ OneChain(engineHead', unsafeHead)
           \/ faults' # 0
    PROVE  HeadsInv'
<1>1. faults \in Nat
  BY PayloadsAssumption DEF Typing, CountTypes
<1>2. faults' = 0 => faults = 0
  BY <1>1
<1>3. unsafeHead' = unsafeHead /\ safeHead' = safeHead
  BY DEF headVars
<1>4. Consistent' <=> Consistent
  BY <1>3 DEF Consistent
<1> QED
  BY <1>2, <1>3, <1>4 DEF HeadsInv

\* Steps after which the heads are consistent and the engine has the unsafe head, or a
\* descendant.
LEMMA HeadsMovedStep ==
    ASSUME Typing', IsAncestor(safeHead', unsafeHead'), OneChain(engineHead', unsafeHead')
    PROVE  HeadsInv'
<1>1. unsafeHead' \in Blocks /\ safeHead' \in Blocks
  BY DEF Typing, HeadTypes
<1>2. Number(safeHead') <= Number(unsafeHead')
  BY DEF IsAncestor
<1>3. ASSUME safeHead' # GenesisL2 PROVE IsAncestor(Parent(safeHead'), unsafeHead')
  <2>1. Parent(safeHead') \in Blocks /\ IsAncestor(Parent(safeHead'), safeHead')
    BY <1>1, <1>3, ParentFacts
  <2> QED
    BY <1>1, <2>1, AncestorTransitive
<1> QED
  BY <1>2, <1>3 DEF HeadsInv, Consistent, OneChain

\* A block consolidated with the engine's head.
LEMMA ConsolidateKeepsHeads ==
    ASSUME Typing, HeadsInv, Attached, ConsolidateNextSafeAttributes, ~needFCUCall
    PROVE  HeadsInv'
<1>1. PICK b \in Blocks : b = attributes.block /\ b # GenesisL2 /\ Parent(b) = safeHead
  BY AttributesFacts
  DEF Typing, Attached, ConsolidateNextSafeAttributes, HasAttributes
<1>2. /\ Number(safeHead) < Number(unsafeHead) /\ IsAncestor(b, engineHead)
      /\ safeHead' = b /\ needFCUCall' = TRUE
      /\ UNCHANGED <<unsafeHead, engineHead, faults>>
  BY <1>1 DEF ConsolidateNextSafeAttributes, Matches, SetSafeHead
<1>3. unsafeHead \in Blocks /\ engineHead \in Blocks /\ safeHead \in Blocks
  BY DEF Typing, HeadTypes
<1>4. IsAncestor(safeHead, unsafeHead)
  BY DEF HeadsInv, Consistent
<1>5. Number(b) <= Number(unsafeHead)
  <2>1. Number(b) = Number(safeHead) + 1 /\ Number(safeHead) \in Nat
        /\ Number(unsafeHead) \in Nat
    BY <1>1, <1>3, ParentFacts
  <2> QED
    BY <1>2, <2>1
<1>6. ASSUME faults = 0 PROVE IsAncestor(b, unsafeHead)
  <2>1. CASE IsAncestor(engineHead, unsafeHead)
    BY <1>1, <1>2, <1>3, <2>1, AncestorTransitive
  <2>2. CASE IsAncestor(unsafeHead, engineHead)
    BY <1>1, <1>2, <1>3, <1>5, <2>2, LowerIsAncestor
  <2> QED
    BY <1>6, <2>1, <2>2 DEF HeadsInv, OneChain
<1> QED
  BY <1>1, <1>2, <1>4, <1>5, <1>6 DEF HeadsInv, Consistent

LEMMA HeadsInvStep ==
    Typing /\ Typing' /\ Attached /\ HeadsInv /\ [Next]_vars => HeadsInv'
<1> SUFFICES ASSUME Typing, Typing', Attached, HeadsInv, [Next]_vars PROVE HeadsInv'
  OBVIOUS
<1>1. /\ unsafeHead \in Blocks /\ safeHead \in Blocks /\ faults \in Nat
      /\ OneChain(unsafeHead, unsafeHead)
  BY AncestorReflexive, PayloadsAssumption DEF Typing, HeadTypes, CountTypes, OneChain
<1>2. ASSUME UNCHANGED <<headVars, engineVars, faults>> PROVE HeadsInv'
  BY <1>2, HeadsKeptStep DEF engineVars
<1>3. CASE (\E b \in Blocks \ {GenesisL2} : AddUnsafePayload(b)) \/ RequestReset
           \/ UNCHANGED vars
  BY <1>2, <1>3 DEF AddUnsafePayload, RequestReset, vars
<1>4. CASE TryUpdateEngine
  BY <1>1, <1>4, HeadsKeptStep DEF TryUpdateEngine
<1>5. CASE UpdateNeedsReset
  <2>1. faults # 0 /\ UNCHANGED <<headVars, needFCUCall, faults>>
    BY <1>5 DEF UpdateNeedsReset, HeadsInv
  <2> QED
    BY <2>1, HeadsKeptStep
<1>6. CASE UpdateUnanswered
  BY <1>1, <1>6, HeadsKeptStep DEF UpdateUnanswered, Fault, MaybeMoved
<1>7. CASE ProceedLowest /\ ~needFCUCall
  <2>1. PICK e \in Lowest(queue) :
           SkipStale(e) \/ InsertUnsafePayload(e) \/ InsertLater(e) \/ DropAndReset(e)
    BY <1>7 DEF ProceedLowest
  <2>2. ASSUME ExtendsUnsafe(e) PROVE IsAncestor(unsafeHead, e.block)
    BY <1>1, <2>2, InsertExtends, AncestorReflexive
  <2>3. CASE SkipStale(e)
    BY <1>2, <2>3 DEF SkipStale
  <2>4. CASE InsertUnsafePayload(e)
    <3>1. IsAncestor(safeHead, e.block) /\ IsAncestor(e.block, e.block)
      BY <1>1, <1>7, <2>4, InsertExtends, EnvelopeBlocks, AncestorReflexive
      DEF InsertUnsafePayload, HeadsInv, Consistent, Typing
    <3> QED
      BY <2>4, <3>1, HeadsMovedStep DEF InsertUnsafePayload, OneChain
  <2>5. CASE InsertLater(e) \/ DropAndReset(e)
    <3>1. /\ UNCHANGED <<headVars, needFCUCall, faults>>
          /\ engineHead' = engineHead \/ (engineHead' = e.block /\ ExtendsUnsafe(e))
      BY <2>5 DEF InsertLater, DropAndReset, MaybeMoved
    <3>2. engineHead' = engineHead \/ OneChain(engineHead', unsafeHead)
      BY <2>2, <3>1 DEF OneChain
    <3> QED
      BY <3>1, <3>2, HeadsKeptStep
  <2> QED
    BY <2>1, <2>3, <2>4, <2>5
<1>8. ASSUME ~needFCUCall PROVE OneChain(safeHead, unsafeHead)
  BY <1>8 DEF HeadsInv, Consistent, OneChain
<1>9. CASE ConsolidateNextSafeAttributes /\ ~needFCUCall
  BY <1>9, ConsolidateKeepsHeads
<1>10. CASE ForceNextSafeAttributes
  <2>1. unsafeHead' = safeHead' /\ engineHead' = safeHead'
    BY <1>10 DEF ForceNextSafeAttributes
  <2>2. IsAncestor(safeHead', safeHead')
    BY AncestorReflexive DEF Typing, HeadTypes
  <2> QED
    BY <2>1, <2>2, HeadsMovedStep DEF OneChain
<1>11. CASE ForceUnanswered
  BY <1>1, <1>11, HeadsKeptStep DEF ForceUnanswered, Fault
<1>12. CASE (ForceNeedsReset \/ ForceRejected) /\ ~needFCUCall
  <2>1. /\ UNCHANGED <<headVars, needFCUCall, faults>>
        /\ engineHead' = engineHead \/ engineHead' = safeHead
    BY <1>12 DEF ForceNeedsReset, ForceRejected, MaybeMoved
  <2> QED
    BY <1>8, <1>12, <2>1, HeadsKeptStep
<1>13. ASSUME NEW u \in Blocks, NEW s \in Blocks, ResetHeads(u, s) PROVE HeadsInv'
  BY <1>13, HeadsMovedStep DEF ResetHeads, OneChain
<1>14. CASE NextAttributes \/ ConsolidateNeedsReset
            \/ UNCHANGED <<headVars, engineVars, attributes, resetVars, faults>>
  BY <1>2, <1>14 DEF NextAttributes, ConsolidateNeedsReset
<1> QED
  BY <1>3, <1>4, <1>5, <1>6, <1>7, <1>9, <1>10, <1>11, <1>12, <1>13, <1>14
  DEF Next, SyncStep, DerivationStep

\* The heads, for any tree of blocks and any number of lost answers, refused blocks and
\* resets: once the engine has been told of them, or as long as every request has been
\* answered, the safe head is on the unsafe chain; it never leaves it by more than one
\* block.
THEOREM HeadsOrderedTheorem == Spec => []HeadsOrdered
<1>1. Init => Attached /\ HeadsInv
  <2>1. IsAncestor(GenesisL2, GenesisL2) /\ Number(GenesisL2) <= Number(GenesisL2)
    BY AncestorReflexive, BlocksAssumption, ParentFacts
  <2> SUFFICES ASSUME Init PROVE Attached /\ HeadsInv
    OBVIOUS
  <2>2. /\ unsafeHead = GenesisL2 /\ safeHead = GenesisL2 /\ engineHead = GenesisL2
        /\ attributes = NoAttributes
    BY DEF Init
  <2> QED
    BY <2>1, <2>2 DEF Attached, HeadsInv, Consistent, OneChain
<1>2. Typing /\ Typing' /\ Attached /\ HeadsInv /\ [Next]_vars => (Attached /\ HeadsInv)'
  BY AttachedStep, HeadsInvStep
<1>3. HeadsInv => HeadsOrdered
  BY DEF HeadsInv, HeadsOrdered
<1> QED
  BY <1>1, <1>2, <1>3, TypingInvariant, PTL DEF Spec

\* Payloads only extend the unsafe chain: it is moved back or onto another branch only
\* with the safe head, by derivation, or by a reset.
THEOREM FirstSeenTheorem == Spec => FirstSeenKept
<1> DEFINE Step == safeHead' = safeHead /\ ~resetting => IsAncestor(unsafeHead, unsafeHead')
<1>1. Typing /\ Attached /\ [Next]_vars => [Step]_vars
  <2> SUFFICES ASSUME Typing, Attached, Next, safeHead' = safeHead, ~resetting
               PROVE  IsAncestor(unsafeHead, unsafeHead')
    OBVIOUS
  <2>1. unsafeHead \in Blocks /\ IsAncestor(unsafeHead, unsafeHead)
    BY AncestorReflexive DEF Typing, HeadTypes
  <2>2. ASSUME UNCHANGED unsafeHead PROVE IsAncestor(unsafeHead, unsafeHead')
    BY <2>1, <2>2
  <2>3. CASE (\E b \in Blocks \ {GenesisL2} : AddUnsafePayload(b)) \/ RequestReset
    BY <2>2, <2>3 DEF AddUnsafePayload, RequestReset, headVars
  <2>4. CASE TryUpdateEngine \/ UpdateNeedsReset \/ UpdateUnanswered
    BY <2>2, <2>4 DEF TryUpdateEngine, UpdateNeedsReset, UpdateUnanswered, headVars
  <2>5. CASE ProceedLowest
    <3>1. ASSUME NEW e \in Lowest(queue), InsertUnsafePayload(e)
          PROVE  IsAncestor(unsafeHead, unsafeHead')
      BY <2>1, <3>1, InsertExtends DEF InsertUnsafePayload
    <3> QED
      BY <2>2, <2>5, <3>1
      DEF ProceedLowest, SkipStale, InsertLater, DropAndReset, headVars
  <2>6. CASE ForceNextSafeAttributes
    <3>1. attributes.block \in Blocks /\ attributes.block # GenesisL2
          /\ Parent(attributes.block) = safeHead /\ safeHead' = attributes.block
      BY <2>6, AttributesFacts
      DEF ForceNextSafeAttributes, MayForce, HasAttributes, Attached, Typing
    <3>2. FALSE
      BY <3>1, ParentDiffers
    <3> QED
      BY <3>2
  <2>7. CASE DerivationStep /\ ~ForceNextSafeAttributes
    BY <2>2, <2>7
    DEF DerivationStep, NextAttributes, ConsolidateNextSafeAttributes,
        ConsolidateNeedsReset, ForceUnanswered, ForceNeedsReset, ForceRejected, ResetHeads,
        headVars
  <2> QED
    BY <2>3, <2>4, <2>5, <2>6, <2>7 DEF Next, SyncStep
<1>2. Init => Attached
  BY DEF Init, Attached
<1>3. Typing /\ Attached /\ [Next]_vars => Attached'
  BY AttachedStep
<1> QED
  BY <1>1, <1>2, <1>3, TypingInvariant, PTL DEF Spec, FirstSeenKept

-----------------------------------------------------------------------------
(* The memory accounted for. *)

Weight == [e \in Envelopes |-> Size[e.block]]

LEMMA WeightType ==
    Weight \in [Envelopes -> Nat] /\ \A e \in Envelopes : Weight[e] = Size[e.block]
  BY PayloadsAssumption DEF Weight, Envelopes

LEMMA MemSizeIsSum ==
    ASSUME NEW S \in SUBSET Envelopes, IsFiniteSet(S)
    PROVE  \E g : IsSum(g, Weight, S) /\ MemSize(S) = g[S]
<1> DEFINE Eq(g) ==
              g = [s \in SUBSET S |-> IF s = {} THEN 0 ELSE Size[Pick(s).block] + g[s \ {Pick(s)}]]
           h == CHOOSE g : Eq(g)
<1>1. PICK g : IsSum(g, Weight, S)
  BY SumExists
<1>2. \A k : IsSum(k, Weight, S) <=> Eq(k)
  <2>1. \A s \in SUBSET S : s # {} => Weight[Pick(s)] = Size[Pick(s).block]
    BY WeightType DEF Pick
  <2>2. \A k : [s \in SUBSET S |-> IF s = {} THEN 0 ELSE Size[Pick(s).block] + k[s \ {Pick(s)}]]
             = [s \in SUBSET S |-> IF s = {} THEN 0 ELSE Weight[Pick(s)] + k[s \ {Pick(s)}]]
    BY <2>1
  <2> QED
    BY <2>2 DEF IsSum
<1>3. Eq(h)
  <2> HIDE DEF Eq
  <2> QED
    BY <1>1, <1>2
<1>4. MemSize(S) = h[S]
  BY DEF MemSize, MapThenSumSet, MapThenFoldSet, Pick
<1> HIDE DEF Eq, h
<1> QED
  BY <1>2, <1>3, <1>4

LEMMA MemSizeFacts ==
    ASSUME NEW S \in SUBSET Envelopes, IsFiniteSet(S)
    PROVE  /\ MemSize(S) \in Nat
           /\ S = {} => MemSize(S) = 0
           /\ \A e \in S : MemSize(S) = Size[e.block] + MemSize(S \ {e})
<1>1. PICK g : IsSum(g, Weight, S) /\ MemSize(S) = g[S]
  BY MemSizeIsSum
<1>2. \A e \in S : Weight[e] \in Nat /\ Weight[e] = Size[e.block]
  BY WeightType
<1>3. g[S] \in Nat
  BY <1>1, <1>2, SumType
<1>4. S = {} => g[S] = 0
  BY <1>1 DEF IsSum
<1>5. ASSUME NEW e \in S
      PROVE  MemSize(S) = Size[e.block] + MemSize(S \ {e})
  <2>1. PICK T : T = S \ {e}
    OBVIOUS
  <2>2. T \in SUBSET Envelopes /\ T \subseteq S /\ IsFiniteSet(T)
    BY <2>1, FS_RemoveElement
  <2>3. PICK h : IsSum(h, Weight, T) /\ MemSize(T) = h[T]
    BY <2>2, MemSizeIsSum
  <2>4. g[T] = h[T]
    BY <1>1, <2>2, <2>3, SumUnique
  <2>5. g[S] = Weight[e] + g[T]
    BY <1>1, <1>2, <2>1, SumInsert
  <2> QED
    BY <1>1, <1>2, <2>1, <2>3, <2>4, <2>5
<1> QED
  BY <1>1, <1>3, <1>4, <1>5

LEMMA MemSizeSplit ==
    ASSUME NEW S \in SUBSET Envelopes, IsFiniteSet(S), NEW D \in SUBSET S
    PROVE  MemSize(S) = MemSize(D) + MemSize(S \ D)
<1> DEFINE G == {n \in Nat : \A s \in SUBSET S : Cardinality(s) = n =>
                               MemSize(S) = MemSize(s) + MemSize(S \ s)}
<1>1. \A s \in SUBSET S : /\ s \in SUBSET Envelopes /\ IsFiniteSet(s)
                          /\ S \ s \in SUBSET Envelopes /\ IsFiniteSet(S \ s)
                          /\ MemSize(s) \in Nat /\ MemSize(S \ s) \in Nat
  <2>1. \A s \in SUBSET S : s \in SUBSET Envelopes /\ S \ s \in SUBSET S
    OBVIOUS
  <2>2. \A s \in SUBSET S : IsFiniteSet(s)
    BY FS_Subset
  <2>3. \A s \in SUBSET S : MemSize(s) \in Nat
    BY <2>1, <2>2, MemSizeFacts
  <2> QED
    BY <2>1, <2>2, <2>3
<1>2. \A e \in Envelopes : Size[e.block] \in Nat
  BY WeightType
<1>3. 0 \in G
  <2>1. \A s \in SUBSET S : Cardinality(s) = 0 => s = {}
    BY SubsetFacts
  <2>2. MemSize({}) = 0 /\ S \ {} = S /\ MemSize(S) \in Nat
    <3>1. {} \in SUBSET Envelopes /\ IsFiniteSet({})
      BY FS_EmptySet
    <3> QED
      BY <3>1, MemSizeFacts
  <2> QED
    BY <2>1, <2>2
<1>4. ASSUME NEW n \in Nat, n \in G
      PROVE  n + 1 \in G
  <2> SUFFICES ASSUME NEW s \in SUBSET S, Cardinality(s) = n + 1
               PROVE  MemSize(S) = MemSize(s) + MemSize(S \ s)
    OBVIOUS
  <2>1. PICK e \in s : TRUE
    BY SubsetFacts
  <2>2. PICK t : t = s \ {e}
    OBVIOUS
  <2>3. t \in SUBSET S /\ Cardinality(t) = n
    BY <2>2, SubsetFacts
  <2>4. MemSize(S) = MemSize(t) + MemSize(S \ t)
    BY <1>4, <2>3
  <2>5. MemSize(s) = Size[e.block] + MemSize(t)
    BY <1>1, <2>2, MemSizeFacts
  <2>6. MemSize(S \ t) = Size[e.block] + MemSize(S \ s)
    <3>1. e \in S \ t /\ (S \ t) \ {e} = S \ s
      BY <2>2
    <3>2. \A x \in S \ t : MemSize(S \ t) = Size[x.block] + MemSize((S \ t) \ {x})
      BY <1>1, <2>3, MemSizeFacts
    <3> QED
      BY <3>1, <3>2
  <2>7. Size[e.block] \in Nat /\ MemSize(t) \in Nat /\ MemSize(S \ s) \in Nat
    BY <1>1, <1>2, <2>3
  <2> QED
    BY <2>4, <2>5, <2>6, <2>7
<1>5. Cardinality(D) \in G
  <2> HIDE DEF G
  <2>1. Nat \subseteq G
    BY <1>3, <1>4, SetInduction
  <2> QED
    BY <2>1, SubsetFacts
<1> QED
  BY <1>5

\* currentSize is the size of what is queued, and within the limit.
SizeInv == IsFiniteSet(queue) /\ SizeAccounted

LEMMA PushSize ==
    ASSUME Typing, SizeInv, NEW e \in Envelopes, e \notin queue, Size[e.block] <= MaxSize,
           Push(e)
    PROVE  SizeInv' /\ queue' # {}
<1>1. PICK A : A = queue \union {e}
  OBVIOUS
<1>2. A \in SUBSET Envelopes /\ IsFiniteSet(A) /\ A \ {e} = queue /\ e \in A
  BY <1>1, FS_AddElement DEF Typing, QueueTypes, SizeInv
<1>3. PICK total : total = GrownSize(e)
  OBVIOUS
<1>4. PICK D \in SUBSET A : /\ PopsUntilFits(D, A, total)
                            /\ queue' = A \ D /\ currentSize' = total - MemSize(D)
  BY <1>1, <1>3 DEF Push
<1>5. MemSize(A) = Size[e.block] + MemSize(queue) /\ MemSize(A) \in Nat
  <2>1. MemSize(A) \in Nat /\ \A x \in A : MemSize(A) = Size[x.block] + MemSize(A \ {x})
    BY <1>2, MemSizeFacts
  <2> QED
    BY <1>2, <2>1
<1>6. /\ MemSize(queue) \in Nat /\ Size[e.block] \in Nat /\ total = MemSize(A)
  <2>1. MemSize(queue) \in Nat
    BY MemSizeFacts DEF Typing, QueueTypes, SizeInv
  <2>2. Size[e.block] \in Nat
    BY WeightType
  <2> QED
    BY <1>3, <1>5, <2>1, <2>2 DEF GrownSize, SizeInv, SizeAccounted
<1>7. /\ IsFiniteSet(A \ D) /\ A \ D \in SUBSET Envelopes /\ IsFiniteSet(D)
      /\ MemSize(D) \in Nat /\ MemSize(A \ D) \in Nat
  <2>1. A \ D \in SUBSET A /\ D \in SUBSET Envelopes /\ A \ D \in SUBSET Envelopes
    BY <1>2
  <2>2. IsFiniteSet(A \ D) /\ IsFiniteSet(D)
    BY <1>2, <2>1, FS_Subset
  <2> QED
    BY <2>1, <2>2, MemSizeFacts
<1>8. MemSize(A) = MemSize(D) + MemSize(A \ D)
  BY <1>2, MemSizeSplit
<1>9. currentSize' = MemSize(queue')
  BY <1>4, <1>5, <1>6, <1>7, <1>8
<1>10. currentSize' <= MaxSize
  BY <1>4 DEF PopsUntilFits
<1>11. queue' # {}
  <2> SUFFICES ASSUME D = A PROVE FALSE
    BY <1>4
  <2>1. PICK last \in D : total - MemSize(D \ {last}) > MaxSize
    BY <1>2, <1>4 DEF PopsUntilFits
  <2>2. MemSize(A) = Size[last.block] + MemSize(A \ {last})
    BY <1>2, MemSizeFacts
  <2>3. MemSize(A \ {last}) \in Nat /\ Size[last.block] \in Nat /\ MaxSize \in Nat
    <3>1. A \ {last} \in SUBSET Envelopes /\ IsFiniteSet(A \ {last})
      BY <1>2, FS_RemoveElement
    <3> QED
      BY <1>2, <3>1, MemSizeFacts, WeightType, PayloadsAssumption
  <2>4. Size[last.block] > MaxSize
    BY <1>5, <1>6, <2>1, <2>2, <2>3
  <2>5. last \in queue
    BY <1>1, <1>6, <2>3, <2>4
  <2>6. MemSize(queue) = Size[last.block] + MemSize(queue \ {last})
    BY <2>5, MemSizeFacts DEF Typing, QueueTypes, SizeInv
  <2>7. MemSize(queue \ {last}) \in Nat
    <3>1. queue \ {last} \in SUBSET Envelopes /\ IsFiniteSet(queue \ {last})
      BY FS_RemoveElement DEF Typing, QueueTypes, SizeInv
    <3> QED
      BY <3>1, MemSizeFacts
  <2> QED
    BY <1>6, <2>3, <2>4, <2>6, <2>7 DEF SizeInv, SizeAccounted
<1> QED
  BY <1>4, <1>7, <1>9, <1>10, <1>11 DEF SizeInv, SizeAccounted

LEMMA PopSize ==
    ASSUME Typing, SizeInv, NEW e \in queue, Pop(e)
    PROVE  SizeInv'
<1>1. queue' = queue \ {e} /\ currentSize' = currentSize - Size[e.block]
  BY DEF Pop
<1>2. MemSize(queue) = Size[e.block] + MemSize(queue \ {e})
  BY MemSizeFacts DEF Typing, QueueTypes, SizeInv
<1>3. IsFiniteSet(queue \ {e}) /\ queue \ {e} \in SUBSET Envelopes
  BY FS_RemoveElement DEF Typing, QueueTypes, SizeInv
<1>4. MemSize(queue \ {e}) \in Nat /\ Size[e.block] \in Nat /\ MemSize(queue) \in Nat
  BY <1>3, MemSizeFacts, WeightType DEF Typing, QueueTypes, SizeInv
<1>5. currentSize' = MemSize(queue \ {e}) /\ currentSize' <= MaxSize
  BY <1>1, <1>2, <1>4, PayloadsAssumption DEF SizeInv, SizeAccounted
<1> QED
  BY <1>1, <1>3, <1>5 DEF SizeInv, SizeAccounted

\* What a step does to the queue.
LEMMA QueueStep ==
    ASSUME Typing, NoDuplicates, [Next]_vars
    PROVE  \/ UNCHANGED queueVars
           \/ \E e \in queue : Pop(e)
           \/ \E e \in Envelopes : e \notin queue /\ Size[e.block] <= MaxSize /\ Push(e)
<1>1. ASSUME NEW b \in Blocks \ {GenesisL2}, AddUnsafePayload(b)
      PROVE  \/ UNCHANGED queueVars
             \/ \E e \in Envelopes : e \notin queue /\ Size[e.block] <= MaxSize /\ Push(e)
  <2>1. PICK e : e = [block |-> b, receipt |-> receipts]
    OBVIOUS
  <2>2. e \in Envelopes /\ e.block = b
    <3>1. receipts \in 0..(MaxReceipts - 1)
      BY <1>1, PayloadsAssumption DEF AddUnsafePayload, Typing, CountTypes
    <3> QED
      BY <2>1, <3>1 DEF Envelopes
  <2>3. Size[b] \in Nat /\ MaxSize \in Nat
    BY PayloadsAssumption
  <2>4. CASE b \in blockHashes \/ Size[b] > MaxSize
    BY <1>1, <2>4 DEF AddUnsafePayload
  <2>5. CASE ~(b \in blockHashes \/ Size[b] > MaxSize)
    <3>1. Push(e)
      BY <1>1, <2>1, <2>5 DEF AddUnsafePayload
    <3>2. e \notin queue
      BY <2>2, <2>5 DEF NoDuplicates, BlocksOf
    <3> QED
      BY <2>2, <2>3, <2>5, <3>1, <3>2
  <2> QED
    BY <2>4, <2>5
<1>2. CASE ProceedLowest
  BY <1>2
  DEF ProceedLowest, Lowest, SkipStale, InsertUnsafePayload, InsertLater, DropAndReset
<1>3. CASE NothingToApply
  BY <1>3 DEF NothingToApply, Lowest
<1>4. CASE RequestReset \/ TryUpdateEngine \/ UpdateNeedsReset \/ UpdateUnanswered
           \/ UNCHANGED vars
  BY <1>4 DEF RequestReset, TryUpdateEngine, UpdateNeedsReset, UpdateUnanswered, vars
<1> QED
  BY <1>1, <1>2, <1>3, <1>4 DEF Next, SyncStep

LEMMA SizeAlways == Spec => [](Typing /\ NoDuplicates /\ SizeInv)
<1>1. Init => SizeInv
  <2>1. IsFiniteSet({}) /\ {} \in SUBSET Envelopes
    BY FS_EmptySet
  <2>2. MemSize({}) = 0
    BY <2>1, MemSizeFacts
  <2> QED
    BY <2>1, <2>2, PayloadsAssumption DEF Init, SizeInv, SizeAccounted
<1>2. Typing /\ NoDuplicates /\ SizeInv /\ [Next]_vars => SizeInv'
  <2> SUFFICES ASSUME Typing, NoDuplicates, SizeInv, [Next]_vars PROVE SizeInv'
    OBVIOUS
  <2>1. CASE UNCHANGED queueVars
    <3>1. queue' = queue /\ currentSize' = currentSize
      BY <2>1 DEF queueVars
    <3> QED
      BY <3>1 DEF SizeInv, SizeAccounted
  <2> QED
    BY <2>1, QueueStep, PopSize, PushSize
<1> QED
  BY <1>1, <1>2, TypingInvariant, NoDuplicatesTheorem, PTL DEF Spec

\* The size the queue accounts for is the sum over the payloads it holds, and within
\* MaxSize, after every order of pushes, evictions and pops.
THEOREM SizeAccountedTheorem == Spec => []SizeAccounted
<1>1. SizeInv => SizeAccounted
  BY DEF SizeInv
<1> QED
  BY <1>1, SizeAlways, PTL

\* Types, the accounted size among them: a natural number, so that no pop takes more than
\* was accounted for.
THEOREM PayloadsTypeCorrect == Spec => []TypeOK
<1>1. Typing /\ SizeInv => TypeOK
  <2> SUFFICES ASSUME Typing, SizeInv PROVE TypeOK
    OBVIOUS
  <2>1. MemSize(queue) \in Nat
    BY MemSizeFacts DEF Typing, QueueTypes, SizeInv
  <2>2. currentSize \in Nat
    BY <2>1 DEF SizeInv, SizeAccounted
  <2> QED
    BY <2>2 DEF Typing, QueueTypes, HeadTypes, CountTypes, TypeOK
<1> QED
  BY <1>1, SizeAlways, PTL

\* AddUnsafePayload finds a lowest payload after every push: evicting stops before the
\* queue is empty, since the pushed payload fits alone and the others fitted before it.
THEOREM PushKeepsOneTheorem == Spec => PushKeepsOne
<1> DEFINE Step == blockHashes' \ blockHashes # {} => queue' # {}
<1>1. Typing /\ NoDuplicates /\ SizeInv /\ [Next]_vars => [Step]_vars
  <2> SUFFICES ASSUME Typing, NoDuplicates, SizeInv, [Next]_vars
               PROVE  Step
    OBVIOUS
  <2>1. CASE UNCHANGED queueVars
    BY <2>1 DEF queueVars
  <2>2. ASSUME NEW e \in queue, Pop(e) PROVE Step
    BY <2>2 DEF Pop, Forget
  <2>3. ASSUME NEW e \in Envelopes, e \notin queue, Size[e.block] <= MaxSize, Push(e)
        PROVE  Step
    BY <2>3, PushSize
  <2> QED
    BY <2>1, <2>2, <2>3, QueueStep
<1> QED
  BY <1>1, SizeAlways, PTL DEF Spec, PushKeepsOne
=============================================================================
