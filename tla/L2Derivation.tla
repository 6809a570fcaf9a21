---------------------------- MODULE L2Derivation ----------------------------
(***************************************************************************)
(* Deriving and finalizing the L2 chain in op-node: the driver's step      *)
(* (rollup/driver/state.go), the pipeline with its L1 traversal and engine *)
(* queue (rollup/derive), the search for the heads to restart from         *)
(* (rollup/sync/start.go) and the finalizer (rollup/finality), against an  *)
(* L1 chain that grows, is reorganised above its finalized block and       *)
(* finalizes.                                                              *)
(*                                                                         *)
(* The driver's event loop is one goroutine: each event is one action.     *)
(* An answer of the engine may get lost after the engine has done what it  *)
(* was asked for, and the engine may refuse what it is asked for.          *)
(*                                                                         *)
(* Data.  An L1 block is the sequence of the blocks of its chain from      *)
(* height 1 up to itself, as its hash commits to them; genesis is <<>>.    *)
(* One L2 block stands for an epoch, so L2 block n has its L1 origin at    *)
(* height n and sequence number 0.  It either has a batch on L1 (kind 1)   *)
(* or is the empty block that an expired sequencing window forces (0); it  *)
(* commits to its ancestors, so it is the pair of its origin and of the    *)
(* kinds of the L2 chain up to it.  Every block is the last of its span.   *)
(***************************************************************************)
EXTENDS Integers, Sequences

CONSTANTS
    SeqWindowSize,     \* rollup.Config.SeqWindowSize
    ChannelTimeout,    \* rollup.Config.ChannelTimeout
    FinalityLookback,  \* Finalizer.finalityLookback
    FinalityDelay,     \* finalityDelay
    MaxL1,             \* bound: L1 height
    MaxDisruptions     \* bound: lost answers, refused batches, L1 reorganisations, and
                       \* (after a lost answer or refused batch, once more) requested
                       \* resets and restarts

ASSUME ParametersAssumption ==
    /\ SeqWindowSize \in Nat \ {0} /\ ChannelTimeout \in Nat
    /\ FinalityLookback \in Nat \ {0} /\ FinalityDelay \in Nat
    /\ MaxL1 \in Nat /\ MaxDisruptions \in Nat

VARIABLES
    l1,               \* environment: the canonical L1 chain
    l1Final,          \* environment: height of the finalized L1 block
    reorgs,           \* counter of L1 reorganisations
    resets,           \* counter of restarts, and of resets not asked for because of L1
    faults,           \* counter of lost answers and refused batches
    stepReq,          \* stepReqCh, delayedStepReq: the driver is to call syncStep
    traversal,        \* L1Traversal.block
    origin,           \* EngineQueue.origin
    attributes,       \* AttributesHandler.attributes: the block to apply, or NoBlock, or
                      \* Refused
    resetting,        \* 0: reset asked for; 1: engine queue is reset; 2: all stages are
    unsafeHead, safeHead, finalizedHead,   \* EngineController
    needFCUCall,      \* EngineController.needFCUCall
    labels,           \* the engine's own unsafe, safe and finalized blocks
    finalizedL1, triedFinalizeAt, finalityData,   \* Finalizer
    finalizedFrom     \* history: the L1 block finalizedHead was finalized for

l1Vars == <<l1, l1Final, reorgs>>
countVars == <<resets, faults>>
pipelineVars == <<traversal, origin, attributes, resetting>>
engineVars == <<unsafeHead, safeHead, needFCUCall, labels>>
finalizedVars == <<finalizedHead, finalizedFrom>>
finalizerVars == <<finalizedL1, triedFinalizeAt, finalityData>>
vars == <<l1Vars, countVars, stepReq, pipelineVars, engineVars, finalizedVars,
          finalizerVars>>

\* No block, as an empty L2BlockRef is.
NoBlock == [org |-> <<>>, kinds |-> <<2>>]

\* Attributes of a batch that the pipeline takes and the engine does not: the block is
\* invalid.
Refused == [org |-> <<>>, kinds |-> <<3>>]

\* Number of an L1 block, and of an L2 block.
Height(b) == Len(b)
Number(B) == IF B = NoBlock THEN 0 ELSE Len(B.kinds)

\* The L1 block at height h of the chain of b, and the L2 block with number n of the
\* chain of B.
L1At(b, h) == SubSeq(b, 1, h)
L2At(B, n) == [org |-> SubSeq(B.org, 1, n), kinds |-> SubSeq(B.kinds, 1, n)]

GenesisL2 == [org |-> <<>>, kinds |-> <<>>]

\* The child of L2 block S with the next L1 block of the chain of t as its origin.
ChildSameEpoch(S, t, kind) ==
    [org |-> L1At(t, Number(S)), kinds |-> Append(S.kinds, kind)]
ChildByNumber(S, t, kind) ==
    LET chain == IF Height(l1) > Number(S) THEN l1 ELSE t
    IN  [org |-> L1At(chain, Number(S) + 1), kinds |-> Append(S.kinds, kind)]
Child(S, t, kind) ==
    [org |-> L1At(t, Number(S) + 1), kinds |-> Append(S.kinds, kind)]

\* L2 block A is B or an ancestor of B.
IsAncestor(A, B) == Number(A) <= Number(B) /\ L2At(B, Number(A)) = A

\* The kinds of the L2 blocks that can be derived from the L1 chain up to b.
Derived(b) == IF b = <<>> THEN <<>> ELSE b[Len(b)].l2

\* L2 block B is what the L1 chain up to b derives.
Derives(b, B) ==
    /\ Number(B) <= Len(Derived(b)) /\ SubSeq(Derived(b), 1, Number(B)) = B.kinds
    /\ Number(B) <= Height(b) /\ L1At(b, Number(B)) = B.org

\* L1BlockRefByNumber returns b for its number.
Canonical(b) == Height(b) <= Height(l1) /\ L1At(l1, Height(b)) = b

-----------------------------------------------------------------------------
Init ==
    /\ l1 = <<>> /\ l1Final = 0 /\ reorgs = 0 /\ resets = 0 /\ faults = 0
    /\ stepReq = TRUE
    /\ traversal = <<>> /\ origin = <<>> /\ attributes = NoBlock /\ resetting = 0
    /\ unsafeHead = GenesisL2 /\ safeHead = GenesisL2 /\ finalizedHead = GenesisL2
    /\ needFCUCall = FALSE
    /\ labels = [unsafe |-> GenesisL2, safe |-> GenesisL2, finalized |-> GenesisL2]
    /\ finalizedL1 = <<>> /\ triedFinalizeAt = 0 /\ finalityData = <<>>
    /\ finalizedFrom = <<>>

(***************************************************************************)
(* L1.  Blocks mined after a reorganisation differ from all earlier ones.  *)
(* A new block carries the batch of the next underived L2 block, if that   *)
(* block's origin is earlier, or not; then the sequencing window of an     *)
(* epoch may end.  The rules are those of BatchQueue and CheckBatch.       *)
(***************************************************************************)
WithBatch(kinds, batch) == IF batch THEN Append(kinds, 1) ELSE kinds
WithExpiry(kinds, h) ==
    IF Len(kinds) + 1 + SeqWindowSize <= h THEN Append(kinds, 0) ELSE kinds

L1Grow(batch) ==
    LET kinds == Derived(l1)  h == Height(l1) + 1
    IN  /\ h <= MaxL1
        /\ batch => Len(kinds) + 1 < h
        /\ l1' = Append(l1, [fork |-> reorgs, l2 |-> WithExpiry(WithBatch(kinds, batch), h)])
        /\ UNCHANGED <<l1Final, reorgs, countVars, stepReq, pipelineVars, engineVars,
                       finalizedVars, finalizerVars>>

\* Blocks above the finalized one are given up.
L1Reorg(h) ==
    /\ h \in l1Final..(Height(l1) - 1)
    /\ reorgs + resets < MaxDisruptions /\ reorgs + faults < MaxDisruptions
    /\ reorgs' = reorgs + 1
    /\ l1' = L1At(l1, h)
    /\ UNCHANGED <<l1Final, countVars, stepReq, pipelineVars, engineVars, finalizedVars,
                   finalizerVars>>

-----------------------------------------------------------------------------
(* The finalizer. *)

Entry(B, b) == [l2 |-> B, l1 |-> b]

\* Data fd has no entry yet for the L1 block b.
NewL1Never(fd, b) == fd = <<>>
NewL1(fd, b) == fd = <<>> \/ Height(fd[Len(fd)].l1) < Height(b)

\* Room for one more entry.
PrunedLate(fd) == IF Len(fd) > FinalityLookback THEN Tail(fd) ELSE fd
Pruned(fd) == IF Len(fd) >= FinalityLookback THEN Tail(fd) ELSE fd

\* PostProcessSafeL2, for the safe head and the origin of the engine queue.
PostProcessSafeL2 ==
    IF NewL1(finalityData, origin)
    THEN Append(Pruned(finalityData), Entry(safeHead, origin))
    ELSE [finalityData EXCEPT ![Len(finalityData)].l2 = safeHead]

\* Finalizer.Reset forgets the data.
KeptData(fd) == fd
ResetData(fd) == <<>>

\* The loop of tryFinalize over data fd ends with entry i, for the signal b.
Finalizable(fd, b) ==
    {i \in DOMAIN fd : /\ Number(fd[i].l2) > Number(finalizedHead)
                       /\ Height(fd[i].l1) <= Height(b)}
LastFinalizable(i, fd, b) ==
    /\ i \in Finalizable(fd, b)
    /\ \A j \in Finalizable(fd, b) :
          \/ Number(fd[j].l2) < Number(fd[i].l2)
          \/ Number(fd[j].l2) = Number(fd[i].l2) /\ i <= j

\* The signal, and the L1 block the data names, must be canonical.
OnFinalizingChainUnchecked(b, from) == Canonical(b)
OnFinalizingChain(b, from) == Canonical(b) /\ Canonical(from)

\* tryFinalize for signal b on data fd: its result is "done", "reset" for a reset
\* error or "temporary" for a failed request.
TryFinalize(fd, b, result) ==
    \/ /\ Finalizable(fd, b) = {} /\ result = "done"
       /\ UNCHANGED <<finalizedVars, needFCUCall>>
    \/ /\ Finalizable(fd, b) # {} /\ result = "temporary"
       /\ UNCHANGED <<finalizedVars, needFCUCall>>
    \/ \E i \in DOMAIN fd :
        /\ LastFinalizable(i, fd, b)
        /\ IF OnFinalizingChain(b, fd[i].l1)
           THEN /\ result = "done" /\ finalizedHead' = fd[i].l2
                /\ finalizedFrom' = fd[i].l1 /\ needFCUCall' = TRUE
           ELSE result = "reset" /\ UNCHANGED <<finalizedVars, needFCUCall>>

\* Finalize, on a signal for the L1 block at height h, which is final from now on if it
\* was not yet; an older signal is ignored.  A failure is only logged.
Finalize(h) ==
    LET b == L1At(l1, h)
    IN  /\ h \in 1..Height(l1) /\ h >= Height(finalizedL1)
        /\ l1Final' = (IF h > l1Final THEN h ELSE l1Final) /\ finalizedL1' = b
        /\ triedFinalizeAt' = IF b # finalizedL1 THEN 0 ELSE triedFinalizeAt
        /\ \E result \in {"done", "reset", "temporary"} : TryFinalize(finalityData, b, result)
        /\ stepReq' = TRUE
        /\ UNCHANGED <<l1, reorgs, countVars, pipelineVars, unsafeHead, safeHead, labels,
                       finalityData>>

\* OnDerivationL1End with the data fd.
RecentlyTried ==
    triedFinalizeAt # 0 /\ Height(origin) <= triedFinalizeAt + FinalityDelay
OnDerivationL1End(fd, result) ==
    IF finalizedL1 = <<>> \/ RecentlyTried
    THEN result = "done" /\ UNCHANGED <<triedFinalizeAt, finalizedVars, needFCUCall>>
    ELSE triedFinalizeAt' = Height(origin) /\ TryFinalize(fd, finalizedL1, result)

-----------------------------------------------------------------------------
(* Where to restart from. *)

\* FindL2Heads walks from the engine's unsafe block u towards its finalized block f.  A
\* block conflicts if L1 has another block at the height of its origin; if L1 is not as
\* high it is kept.  The walk ends with the block below the conflicting ones, or with
\* none if f conflicts itself.
Conflicting(u, f) ==
    {n \in Number(f)..Number(u) : n <= Height(l1) /\ ~Canonical(L2At(u, n).org)}
FoundUnsafe(B, u, f) ==
    LET C == Conflicting(u, f)
    IN  \/ C = {} /\ B = u
        \/ Number(f) \in C /\ B = NoBlock
        \/ \E n \in C : /\ n > Number(f) /\ (\A m \in C : n <= m)
                        /\ B = L2At(u, n - 1)

\* The block is at least as old as the safe block s, and canonical origins for more than
\* a sequencing window follow its own.
OldEnoughUnsafe(n, u, s) ==
    \E m \in (n + SeqWindowSize + 1)..Number(u) : Canonical(L2At(u, m).org)
OldEnough(n, u, s) ==
    /\ n <= Number(s)
    /\ \E m \in (n + SeqWindowSize + 1)..Number(u) : Canonical(L2At(u, m).org)

\* The safe block found is the parent of the first such block above f, or else f.
FoundSafePastFinalized(S, u, s, f) ==
    LET N == {n \in 1..Number(u) : OldEnough(n, u, s)}
    IN  \/ N = {} /\ S = GenesisL2
        \/ \E n \in N : (\A m \in N : m <= n) /\ S = L2At(u, n - 1)
FoundSafe(S, u, s, f) ==
    LET N == {n \in (Number(f) + 1)..Number(u) : OldEnough(n, u, s)}
    IN  \/ N = {} /\ S = f
        \/ \E n \in N : (\A m \in N : m <= n) /\ S = L2At(u, n - 1)

\* The chain of L2 block B.
ChainOf(B) == {L2At(B, n) : n \in 0..Number(B)}

\* EngineQueue.Reset: the L1 block to read channels from again.
PipelineOrigin(S) ==
    L1At(S.org, IF Number(S) > ChannelTimeout THEN Number(S) - ChannelTimeout ELSE 0)

\* EngineQueue.Reset, from the engine's labels.
ResetHeads ==
    /\ IsAncestor(labels.finalized, labels.unsafe)
    /\ \E B \in ChainOf(labels.unsafe) \cup {NoBlock} :
          FoundUnsafe(B, labels.unsafe, labels.finalized) /\ unsafeHead' = B
    /\ \E S \in ChainOf(labels.unsafe) :
        /\ FoundSafe(S, labels.unsafe, labels.safe, labels.finalized)
        /\ safeHead' = S /\ origin' = PipelineOrigin(S)
        /\ finalizedHead' = IF Number(labels.finalized) > Number(S) THEN S
                            ELSE labels.finalized
    /\ needFCUCall' = TRUE /\ attributes' = NoBlock
    /\ triedFinalizeAt' = 0 /\ finalityData' = ResetData(finalityData)
    /\ resetting' = 1

\* A step of the driver that asks for the next one, as it does after success and after
\* temporary errors, and one that does not: with nothing left to do, or after an error
\* that resets the pipeline.
StepsAgain == stepReq /\ stepReq' = TRUE
StepsNoMore == stepReq /\ stepReq' = FALSE

ResetEngineQueue ==
    /\ StepsAgain /\ resetting = 0 /\ ~needFCUCall
    /\ ResetHeads
    /\ UNCHANGED <<l1Vars, countVars, traversal, labels, finalizedFrom, finalizedL1>>

\* The other stages follow; L1Traversal takes its block from the engine queue.
ResetStages ==
    /\ StepsAgain /\ resetting = 1 /\ ~needFCUCall
    /\ traversal' = origin /\ resetting' = 2
    /\ UNCHANGED <<l1Vars, countVars, origin, attributes, engineVars, finalizedVars,
                   finalizerVars>>

\* ResetDerivationPipeline, or a failed safe-head notification.
ForceReset ==
    /\ reorgs + resets < MaxDisruptions /\ resets' = resets + 1
    /\ resetting' = 0
    /\ UNCHANGED <<l1Vars, faults, stepReq, traversal, origin, attributes, engineVars,
                   finalizedVars, finalizerVars>>

\* The node stops and starts again: it resets from what the engine remembers.
Restart ==
    /\ reorgs + resets < MaxDisruptions /\ resets' = resets + 1
    /\ ResetHeads
    /\ finalizedL1' = <<>> /\ stepReq' = TRUE
    /\ UNCHANGED <<l1Vars, faults, traversal, labels, finalizedFrom>>

\* A new L1 head, payload or finalized block makes the driver step again.
Signal ==
    /\ ~stepReq /\ stepReq' = TRUE
    /\ UNCHANGED <<l1Vars, countVars, pipelineVars, engineVars, finalizedVars,
                   finalizerVars>>

-----------------------------------------------------------------------------
(* Steps of the driver: syncStep.  A request that fails changes nothing, unless the     *)
(* engine has carried it out and only its answer is lost.                               *)

Fault == reorgs + resets + faults < MaxDisruptions /\ faults' = faults + 1

\* What the engine knows after it was told of head and safe.
Told(head, safe) == [unsafe |-> head, safe |-> safe, finalized |-> finalizedHead]

\* The engine refuses a forkchoice whose safe block is not on the chain of its head.
Consistent == IsAncestor(safeHead, unsafeHead)

\* TryUpdateEngine.  The engine ignores an update to an empty head.
TryUpdateEngine ==
    /\ StepsAgain /\ needFCUCall /\ (unsafeHead # NoBlock => Consistent)
    /\ needFCUCall' = FALSE
    /\ labels' = IF unsafeHead = NoBlock THEN labels ELSE Told(unsafeHead, safeHead)
    /\ UNCHANGED <<l1Vars, countVars, pipelineVars, unsafeHead, safeHead, finalizedVars,
                   finalizerVars>>

\* The engine refuses, perhaps after it has moved its head and its finalized block: the
\* pipeline is to be reset, but needFCUCall stays.
UpdateNeedsReset ==
    /\ StepsNoMore /\ needFCUCall /\ unsafeHead # NoBlock /\ ~Consistent
    /\ resetting' = 0
    /\ \/ UNCHANGED labels
       \/ labels' = [labels EXCEPT !.unsafe = unsafeHead, !.finalized = finalizedHead]
    /\ UNCHANGED <<l1Vars, countVars, traversal, origin, attributes, unsafeHead, safeHead,
                   needFCUCall, finalizedVars, finalizerVars>>

UpdateUnanswered ==
    /\ StepsAgain /\ needFCUCall /\ unsafeHead # NoBlock /\ Consistent
    /\ Fault
    /\ labels' = Told(unsafeHead, safeHead)
    /\ UNCHANGED <<l1Vars, resets, pipelineVars, unsafeHead, safeHead, needFCUCall,
                   finalizedVars, finalizerVars>>

\* A payload from the sequencer extends the unsafe head (CLSync.Proceed): its origin is
\* the next L1 block the sequencer sees.
MayInsert ==
    /\ ~needFCUCall /\ unsafeHead # NoBlock
    /\ Number(unsafeHead) < Height(l1) /\ Canonical(unsafeHead.org)
InsertUnsafePayload ==
    LET B == Child(unsafeHead, l1, 1)
    IN  /\ MayInsert
        /\ unsafeHead' = B /\ needFCUCall' = TRUE /\ stepReq' = TRUE
        /\ labels' = Told(B, safeHead)
        /\ UNCHANGED <<l1Vars, countVars, pipelineVars, safeHead, finalizedVars,
                       finalizerVars>>
InsertUnanswered ==
    /\ MayInsert
    /\ Fault /\ stepReq' = TRUE
    /\ labels' = Told(Child(unsafeHead, l1, 1), safeHead)
    /\ UNCHANGED <<l1Vars, resets, pipelineVars, unsafeHead, safeHead, needFCUCall,
                   finalizedVars, finalizerVars>>

\* AttributesHandler.Proceed.  (The third case there, an unsafe head behind the safe one,
\* is excluded by HeadsOrdered.)
HasAttributes == stepReq /\ resetting = 2 /\ ~needFCUCall /\ attributes # NoBlock
Consolidates == HasAttributes /\ Number(safeHead) < Number(unsafeHead)

\* The engine's block at the number after the safe head is the one of the attributes.
Matches == attributes # Refused /\ IsAncestor(attributes, labels.unsafe)

\* EngineController.SetSafeHead.
SetSafeHeadOnly(B) == safeHead' = B /\ UNCHANGED needFCUCall
SetSafeHead(B) == safeHead' = B /\ needFCUCall' = TRUE

ConsolidateNextSafeAttributes ==
    /\ Consolidates /\ Matches /\ SetSafeHead(attributes)
    /\ attributes' = NoBlock /\ stepReq' = TRUE
    /\ UNCHANGED <<l1Vars, countVars, traversal, origin, resetting, unsafeHead, labels,
                   finalizedVars, finalizerVars>>

\* The engine has no block at that number.
ConsolidateNeedsReset ==
    /\ Consolidates /\ Number(labels.unsafe) <= Number(safeHead)
    /\ resets' = resets + 1 /\ resetting' = 0 /\ stepReq' = FALSE
    /\ UNCHANGED <<l1Vars, faults, traversal, origin, attributes, engineVars,
                   finalizedVars, finalizerVars>>

\* The attributes are to be forced: at the unsafe head, or against the engine's chain.
MayForce ==
    \/ HasAttributes /\ Number(safeHead) = Number(unsafeHead)
    \/ Consolidates /\ Number(labels.unsafe) > Number(safeHead) /\ ~Matches

\* The block becomes the safe and the unsafe head.
ForceNextSafeAttributes ==
    /\ MayForce /\ attributes # Refused
    /\ safeHead' = attributes /\ unsafeHead' = attributes
    /\ labels' = Told(attributes, attributes)
    /\ attributes' = NoBlock /\ stepReq' = TRUE
    /\ UNCHANGED <<l1Vars, countVars, traversal, origin, resetting, needFCUCall,
                   finalizedVars, finalizerVars>>

\* The engine has started the block on the safe head, or has it already.
ForceUnanswered ==
    /\ MayForce
    /\ Fault /\ stepReq' = TRUE
    /\ \/ labels' = Told(safeHead, safeHead)
       \/ attributes # Refused /\ labels' = Told(attributes, attributes)
    /\ UNCHANGED <<l1Vars, resets, pipelineVars, unsafeHead, safeHead, needFCUCall,
                   finalizedVars, finalizerVars>>

\* The engine refuses the block and the batch is dropped.  (There is no backup to restore
\* as each block is the last of its span.)
ForceRejected ==
    /\ MayForce /\ attributes = Refused
    /\ labels' \in {labels, Told(safeHead, safeHead)}
    /\ attributes' = NoBlock /\ stepReq' = TRUE
    /\ UNCHANGED <<l1Vars, countVars, traversal, origin, resetting, unsafeHead, safeHead,
                   needFCUCall, finalizedVars, finalizerVars>>

\* verifyNewL1Origin: the unsafe head conflicts with the new origin t, or that cannot
\* be told because L1 does not have the block now.
OriginConflict(t) ==
    LET u == unsafeHead.org
    IN  /\ t # origin
        /\ \/ unsafeHead = NoBlock
           \/ Height(t) = Height(u) /\ t # u
           \/ Height(t) = Height(u) + 1 /\ L1At(t, Height(u)) # u
           \/ Height(t) > Height(u) + 1 /\ Height(u) <= Height(l1) /\ ~Canonical(u)
OriginUnknown(t) ==
    /\ t # origin /\ unsafeHead # NoBlock /\ Height(t) > Height(unsafeHead.org) + 1
    /\ Height(unsafeHead.org) > Height(l1)

\* The batch for the child of S is in the L1 chain up to t.
HasBatch(S, t) ==
    \E h \in 1..Height(t) :
        LET before == Derived(L1At(t, h - 1))
        IN  /\ before = S.kinds
            /\ Len(t[h].l2) > Len(before) /\ t[h].l2[Len(before) + 1] = 1

\* BatchQueue and AttributesQueue: the kind of the child of S, derived from L1 up to t.
\* The origin of the child must be known.
NextKind(k, S, t) ==
    /\ Height(t) > Number(S)
    /\ \/ k = 1 /\ HasBatch(S, t)
       \/ k = 0 /\ ~HasBatch(S, t) /\ Height(t) >= Number(S) + 1 + SeqWindowSize

\* BatchQueue: the buffered L1 blocks do not continue the origin of S.
EpochMismatch(S, t) == Height(t) >= Number(S) /\ L1At(t, Number(S)) # S.org

\* L1Traversal.AdvanceL1Block
AdvanceL1BlockAnyway ==
    /\ IF Height(l1) > Height(traversal) /\ Canonical(traversal)
       THEN traversal' = L1At(l1, Height(traversal) + 1) ELSE UNCHANGED traversal
    /\ stepReq' = TRUE /\ UNCHANGED resetting
AdvanceL1Block ==
    \/ /\ Height(l1) <= Height(traversal)
       /\ stepReq' = FALSE /\ UNCHANGED <<traversal, resetting>>
    \/ /\ Height(l1) > Height(traversal) /\ Canonical(traversal)
       /\ traversal' = L1At(l1, Height(traversal) + 1)
       /\ stepReq' = TRUE /\ UNCHANGED resetting
    \/ /\ Height(l1) > Height(traversal) /\ ~Canonical(traversal)
       /\ resetting' = 0 /\ stepReq' = FALSE /\ UNCHANGED traversal

\* The rest of EngineQueue.Step after the finalizer's part.
NextAttributes ==
    \/ /\ EpochMismatch(safeHead, traversal)
       /\ resetting' = 0 /\ stepReq' = FALSE
       /\ UNCHANGED <<traversal, attributes, faults>>
    \/ /\ ~EpochMismatch(safeHead, traversal)
       /\ \E k \in {0, 1} :
            /\ NextKind(k, safeHead, traversal)
            /\ attributes' = Child(safeHead, traversal, k)
       /\ stepReq' = TRUE /\ UNCHANGED <<traversal, resetting, faults>>
    \/ /\ ~EpochMismatch(safeHead, traversal) /\ Height(traversal) > Number(safeHead)
       /\ Fault /\ attributes' = Refused
       /\ stepReq' = TRUE /\ UNCHANGED <<traversal, resetting>>
    \/ /\ ~EpochMismatch(safeHead, traversal)
       /\ \A k \in {0, 1} : ~NextKind(k, safeHead, traversal)
       /\ AdvanceL1Block /\ UNCHANGED <<attributes, faults>>
MoveOn ==
    \/ /\ OriginUnknown(traversal)
       /\ stepReq' = TRUE /\ UNCHANGED <<pipelineVars, faults>>
    \/ /\ OriginConflict(traversal)
       /\ resetting' = 0 /\ stepReq' = FALSE
       /\ UNCHANGED <<traversal, origin, attributes, faults>>
    \/ /\ ~OriginUnknown(traversal) /\ ~OriginConflict(traversal)
       /\ origin' = traversal /\ NextAttributes

\* EngineQueue.Step when there are no attributes to process, with what the finalizer
\* returns.
Step(result) ==
    /\ stepReq /\ resetting = 2 /\ ~needFCUCall /\ attributes = NoBlock
    /\ finalityData' = PostProcessSafeL2
    /\ OnDerivationL1End(PostProcessSafeL2, result)
    /\ \/ result = "done" /\ MoveOn
       \/ /\ result = "reset" /\ resetting' = 0 /\ stepReq' = FALSE
          /\ UNCHANGED <<traversal, origin, attributes, faults>>
       \/ /\ result = "temporary" /\ stepReq' = TRUE
          /\ UNCHANGED <<pipelineVars, faults>>
    /\ UNCHANGED <<l1Vars, resets, unsafeHead, safeHead, labels, finalizedL1>>

SyncStep ==
    \/ TryUpdateEngine \/ UpdateNeedsReset \/ ResetEngineQueue \/ ResetStages
    \/ ConsolidateNextSafeAttributes \/ ConsolidateNeedsReset
    \/ ForceNextSafeAttributes \/ ForceRejected
    \/ Step("done") \/ Step("reset")

FailedStep ==
    UpdateUnanswered \/ InsertUnanswered \/ ForceUnanswered \/ Step("temporary")

Next ==
    \/ \E batch \in BOOLEAN : L1Grow(batch)
    \/ \E h \in 0..MaxL1 : L1Reorg(h)
    \/ \E h \in 1..MaxL1 : Finalize(h)
    \/ InsertUnsafePayload
    \/ ForceReset
    \/ Restart
    \/ Signal
    \/ SyncStep
    \/ FailedStep

Spec == Init /\ [][Next]_vars

\* L1 heads and the finalized block that is polled keep coming, and a request that fails
\* is repeated until it succeeds.
FairSpec == Spec /\ WF_vars(Signal) /\ SF_vars(SyncStep)

-----------------------------------------------------------------------------
(* Properties. *)

L1Block == Seq([fork : Nat, l2 : Seq({0, 1})])
L2Block == {B \in [org : L1Block, kinds : Seq({0, 1})] : Len(B.org) = Len(B.kinds)}

\* The variables have their types; L2 block n has its origin at L1 height n.
TypeOK ==
    /\ l1 \in L1Block /\ l1Final \in 0..Height(l1)
    /\ reorgs \in 0..MaxDisruptions /\ resets \in Nat /\ faults \in Nat
    /\ stepReq \in BOOLEAN
    /\ traversal \in L1Block /\ origin \in L1Block /\ resetting \in 0..2
    /\ attributes \in L2Block \cup {NoBlock, Refused}
    /\ unsafeHead \in L2Block \cup {NoBlock}
    /\ safeHead \in L2Block /\ finalizedHead \in L2Block /\ needFCUCall \in BOOLEAN
    /\ labels \in [unsafe : L2Block, safe : L2Block, finalized : L2Block]
    /\ finalizedL1 \in L1Block /\ triedFinalizeAt \in Nat
    /\ finalityData \in Seq([l2 : L2Block, l1 : L1Block])
    /\ finalizedFrom \in L1Block

\* The heads of EngineController fit together through L1 reorganisations, resets,
\* restarts, lost answers and refusals: the finalized block is an ancestor of the safe
\* one; the unsafe head is never behind the safe one, is a descendant of it unless the
\* engine has yet to be told of both, and is there whenever attributes are processed.
HeadsOrdered ==
    /\ IsAncestor(finalizedHead, safeHead)
    /\ IF unsafeHead = NoBlock THEN attributes = NoBlock
       ELSE Number(safeHead) <= Number(unsafeHead) /\ (~needFCUCall => Consistent)

\* tryFinalize finalizes an L2 block only for an L1 block of the finalized L1 chain, and
\* finalityData that a reorganisation has outdated never changes that.
FinalizedOnFinalChain ==
    Height(finalizedFrom) <= l1Final /\ Canonical(finalizedFrom)

\* The L1 chain up to its finalized block derives the finalized L2 block: what the
\* comment on FinalityData says of an L1 block recorded by PostProcessSafeL2.
FinalReproducible == Derives(L1At(l1, l1Final), finalizedHead)

\* tryFinalize finalizes only L2 blocks that the finalized L1 chain derives, as long as
\* EngineQueue.Reset has never rolled the safe head back.
SteadyFinality == reorgs = 0 /\ resets = 0 => FinalReproducible

\* Once the pipeline has read L1 up to the origin of the safe head, that origin is on
\* the L1 chain it reads: FindL2Heads, verifyNewL1Origin and the epoch check of
\* BatchQueue notice a reorganisation below it before L2 is extended.
SafeOnPipelineChain ==
    resetting = 2 /\ Height(origin) >= Number(safeHead)
    => L1At(origin, Number(safeHead)) = safeHead.org

\* Once the pipeline has caught up with the unsafe head, the L1 chain up to its origin
\* derives all safe L2 blocks, as DerivationPipeline.Origin says it does.
SafeFromL1 ==
    /\ resetting = 2 /\ Height(origin) >= Height(unsafeHead.org)
    /\ Derives(origin, finalizedHead)
    => Derives(origin, safeHead)

\* Without L1 reorganisations FindL2Heads rewinds far enough that no reset or restart
\* leaves a block safe that L1 does not derive.
ResetHarmless == reorgs = 0 => SafeFromL1

\* While the node runs, tryFinalize and EngineQueue.Reset move the finalized head to
\* descendants of itself only.  (A restart forgets a finalized head that
\* TryUpdateEngine did not tell the engine of.)
FinalizedGrows ==
    [][IsAncestor(finalizedHead, finalizedHead') \/ resets' # resets]_vars

\* PostProcessSafeL2 keeps in finalityData at most the lookback of entries, for ever
\* higher L1 blocks and for L2 blocks that descend from one another: tryFinalize may
\* take the last entry that is final.
FinalityWindow ==
    /\ Len(finalityData) <= FinalityLookback
    /\ \A i, j \in DOMAIN finalityData : i < j =>
          /\ Height(finalityData[i].l1) < Height(finalityData[j].l1)
          /\ IsAncestor(finalityData[i].l2, finalityData[j].l2)

\* Whatever L1 and the node go through, the resets the driver's steps ask for end and
\* AdvanceL1Block brings the pipeline to the height of L1, unless an L2 block was
\* finalized whose origin L1 has given up, or the engine refuses the heads for ever:
\* the reset of UpdateNeedsReset waits for the very update that it is to mend.
KeepsUp ==
    \/ <>~Canonical(finalizedHead.org)
    \/ <>[](Height(l1) <= Height(origin))
    \/ <>[](needFCUCall /\ unsafeHead # NoBlock /\ ~Consistent)
=============================================================================
