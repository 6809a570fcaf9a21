--------------------------- MODULE UnsafePayloads ---------------------------
(***************************************************************************)
(* Following the unsafe chain in op-node: the queue of the L2 payloads     *)
(* that gossip and alternative sync deliver (PayloadsQueue) and the step   *)
(* that applies them to the unsafe head (CLSync.Proceed), next to the      *)
(* derivation that moves the safe head and may move the unsafe head back   *)
(* or onto another branch, and the execution engine, whose answers may be  *)
(* lost.  Consensus-layer sync mode: every delivered payload goes through  *)
(* the queue (rollup/driver/state.go).                                     *)
(*                                                                         *)
(* The driver's event loop is one goroutine: each event is one action.     *)
(*                                                                         *)
(* Data.  An envelope is one delivery of a block.  The queue is the set of *)
(* its envelopes: which of two with the same number a heap has on top is   *)
(* left open.  Every batch is of one block, so the pending safe head is    *)
(* the safe head.                                                          *)
(***************************************************************************)
EXTENDS BlockTree, FiniteSets, FiniteSetsExt

CONSTANTS
    Size,         \* payloadMemSize of a block's payload
    MaxSize,      \* PayloadsQueue.MaxSize
    Invalid,      \* blocks the execution engine calls INVALID
    NoBlock,      \* no attributes
    MaxReceipts,  \* bound: deliveries
    MaxFaults,    \* bound: requests of the derivation that the engine does not answer
    MaxResets     \* bound: resets of the derivation pipeline

ASSUME PayloadsAssumption ==
    /\ Size \in [Blocks -> Nat \ {0}] /\ MaxSize \in Nat
    /\ Invalid \subseteq Blocks /\ NoBlock \notin Blocks
    /\ MaxReceipts \in Nat /\ MaxFaults \in Nat /\ MaxResets \in Nat

VARIABLES
    queue,                 \* PayloadsQueue.pq
    currentSize,           \* PayloadsQueue.currentSize
    blockHashes,           \* PayloadsQueue.blockHashes
    unsafeHead, safeHead,  \* EngineController
    needFCUCall,
    engineHead,            \* the execution engine's head
    attributes,            \* AttributesHandler.attributes: [block, valid]
    resetting,             \* the pipeline is to be reset
    receipts, faults, resets  \* counters of what the bounds limit

queueVars == <<queue, currentSize, blockHashes>>
headVars == <<unsafeHead, safeHead>>
engineVars == <<engineHead, needFCUCall>>
resetVars == <<resetting, resets>>
vars == <<queueVars, headVars, engineVars, attributes, resetVars, receipts, faults>>

NoAttributes == [block |-> NoBlock, valid |-> FALSE]

Init ==
    /\ queue = {} /\ currentSize = 0 /\ blockHashes = {}
    /\ unsafeHead = GenesisL2 /\ safeHead = GenesisL2
    /\ engineHead = GenesisL2 /\ needFCUCall = FALSE /\ attributes = NoAttributes
    /\ resetting = FALSE /\ receipts = 0 /\ faults = 0 /\ resets = 0

-----------------------------------------------------------------------------
(***************************************************************************)
(* The queue.                                                              *)
(***************************************************************************)
BlocksOf(envelopes) == {e.block : e \in envelopes}
MemSize(envelopes) == MapThenSumSet(LAMBDA e : Size[e.block], envelopes)

Lowest(envelopes) ==
    {e \in envelopes : \A f \in envelopes : Number(e.block) <= Number(f.block)}

\* One pop at most.
PopsOnce(D, all, total) ==
    /\ D = {} <=> total <= MaxSize
    /\ Cardinality(D) <= 1 /\ D \subseteq Lowest(all)

\* Pops while the limit is reached, not exceeded.
PopsAtLimit(D, all, total) ==
    /\ \A d \in D, k \in all \ D : Number(d.block) <= Number(k.block)
    /\ total - MemSize(D) < MaxSize
    /\ D = {} \/ \E last \in D :
                    /\ \A d \in D : Number(d.block) <= Number(last.block)
                    /\ total - MemSize(D \ {last}) >= MaxSize

\* The envelopes D that Push pops from the envelopes all of total size total: one
\* lowest after the other, until the others fit.
PopsUntilFits(D, all, total) ==
    /\ \A d \in D, k \in all \ D : Number(d.block) <= Number(k.block)
    /\ total - MemSize(D) <= MaxSize
    /\ D = {} \/ \E last \in D :
                    /\ \A d \in D : Number(d.block) <= Number(last.block)
                    /\ total - MemSize(D \ {last}) > MaxSize

\* PayloadsQueue.Pop forgets the hash of the block it pops.
ForgetNumbers(hashes, blocks) == {b \in hashes : \A c \in blocks : Number(b) # Number(c)}
Forget(hashes, blocks) == hashes \ blocks

\* currentSize with envelope e pushed.
GrownSizeUncounted(e) == currentSize
GrownSize(e) == currentSize + Size[e.block]

Push(e) ==
    LET all == queue \union {e}
        total == GrownSize(e)
    IN  \E D \in SUBSET all :
            /\ PopsUntilFits(D, all, total)
            /\ queue' = all \ D
            /\ currentSize' = total - MemSize(D)
            /\ blockHashes' = Forget(blockHashes, BlocksOf(D)) \union {e.block}

Pop(e) ==
    /\ queue' = queue \ {e}
    /\ currentSize' = currentSize - Size[e.block]
    /\ blockHashes' = Forget(blockHashes, {e.block})

\* The driver takes a payload from unsafeL2Payloads.
AddUnsafePayload(b) ==
    /\ receipts < MaxReceipts
    /\ receipts' = receipts + 1
    /\ IF b \in blockHashes \/ Size[b] > MaxSize
       THEN UNCHANGED queueVars
       ELSE Push([block |-> b, receipt |-> receipts])
    /\ UNCHANGED <<headVars, engineVars, attributes, resetVars, faults>>

-----------------------------------------------------------------------------
(***************************************************************************)
(* The driver's syncStep tells the engine of new heads first, else it      *)
(* takes CLSync.Proceed with the lowest envelope e and, if that says EOF,  *)
(* a step of the derivation.                                               *)
(***************************************************************************)
Fault == faults < MaxFaults /\ faults' = faults + 1

\* The derivation pipeline is reset.
ResetPipeline == resets < MaxResets /\ resets' = resets + 1 /\ resetting' = TRUE

\* The engine refuses a forkchoice whose safe head is not on the chain of its head.
Consistent == IsAncestor(safeHead, unsafeHead)

\* What the engine's head may be after it was told to make p its head and op-node did not
\* get an answer, or was told that the safe head is not on its chain.
MaybeMoved(p) == engineHead' \in {engineHead, p}

TryUpdateEngine ==
    /\ needFCUCall /\ Consistent
    /\ needFCUCall' = FALSE /\ engineHead' = unsafeHead
    /\ UNCHANGED <<queueVars, headVars, attributes, resetVars, receipts, faults>>

\* The engine refuses the heads: needFCUCall stays set.
UpdateNeedsReset ==
    /\ needFCUCall /\ ~Consistent
    /\ MaybeMoved(unsafeHead)
    /\ resetting' = TRUE
    /\ UNCHANGED <<queueVars, headVars, needFCUCall, attributes, resets, receipts, faults>>

UpdateUnanswered ==
    /\ needFCUCall
    /\ Fault /\ MaybeMoved(unsafeHead)
    /\ UNCHANGED <<queueVars, headVars, needFCUCall, attributes, resetVars, receipts>>

\* Not above the safe head or the unsafe head.
StaleBelow(e) == Number(e.block) <= Number(safeHead) \/ Number(e.block) < Number(unsafeHead)
Stale(e) == Number(e.block) <= Number(safeHead) \/ Number(e.block) <= Number(unsafeHead)

ExtendsNumber(e) == Number(e.block) = Number(unsafeHead) + 1
ExtendsUnsafeByNumber(e) == ExtendsNumber(e)
ExtendsUnsafe(e) == Parent(e.block) = unsafeHead

SkipStale(e) ==
    /\ Stale(e)
    /\ Pop(e)
    /\ UNCHANGED <<headVars, engineVars, attributes, resetVars, receipts, faults>>

\* EngineController.InsertUnsafePayload.
InsertUnsafePayload(e) ==
    /\ ~Stale(e) /\ ExtendsUnsafe(e) /\ e.block \notin Invalid
    /\ unsafeHead' = e.block /\ engineHead' = e.block /\ needFCUCall' = TRUE
    /\ Pop(e)
    /\ UNCHANGED <<safeHead, attributes, resetVars, receipts, faults>>

\* The call fails or the engine calls the payload invalid, which is temporary all the
\* same: the payload stays, and the derivation is not asked.
InsertLater(e) ==
    /\ ~Stale(e) /\ ExtendsUnsafe(e)
    /\ IF e.block \in Invalid THEN UNCHANGED engineHead ELSE MaybeMoved(e.block)
    /\ UNCHANGED <<queueVars, headVars, needFCUCall, attributes, resetVars, receipts,
                   faults>>

\* The engine finds the forkchoice state invalid: the payload is dropped, and
\* the driver resets the pipeline.
DropAndReset(e) ==
    /\ ~Stale(e) /\ ExtendsUnsafe(e)
    /\ ResetPipeline
    /\ Pop(e)
    /\ MaybeMoved(e.block)
    /\ UNCHANGED <<headVars, needFCUCall, attributes, receipts, faults>>

\* Proceed says EOF: the lowest payload, if any, is beyond a gap or on another branch.
NothingToApply ==
    \/ queue = {} /\ UNCHANGED queueVars
    \/ \E e \in Lowest(queue) :
        /\ ~Stale(e) /\ ~ExtendsUnsafe(e)
        /\ IF ExtendsNumber(e) THEN Pop(e) ELSE UNCHANGED queueVars

-----------------------------------------------------------------------------
(***************************************************************************)
(* The derivation: AttributesHandler.Proceed and EngineQueue.Reset.        *)
(***************************************************************************)
\* Attributes for a child of the safe head; a block of attributes that are not valid is
\* one the engine refuses.
NextAttributes ==
    /\ ~resetting /\ attributes = NoAttributes
    /\ \E b \in Blocks \ (Invalid \union {GenesisL2}), valid \in BOOLEAN :
           Parent(b) = safeHead /\ attributes' = [block |-> b, valid |-> valid]
    /\ UNCHANGED <<headVars, engineVars, resetVars, faults>>

HasAttributes == ~resetting /\ attributes # NoAttributes

\* The engine's block at the number after the safe head is the one of the attributes.
Matches == attributes.valid /\ IsAncestor(attributes.block, engineHead)

\* EngineController.SetSafeHead.
SetSafeHeadOnly(b) == safeHead' = b /\ UNCHANGED needFCUCall
SetSafeHead(b) == safeHead' = b /\ needFCUCall' = TRUE

\* consolidateNextSafeAttributes, with a match.
ConsolidateNextSafeAttributes ==
    /\ HasAttributes /\ Number(safeHead) < Number(unsafeHead) /\ Matches
    /\ SetSafeHead(attributes.block)
    /\ attributes' = NoAttributes
    /\ UNCHANGED <<unsafeHead, engineHead, resetVars, faults>>

\* The engine has no block at that number.
ConsolidateNeedsReset ==
    /\ HasAttributes /\ Number(safeHead) < Number(unsafeHead)
    /\ Number(engineHead) <= Number(safeHead)
    /\ ResetPipeline
    /\ UNCHANGED <<headVars, engineVars, attributes, faults>>

\* The attributes are to be forced: at the unsafe head, or against its chain.
MayForce ==
    /\ HasAttributes
    /\ \/ Number(safeHead) >= Number(unsafeHead)
       \/ Number(engineHead) > Number(safeHead) /\ ~Matches

\* forceNextSafeAttributes: StartPayload on the safe head, then ConfirmPayload.
ForceNextSafeAttributes ==
    /\ MayForce /\ attributes.valid
    /\ safeHead' = attributes.block /\ unsafeHead' = attributes.block
    /\ engineHead' = attributes.block
    /\ attributes' = NoAttributes
    /\ UNCHANGED <<needFCUCall, resetVars, faults>>

\* A request is not answered: the engine may have the block, op-node keeps its heads.
ForceUnanswered ==
    /\ MayForce
    /\ Fault
    /\ \/ MaybeMoved(safeHead)
       \/ attributes.valid /\ MaybeMoved(attributes.block)
    /\ UNCHANGED <<headVars, needFCUCall, attributes, resetVars>>

\* The engine answers with an error that needs a reset.
ForceNeedsReset ==
    /\ MayForce
    /\ MaybeMoved(safeHead)
    /\ ResetPipeline
    /\ UNCHANGED <<headVars, needFCUCall, attributes, faults>>

\* The engine refuses the block: the batch is dropped.  There is no backup of the unsafe
\* head to restore, since every forced block is safe.
ForceRejected ==
    /\ MayForce /\ ~attributes.valid
    /\ engineHead' = safeHead
    /\ attributes' = NoAttributes
    /\ UNCHANGED <<headVars, needFCUCall, resetVars, faults>>

\* EngineQueue.Reset with the heads FindL2Heads found from the engine's; L2Derivation
\* says which.
ResetHeads(u, s) ==
    /\ resetting /\ resetting' = FALSE
    /\ IsAncestor(u, engineHead) /\ IsAncestor(s, u) /\ IsAncestor(s, safeHead)
    /\ unsafeHead' = u /\ safeHead' = s /\ needFCUCall' = TRUE
    /\ attributes' = NoAttributes
    /\ UNCHANGED <<engineHead, resets, faults>>

DerivationStep ==
    \/ NextAttributes \/ ConsolidateNextSafeAttributes \/ ConsolidateNeedsReset
    \/ ForceNextSafeAttributes \/ ForceUnanswered \/ ForceNeedsReset \/ ForceRejected
    \/ \E u, s \in Blocks : ResetHeads(u, s)
    \/ UNCHANGED <<headVars, engineVars, attributes, resetVars, faults>>

-----------------------------------------------------------------------------
\* CLSync.Proceed says anything else than EOF.
ProceedLowest ==
    \E e \in Lowest(queue) :
        SkipStale(e) \/ InsertUnsafePayload(e) \/ InsertLater(e) \/ DropAndReset(e)

SyncStep ==
    \/ TryUpdateEngine \/ UpdateNeedsReset \/ UpdateUnanswered
    \/ /\ ~needFCUCall
       /\ \/ ProceedLowest
          \/ NothingToApply /\ DerivationStep /\ UNCHANGED receipts

\* Any other error that needs a reset, or an operator that asks for one.
RequestReset ==
    /\ ResetPipeline
    /\ UNCHANGED <<queueVars, headVars, engineVars, attributes, receipts, faults>>

Next ==
    \/ \E b \in Blocks \ {GenesisL2} : AddUnsafePayload(b)
    \/ SyncStep
    \/ RequestReset

Spec == Init /\ [][Next]_vars

\* The driver asks for a step after every payload, every L1 head and every step that says
\* neither EOF nor that a reset is needed, so syncStep runs again and again; that the
\* derivation ever has a block is not assumed.
Proceed ==
    \/ TryUpdateEngine
    \/ /\ ~needFCUCall
       /\ \/ ProceedLowest
          \/ /\ NothingToApply
             /\ UNCHANGED <<headVars, engineVars, attributes, resetVars, receipts, faults>>
FairSpec == Spec /\ WF_vars(Proceed)

-----------------------------------------------------------------------------
Envelopes == [block : Blocks \ {GenesisL2}, receipt : 0..(MaxReceipts - 1)]

\* Types of the variables; currentSize, unsigned in the code, never goes below zero.
TypeOK ==
    /\ queue \subseteq Envelopes /\ currentSize \in Nat /\ blockHashes \subseteq Blocks
    /\ unsafeHead \in Blocks /\ safeHead \in Blocks
    /\ engineHead \in Blocks /\ needFCUCall \in BOOLEAN
    /\ attributes = NoAttributes \/ attributes \in [block : Blocks, valid : BOOLEAN]
    /\ resetting \in BOOLEAN
    /\ receipts \in 0..MaxReceipts /\ faults \in 0..MaxFaults /\ resets \in 0..MaxResets

\* However often a block is delivered, popped, evicted and delivered again, the queue
\* never holds it twice, and no other block with its number makes the queue forget it:
\* what blockHashes is for.
NoDuplicates ==
    /\ \A e, f \in queue : e.block = f.block => e = f
    /\ BlocksOf(queue) \subseteq blockHashes

\* The memory accounted for is that of the payloads in the queue and within the limit,
\* over every order of pushes, evictions and pops.
SizeAccounted == currentSize = MemSize(queue) /\ currentSize <= MaxSize

\* A push never evicts everything, itself included: AddUnsafePayload uses the lowest
\* payload after it without looking whether there is one.
PushKeepsOne == [][blockHashes' \ blockHashes # {} => queue' # {}]_vars

\* Payloads, consolidated and forced blocks, lost answers, refused blocks and resets in any
\* order keep the safe head on the unsafe chain, once the engine has been told of both.
\* The answer to a forced block may be lost and the block consolidated against the engine
\* afterwards: then the safe head alone has left the unsafe chain, its parent has not, and
\* the engine is still to be told.
HeadsOrdered ==
    /\ Number(safeHead) <= Number(unsafeHead)
    /\ ~needFCUCall \/ faults = 0 => Consistent
    /\ safeHead # GenesisL2 => IsAncestor(Parent(safeHead), unsafeHead)

\* Payloads never reorganise the unsafe chain, only derivation and resets do: of two
\* blocks with the same number the first applied stays.
FirstSeenKept ==
    [][safeHead' = safeHead /\ ~resetting => IsAncestor(unsafeHead, unsafeHead')]_vars

\* When nothing more arrives, every payload that is not beyond a gap in the unsafe chain
\* leaves the queue; then checkForGapInUnsafeQueue asks for the gap.  But if the engine
\* refuses the heads after a lost answer, syncStep gets no further.
GapRemains ==
    \/ <>[](\A e \in queue : Number(e.block) > Number(unsafeHead) + 1)
    \/ <>[](needFCUCall /\ ~Consistent)

\* A payload that the engine calls invalid is dropped from the top of the queue.
InvalidDropped ==
    \A b \in Invalid :
        (\E e \in Lowest(queue) : e.block = b /\ ExtendsUnsafe(e))
        ~> ~(\E e \in Lowest(queue) : e.block = b /\ ExtendsUnsafe(e))
=============================================================================
