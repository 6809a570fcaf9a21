----------------------------- MODULE Sequencer ------------------------------
(***************************************************************************)
(* The sequencer of op-node (rollup/driver/sequencer.go), the engine       *)
(* controller it shares with the derivation (StartPayload, ConfirmPayload, *)
(* CancelPayload, TryBackupUnsafeReorg), the attributes handler and the    *)
(* asynchronous gossiper.  A block goes to the conductor and to the peers  *)
(* before the node's own engine has it; what the engine then fails to      *)
(* answer for must be inserted later, not built again.                     *)
(*                                                                         *)
(* The driver's event loop is one goroutine and waits for the gossiper, so *)
(* each event is one action.                                               *)
(*                                                                         *)
(* Data.  Blocks of the derivation from deposits alone end in 0.  Times,   *)
(* L1 origins and the finalized head are left out.                         *)
(***************************************************************************)
EXTENDS BlockTree

CONSTANTS
    NoBlock,       \* the zero value of a block reference
    CombinedAPI,   \* values of EngineController.combinedAPI
    MaxFaults,     \* bound: requests that fail temporarily
    MaxResets      \* bound: resets of the derivation pipeline

ASSUME SequencerAssumption ==
    /\ NoBlock \notin Blocks
    /\ CombinedAPI \subseteq BOOLEAN
    /\ MaxFaults \in Nat /\ MaxResets \in Nat

Children(p) == {b \in Blocks : b # GenesisL2 /\ Parent(b) = p}
DepositsOnly(b) == b[Len(b)] = 0

VARIABLES
    unsafeHead, pendingSafeHead, safeHead,  \* EngineController
    backupUnsafeHead,
    needFCUCall, needFCUCallForBackupUnsafeReorg,
    building,        \* buildingOnto, buildingInfo, buildingSafe and safeAttrs
    attributes,      \* AttributesHandler.attributes
    engineHead,      \* the execution engine's head
    currentPayload,  \* SimpleAsyncGossiper.currentPayload
    active,          \* not driverConfig.SequencerStopped
    ready,           \* DerivationPipeline.EngineReady
    combinedAPI,
    unsettled,       \* blocks published that the engine has neither taken nor refused
    created,         \* the blocks that exist
    faults, resets   \* counters of what the bounds limit

headVars == <<unsafeHead, pendingSafeHead, safeHead>>
backupVars == <<backupUnsafeHead, needFCUCallForBackupUnsafeReorg>>
engineVars == <<engineHead, needFCUCall>>
historyVars == <<unsettled, created>>
controlVars == <<active, ready, combinedAPI>>
countVars == <<faults, resets>>
vars == <<headVars, backupVars, engineVars, building, attributes, currentPayload,
          controlVars, historyVars, countVars>>

\* resetBuildingState
NoJob == [onto |-> NoBlock, block |-> NoBlock, safe |-> FALSE, last |-> FALSE]
NoAttributes == [block |-> NoBlock, last |-> FALSE, valid |-> FALSE]

Init ==
    /\ unsafeHead = GenesisL2 /\ pendingSafeHead = GenesisL2 /\ safeHead = GenesisL2
    /\ backupUnsafeHead = NoBlock /\ needFCUCallForBackupUnsafeReorg = FALSE
    /\ engineHead = GenesisL2 /\ needFCUCall = FALSE
    /\ building = NoJob /\ attributes = NoAttributes /\ currentPayload = NoBlock
    /\ active \in BOOLEAN /\ ready = TRUE /\ combinedAPI \in CombinedAPI
    /\ unsettled = {} /\ created = {}
    /\ faults = 0 /\ resets = 0

\* The lowest names not in use for a new block on p.
Fresh(p) ==
    LET free == {b \in Children(p) : ~DepositsOnly(b) /\ b \notin created
                                       /\ b # building.block}
    IN  {b \in free : \A c \in free : b[Len(b)] <= c[Len(c)]}

Fault == faults < MaxFaults /\ faults' = faults + 1

\* The driver resets the derivation pipeline.
ResetPipeline == ready' = FALSE /\ resets < MaxResets /\ resets' = resets + 1

-----------------------------------------------------------------------------
(***************************************************************************)
(* The sequencer: RunNextSequencerAction.                                  *)
(***************************************************************************)
Sequencing == active /\ ready

\* The engine refuses a forkchoice whose safe head is not on the chain of its head.
Consistent(head) == IsAncestor(safeHead, head)

\* What the engine's head may be after it was told to make p its head and op-node did not
\* get an answer, or was told that the safe head is not on its chain.
MaybeMoved(p) == engineHead' \in {engineHead, p}

MayStart == Sequencing /\ building.block = NoBlock /\ currentPayload = NoBlock

\* Start a job on the unsafe head.
StartBuildingBlock ==
    /\ MayStart /\ Consistent(unsafeHead)
    /\ \E b \in Fresh(unsafeHead) :
           building' = [onto |-> unsafeHead, block |-> b, safe |-> FALSE, last |-> FALSE]
    /\ engineHead' = unsafeHead
    /\ UNCHANGED <<headVars, backupVars, needFCUCall, attributes, currentPayload,
                   controlVars, historyVars, countVars>>

\* The engine does not answer, or refuses the heads.
StartFails ==
    /\ MayStart
    /\ IF Consistent(unsafeHead) THEN Fault ELSE UNCHANGED faults
    /\ MaybeMoved(unsafeHead)
    /\ UNCHANGED <<headVars, backupVars, needFCUCall, building, attributes,
                   currentPayload, controlVars, historyVars, resets>>

\* The L1 origin of the unsafe head is not canonical.
StartNeedsReset ==
    /\ MayStart
    /\ ResetPipeline
    /\ UNCHANGED <<headVars, backupVars, engineVars, building, attributes,
                   currentPayload, active, combinedAPI, historyVars, faults>>

\* A job of the derivation is not interrupted.
MaySeal == Sequencing /\ ~building.safe

\* confirmPayload takes the gossiper's payload before that of the job.
Payload == IF currentPayload # NoBlock THEN currentPayload ELSE building.block

\* Gossip: the gossiper keeps what it has published.
Gossip(p, kept) ==
    \/ kept = p /\ unsettled' = unsettled \union {p}
    \/ kept = currentPayload /\ UNCHANGED unsettled

\* The engine has taken or refused p, gossiped or not: the gossiper is cleared.
SettledUncleared(p) ==
    /\ unsettled' = unsettled \ {p} /\ created' = created \union {p}
    /\ UNCHANGED currentPayload
Settled(p) ==
    /\ unsettled' = unsettled \ {p} /\ created' = created \union {p}
    /\ currentPayload' = NoBlock

\* The block p has become the unsafe head.
Backup(p) == IF Number(unsafeHead) >= Number(p) THEN unsafeHead ELSE backupUnsafeHead

Inserted(p) ==
    /\ Consistent(p)
    /\ engineHead' = p /\ unsafeHead' = p
    /\ backupUnsafeHead' = Backup(p)
    /\ needFCUCallForBackupUnsafeReorg' =
           IF Number(unsafeHead) >= Number(p) THEN FALSE
           ELSE needFCUCallForBackupUnsafeReorg
    /\ building' = NoJob
    /\ UNCHANGED <<pendingSafeHead, safeHead, needFCUCall, attributes>>

\* CancelBuildingBlock
Cancelled == building' = NoJob

unmovedVars == <<headVars, backupVars, needFCUCall, attributes, controlVars>>

\* confirmPayload: the payload is not retrieved or not committed by the conductor.
SealNotGossiped ==
    /\ MaySeal /\ ~combinedAPI /\ building.block # NoBlock
    /\ Fault /\ Cancelled
    /\ UNCHANGED <<unmovedVars, engineHead, currentPayload, historyVars, resets>>

\* confirmPayload: a request of newPayload or forkchoiceUpdated fails, or the engine is
\* syncing.
SealUnansweredCleared ==
    /\ MaySeal /\ ~combinedAPI /\ Payload # NoBlock
    /\ \E kept \in {Payload, currentPayload} : Gossip(Payload, kept)
    /\ currentPayload' = NoBlock
    /\ created' = created \union {Payload}
    /\ MaybeMoved(Payload)
    /\ Fault /\ Cancelled
    /\ UNCHANGED <<unmovedVars, resets>>
SealUnanswered ==
    /\ MaySeal /\ ~combinedAPI /\ Payload # NoBlock
    /\ Gossip(Payload, currentPayload')
    /\ created' = created \union {Payload}
    /\ MaybeMoved(Payload)
    /\ Fault /\ Cancelled
    /\ UNCHANGED <<unmovedVars, resets>>

\* The engine refuses the payload, or the forkchoice with it.
SealRejected ==
    /\ MaySeal /\ ~combinedAPI /\ Payload # NoBlock
    /\ Settled(Payload)
    /\ IF Consistent(Payload)
       THEN Fault /\ UNCHANGED engineHead
       ELSE MaybeMoved(Payload) /\ UNCHANGED faults
    /\ Cancelled
    /\ UNCHANGED <<unmovedVars, resets>>

SealInserted ==
    /\ MaySeal /\ ~combinedAPI /\ Payload # NoBlock
    /\ Settled(Payload)
    /\ Inserted(Payload)
    /\ UNCHANGED <<controlVars, countVars>>

-----------------------------------------------------------------------------
(***************************************************************************)
(* confirmPayloadCombined: the payload is retrieved and gossiped while     *)
(* SealPayload retrieves, inserts and makes it the head.  The gossiper's   *)
(* payload is not used.                                                    *)
(***************************************************************************)
MaySealAnyJob == MaySeal /\ combinedAPI
MaySealCombined == MaySeal /\ combinedAPI /\ building.block # NoBlock

\* What the gossiper holds when the payload was or was not retrieved and published.
GossipedCombined(kept) ==
    /\ Gossip(building.block, kept)
    /\ created' = created \union {building.block}

\* An error that is not marked temporary: at retrieving, or inserting, also if the
\* engine calls the payload inconsistent.
CombinedUnanswered ==
    /\ MaySealCombined
    /\ GossipedCombined(currentPayload')
    /\ Fault /\ Cancelled
    /\ UNCHANGED <<unmovedVars, engineHead, resets>>

\* A temporary error: of the network; or sealed, but not retrieved.  The job stays.
CombinedTemporary ==
    /\ MaySealCombined
    /\ GossipedCombined(currentPayload')
    /\ MaybeMoved(building.block)
    /\ Fault
    /\ UNCHANGED <<unmovedVars, building, resets>>

\* The forkchoice update fails temporarily: the job stays, the gossiper is cleared.
CombinedForkchoiceFails ==
    /\ MaySealCombined
    /\ \E kept \in {building.block, currentPayload} : GossipedCombined(kept)
    /\ currentPayload' = NoBlock
    /\ MaybeMoved(building.block)
    /\ Fault
    /\ UNCHANGED <<unmovedVars, building, resets>>

CombinedRejected ==
    /\ MaySealCombined
    /\ Settled(building.block)
    /\ IF Consistent(building.block)
       THEN Fault /\ UNCHANGED engineHead
       ELSE MaybeMoved(building.block) /\ UNCHANGED faults
    /\ Cancelled
    /\ UNCHANGED <<unmovedVars, resets>>

CombinedInserted ==
    /\ MaySealCombined
    /\ Settled(building.block)
    /\ Inserted(building.block)
    /\ UNCHANGED <<controlVars, countVars>>

-----------------------------------------------------------------------------
(***************************************************************************)
(* The driver: stopping and starting the sequencer.                        *)
(***************************************************************************)
StopSequencer ==
    /\ active /\ active' = FALSE
    /\ Cancelled
    /\ UNCHANGED <<headVars, backupVars, engineVars, attributes, currentPayload, ready,
                   combinedAPI, historyVars, countVars>>

\* With the hash of the unsafe head.
StartSequencer ==
    /\ ~active /\ active' = TRUE
    /\ UNCHANGED <<headVars, backupVars, engineVars, building, attributes,
                   currentPayload, ready, combinedAPI, historyVars, countVars>>

-----------------------------------------------------------------------------
(***************************************************************************)
(* syncStep.                                                               *)
(***************************************************************************)
RestoresBackup == needFCUCallForBackupUnsafeReorg /\ backupUnsafeHead # NoBlock

DropsBackup == needFCUCallForBackupUnsafeReorg' = FALSE /\ backupUnsafeHead' = NoBlock

\* The backup becomes the unsafe head again, or the engine does not take it.
TryBackupUnsafeReorg ==
    /\ RestoresBackup /\ Consistent(backupUnsafeHead)
    /\ DropsBackup
    /\ \/ /\ unsafeHead' = backupUnsafeHead /\ engineHead' = backupUnsafeHead
          /\ needFCUCall' = TRUE
          /\ UNCHANGED faults
       \/ Fault /\ UNCHANGED <<unsafeHead, engineVars>>
    /\ UNCHANGED <<pendingSafeHead, safeHead, building, attributes, currentPayload,
                   controlVars, historyVars, resets>>

\* The safe head is not on the chain of the backup.
BackupNeedsReset ==
    /\ RestoresBackup /\ ~Consistent(backupUnsafeHead)
    /\ DropsBackup
    /\ MaybeMoved(backupUnsafeHead)
    /\ ready' = FALSE
    /\ UNCHANGED <<headVars, needFCUCall, building, attributes, currentPayload,
                   active, combinedAPI, historyVars, countVars>>

\* Without an answer it is tried again.
BackupUnanswered ==
    /\ RestoresBackup /\ Fault /\ MaybeMoved(backupUnsafeHead)
    /\ UNCHANGED <<headVars, backupVars, needFCUCall, building, attributes,
                   currentPayload, controlVars, historyVars, resets>>

\* There is no backup to restore.
NothingToRestore ==
    /\ needFCUCallForBackupUnsafeReorg /\ backupUnsafeHead = NoBlock
    /\ needFCUCallForBackupUnsafeReorg' = FALSE
    /\ UNCHANGED <<headVars, backupUnsafeHead, engineVars, building, attributes,
                   currentPayload, controlVars, historyVars, countVars>>

TryUpdateEngine ==
    /\ ~needFCUCallForBackupUnsafeReorg /\ needFCUCall /\ Consistent(unsafeHead)
    /\ needFCUCall' = FALSE /\ engineHead' = unsafeHead
    /\ UNCHANGED <<headVars, backupVars, building, attributes, currentPayload,
                   controlVars, historyVars, countVars>>

\* The engine refuses the heads.
UpdateNeedsReset ==
    /\ ~needFCUCallForBackupUnsafeReorg /\ needFCUCall /\ ~Consistent(unsafeHead)
    /\ MaybeMoved(unsafeHead)
    /\ ready' = FALSE
    /\ UNCHANGED <<headVars, backupVars, needFCUCall, building, attributes,
                   currentPayload, active, combinedAPI, historyVars, countVars>>

UpdateUnanswered ==
    /\ ~needFCUCallForBackupUnsafeReorg /\ needFCUCall
    /\ Fault /\ MaybeMoved(unsafeHead)
    /\ UNCHANGED <<headVars, backupVars, needFCUCall, building, attributes,
                   currentPayload, controlVars, historyVars, resets>>

\* The driver gets as far as CLSync.Proceed, or the derivation.
Quiet == ~needFCUCallForBackupUnsafeReorg /\ ~needFCUCall

\* A payload from gossip or alternative sync: a block that exists, or a new one of
\* another sequencer as long as this one is stopped.
InsertUnsafePayload ==
    /\ Quiet
    /\ \E b \in (created \intersect Children(unsafeHead))
                  \union IF active THEN {} ELSE Fresh(unsafeHead) :
           /\ created' = created \union {b}
           /\ engineHead' = b
           /\ \/ unsafeHead' = b /\ needFCUCall' = TRUE /\ UNCHANGED faults
              \/ Fault /\ UNCHANGED <<unsafeHead, needFCUCall>>
    /\ UNCHANGED <<pendingSafeHead, safeHead, backupVars, building, attributes,
                   currentPayload, controlVars, unsettled, resets>>

Deriving == Quiet /\ ready

\* Attributes for a child of the pending safe head: of a batch with a block that exists
\* or that no engine accepts, or of an empty block.
NextAttributes ==
    /\ Deriving /\ attributes = NoAttributes
    /\ \E b \in Children(pendingSafeHead) :
         \/ b \in created /\ \E last \in BOOLEAN :
                attributes' = [block |-> b, last |-> last, valid |-> TRUE]
         \/ DepositsOnly(b) /\ \E valid \in BOOLEAN :
                attributes' = [block |-> b, last |-> TRUE, valid |-> valid]
    /\ UNCHANGED <<headVars, backupVars, engineVars, building, currentPayload,
                   controlVars, historyVars, countVars>>

HasAttributes == Deriving /\ attributes # NoAttributes

\* The engine's block at the number after the pending safe head is the one of the
\* attributes.
Matches ==
    /\ attributes.valid
    /\ IsAncestor(attributes.block, engineHead)

\* consolidateNextSafeAttributes, with a match.
ConsolidateNextSafeAttributes ==
    /\ HasAttributes /\ Number(pendingSafeHead) < Number(unsafeHead) /\ Matches
    /\ pendingSafeHead' = attributes.block
    /\ IF attributes.last
       THEN safeHead' = attributes.block /\ needFCUCall' = TRUE
       ELSE UNCHANGED <<safeHead, needFCUCall>>
    /\ attributes' = NoAttributes
    /\ UNCHANGED <<unsafeHead, backupVars, engineHead, building, currentPayload,
                   controlVars, historyVars, countVars>>

\* The engine has no block at that number.
ConsolidateNeedsReset ==
    /\ HasAttributes /\ Number(pendingSafeHead) < Number(unsafeHead)
    /\ Number(engineHead) <= Number(pendingSafeHead)
    /\ ResetPipeline
    /\ UNCHANGED <<headVars, backupVars, engineVars, building, attributes,
                   currentPayload, active, combinedAPI, historyVars, faults>>

\* The attributes are to be forced: at the unsafe head, or against its chain.
MayForce ==
    /\ HasAttributes
    /\ \/ Number(pendingSafeHead) = Number(unsafeHead)
       \/ /\ Number(pendingSafeHead) < Number(unsafeHead)
          /\ Number(engineHead) > Number(pendingSafeHead) /\ ~Matches

\* The job and the attributes are done with.
ClearedJob == building' = NoJob /\ UNCHANGED attributes
Cleared == building' = NoJob /\ attributes' = NoAttributes

\* forceNextSafeAttributes
ForceNextSafeAttributes ==
    /\ MayForce /\ attributes.valid
    /\ LET b == attributes.block
       IN  /\ unsafeHead' = b /\ pendingSafeHead' = b /\ engineHead' = b
           /\ created' = created \union {b}
           /\ IF attributes.last
              THEN safeHead' = b /\ backupUnsafeHead' = NoBlock
              ELSE backupUnsafeHead' = Backup(b) /\ UNCHANGED safeHead
    /\ needFCUCallForBackupUnsafeReorg' = FALSE
    /\ Cleared
    /\ UNCHANGED <<needFCUCall, currentPayload, controlVars, unsettled, countVars>>

\* The job is started and cannot be confirmed yet.
ForceUnanswered ==
    /\ MayForce
    /\ Fault
    /\ \/ UNCHANGED building /\ MaybeMoved(pendingSafeHead)
       \/ /\ building' = [onto |-> pendingSafeHead, block |-> attributes.block,
                          safe |-> TRUE, last |-> attributes.last]
          /\ \/ engineHead' = pendingSafeHead
             \/ attributes.valid /\ engineHead' = attributes.block
    /\ UNCHANGED <<headVars, backupVars, needFCUCall, attributes, currentPayload,
                   controlVars, historyVars, resets>>

\* The engine answers with an error that needs a reset.
ForceNeedsReset ==
    /\ MayForce
    /\ ResetPipeline /\ Cancelled
    /\ UNCHANGED <<headVars, backupVars, engineVars, attributes, currentPayload,
                   active, combinedAPI, historyVars, faults>>

\* The engine refuses the block: the batch is dropped, the unsafe head restored.
ForceRejected ==
    /\ MayForce /\ ~attributes.valid
    /\ Cleared
    /\ pendingSafeHead' = safeHead
    /\ needFCUCallForBackupUnsafeReorg' = TRUE
    /\ engineHead' = pendingSafeHead
    /\ UNCHANGED <<unsafeHead, safeHead, backupUnsafeHead, needFCUCall, currentPayload,
                   controlVars, historyVars, countVars>>

\* The unsafe head is behind the pending safe head.
CorrectUnsafeHead ==
    /\ HasAttributes /\ Number(pendingSafeHead) > Number(unsafeHead)
    /\ unsafeHead' = pendingSafeHead /\ needFCUCall' = TRUE
    /\ UNCHANGED <<pendingSafeHead, safeHead, backupVars, engineHead, building,
                   attributes, currentPayload, controlVars, historyVars, countVars>>

-----------------------------------------------------------------------------
(***************************************************************************)
(* Resets: asked for by the derivation or an operator at any time; carried *)
(* out by EngineQueue.Reset with the heads that FindL2Heads finds from the *)
(* engine's.                                                               *)
(***************************************************************************)
ForceReset ==
    /\ ready /\ ResetPipeline
    /\ UNCHANGED <<headVars, backupVars, engineVars, building, attributes,
                   currentPayload, active, combinedAPI, historyVars, faults>>

Reset ==
    /\ Quiet /\ ~ready
    /\ \E u, s \in Blocks :
           /\ IsAncestor(u, engineHead) /\ IsAncestor(s, u) /\ IsAncestor(s, safeHead)
           /\ unsafeHead' = u /\ safeHead' = s /\ pendingSafeHead' = s
    /\ DropsBackup /\ Cleared
    /\ needFCUCall' = TRUE /\ ready' = TRUE
    /\ UNCHANGED <<engineHead, currentPayload, active, combinedAPI, historyVars,
                   countVars>>

-----------------------------------------------------------------------------
Seal ==
    \/ SealNotGossiped \/ SealUnanswered \/ SealRejected \/ SealInserted
    \/ CombinedUnanswered \/ CombinedTemporary \/ CombinedForkchoiceFails
    \/ CombinedRejected \/ CombinedInserted

SyncStep ==
    \/ TryBackupUnsafeReorg \/ BackupNeedsReset \/ BackupUnanswered \/ NothingToRestore
    \/ TryUpdateEngine \/ UpdateNeedsReset \/ UpdateUnanswered
    \/ InsertUnsafePayload
    \/ NextAttributes \/ ConsolidateNextSafeAttributes \/ ConsolidateNeedsReset
    \/ ForceNextSafeAttributes \/ ForceUnanswered \/ ForceNeedsReset \/ ForceRejected
    \/ CorrectUnsafeHead \/ Reset

Next ==
    \/ StartBuildingBlock \/ StartFails \/ StartNeedsReset \/ Seal
    \/ StopSequencer \/ StartSequencer
    \/ SyncStep \/ ForceReset

Spec == Init /\ [][Next]_vars

\* The driver steps as long as there is something to step for, and the sequencer's timer
\* brings the next action again and again; the engine does not fail for ever.
Fairness == WF_vars(SyncStep) /\ SF_vars(SealRejected \/ SealInserted)

FairSpec == Spec /\ Fairness

-----------------------------------------------------------------------------
TypeOK ==
    /\ unsafeHead \in Blocks /\ pendingSafeHead \in Blocks /\ safeHead \in Blocks
    /\ backupUnsafeHead \in Blocks \union {NoBlock} /\ engineHead \in Blocks
    /\ currentPayload \in Blocks \union {NoBlock}
    /\ building = NoJob \/ building \in [onto : Blocks, block : Blocks, safe : BOOLEAN,
                                         last : BOOLEAN]
    /\ attributes = NoAttributes \/ attributes \in [block : Blocks, last : BOOLEAN,
                                                    valid : BOOLEAN]
    /\ unsettled \subseteq created /\ created \subseteq Blocks

\* (attributes.go:78) The heads and the attributes fit together although the sequencer, the
\* derivation, payloads and lost answers move them: the safe head is on the unsafe chain
\* when the engine has been told of both, always on the chain of the pending safe head,
\* and the attributes at hand are for the pending safe head.
HeadsAgree ==
    /\ ~needFCUCall => IsAncestor(safeHead, unsafeHead)
    /\ IsAncestor(safeHead, pendingSafeHead)
    /\ attributes # NoAttributes => attributes.block \in Children(pendingSafeHead)

\* (asyncgossiper.go:22) Of the blocks gossiped, the one that the gossiper holds is the
\* only one for which the engine has not answered: whatever fails, is reset or stopped, no
\* second block is published in its place before that.
PublishedAccounted == ~combinedAPI => unsettled \subseteq {currentPayload}

\* (engine_update.go:135) A published block that the engine did not answer for is
\* inserted or refused as long as the sequencer runs, unless a job of the derivation holds
\* the engine or the engine refuses the heads.
PublishedSettles ==
    (~combinedAPI /\ currentPayload # NoBlock)
        ~> \/ currentPayload = NoBlock
           \/ ~active \/ building.safe \/ ~Consistent(unsafeHead)

-----------------------------------------------------------------------------
(* What comments of the code say and the code does not keep. *)

\* state.go:355 "If we don't cancel this, we can resume sequencing an old block even if
\* we've received new unsafe heads in the interim, causing us to introduce a re-org.":
\* without a job, the sequencer does not replace the unsafe head.
NoReorgBySequencer ==
    [][Seal /\ building = NoJob => unsafeHead' = unsafeHead
                                    \/ Parent(unsafeHead') = unsafeHead]_vars

\* engine_controller.go:413 "forkchoice update was inconsistent with engine, need reset
\* to resolve": the reset comes about.
ResetCarriedOut == ~ready ~> ready
=============================================================================
