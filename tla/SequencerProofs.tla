-------------------------- MODULE SequencerProofs ---------------------------
(***************************************************************************)
(* What holds of Sequencer for every tree of blocks, both engine APIs and  *)
(* any number of faults and resets.                                        *)
(***************************************************************************)
EXTENDS Sequencer, DataProofs

-----------------------------------------------------------------------------
(* Blocks and their ancestors. *)

\* Every block is on its own chain.
LEMMA AncestorReflexive ==
    ASSUME NEW b \in Blocks
    PROVE  IsAncestor(b, b)
<1>1. b \in Seq(Nat)
  BY BlocksAssumption
<1> QED
  BY <1>1 DEF IsAncestor, Number

\* What putting a block on top of a head relies on.
LEMMA AncestorOfParent ==
    ASSUME NEW a \in Blocks, NEW b \in Blocks, b # GenesisL2, IsAncestor(a, Parent(b))
    PROVE  IsAncestor(a, b)
<1>1. a \in Seq(Nat) /\ b \in Seq(Nat)
  BY BlocksAssumption
<1> QED
  BY <1>1, PrefixOfFront DEF IsAncestor, Number, Parent, GenesisL2

-----------------------------------------------------------------------------
(* Types. *)

\* The blocks that actions choose are blocks, and the payload to confirm is one.
LEMMA ChosenBlocks ==
    ASSUME TypeOK
    PROVE  /\ GenesisL2 \in Blocks /\ NoBlock \notin Blocks
           /\ \A p : Children(p) \subseteq Blocks /\ Fresh(p) \subseteq Blocks
           /\ building.block # NoBlock => building.block \in Blocks
           /\ Payload # NoBlock => Payload \in Blocks
<1>1. GenesisL2 \in Blocks /\ NoBlock \notin Blocks
  BY BlocksAssumption, SequencerAssumption
<1>2. \A p : Children(p) \subseteq Blocks /\ Fresh(p) \subseteq Blocks
  BY DEF Children, Fresh
<1>3. building.block # NoBlock => building.block \in Blocks
  BY DEF TypeOK, NoJob
<1> QED
  BY <1>1, <1>2, <1>3 DEF Payload, TypeOK

\* Attributes are for a child of the pending safe head.
LEMMA AttributesChosen ==
    ASSUME NextAttributes
    PROVE  \E b \in Children(pendingSafeHead), last, valid \in BOOLEAN :
               attributes' = [block |-> b, last |-> last, valid |-> valid]
<1>1. PICK b \in Children(pendingSafeHead) :
          \/ \E last \in BOOLEAN :
                 attributes' = [block |-> b, last |-> last, valid |-> TRUE]
          \/ \E valid \in BOOLEAN :
                 attributes' = [block |-> b, last |-> TRUE, valid |-> valid]
  BY DEF NextAttributes
<1> QED
  BY <1>1

-----------------------------------------------------------------------------
(* Types. *)

\* Nothing the sequencer does leaves the types.
LEMMA SealTypes == TypeOK /\ Seal => TypeOK'
<1> SUFFICES ASSUME TypeOK, Seal PROVE TypeOK'
  OBVIOUS
<1> USE DEF TypeOK, unmovedVars, headVars, backupVars, controlVars,
        historyVars, countVars, Cancelled
<1>1. CASE SealNotGossiped
  BY <1>1, ChosenBlocks DEF SealNotGossiped
<1>2. CASE SealUnanswered
  BY <1>2, ChosenBlocks DEF SealUnanswered, Gossip, MaybeMoved
<1>3. CASE SealRejected
  BY <1>3, ChosenBlocks DEF SealRejected, Settled, MaybeMoved
<1>4. CASE SealInserted
  BY <1>4, ChosenBlocks DEF SealInserted, Settled, Inserted, Backup
<1>5. CASE CombinedUnanswered
  BY <1>5, ChosenBlocks DEF CombinedUnanswered, MaySealCombined, GossipedCombined, Gossip
<1>6. CASE CombinedTemporary
  BY <1>6, ChosenBlocks DEF CombinedTemporary, MaySealCombined, GossipedCombined, Gossip, MaybeMoved
<1>7. CASE CombinedForkchoiceFails
  BY <1>7, ChosenBlocks DEF CombinedForkchoiceFails, MaySealCombined, GossipedCombined, Gossip,
                            MaybeMoved
<1>8. CASE CombinedRejected
  BY <1>8, ChosenBlocks DEF CombinedRejected, MaySealCombined, Settled, MaybeMoved
<1>9. CASE CombinedInserted
  BY <1>9, ChosenBlocks DEF CombinedInserted, MaySealCombined, Settled, Inserted, Backup
<1> QED
  BY <1>1, <1>2, <1>3, <1>4, <1>5, <1>6, <1>7, <1>8, <1>9 DEF Seal

\* Nor does starting a job or stopping and starting the sequencer.
LEMMA ControlTypes ==
    TypeOK /\ (StartBuildingBlock \/ StartFails \/ StartNeedsReset \/ StopSequencer
               \/ StartSequencer \/ ForceReset) => TypeOK'
<1> SUFFICES ASSUME TypeOK,
                    StartBuildingBlock \/ StartFails \/ StartNeedsReset
                      \/ StopSequencer \/ StartSequencer \/ ForceReset
             PROVE  TypeOK'
  OBVIOUS
<1> USE DEF TypeOK, headVars, backupVars, engineVars, controlVars, historyVars, countVars
<1>1. CASE StartBuildingBlock
  BY <1>1, ChosenBlocks DEF StartBuildingBlock
<1>2. CASE StartFails
  BY <1>2, ChosenBlocks DEF StartFails, MaybeMoved
<1>3. CASE StartNeedsReset \/ ForceReset
  BY <1>3 DEF StartNeedsReset, ForceReset
<1>4. CASE StopSequencer \/ StartSequencer
  BY <1>4 DEF StopSequencer, StartSequencer, Cancelled
<1> QED
  BY <1>1, <1>2, <1>3, <1>4

\* Nor does a step of the driver.
LEMMA SyncTypes == TypeOK /\ SyncStep => TypeOK'
<1> SUFFICES ASSUME TypeOK, SyncStep PROVE TypeOK'
  OBVIOUS
<1> USE DEF TypeOK, headVars, backupVars, engineVars, controlVars, historyVars, countVars
<1>1. CASE TryBackupUnsafeReorg
  BY <1>1, ChosenBlocks DEF TryBackupUnsafeReorg, RestoresBackup, DropsBackup
<1>2. CASE BackupNeedsReset
  BY <1>2, ChosenBlocks DEF BackupNeedsReset, RestoresBackup, DropsBackup, MaybeMoved
<1>3. CASE BackupUnanswered
  BY <1>3, ChosenBlocks DEF BackupUnanswered, RestoresBackup, MaybeMoved
<1>4. CASE NothingToRestore
  BY <1>4 DEF NothingToRestore
<1>5. CASE TryUpdateEngine
  BY <1>5 DEF TryUpdateEngine
<1>6. CASE UpdateNeedsReset \/ UpdateUnanswered
  BY <1>6, ChosenBlocks DEF UpdateNeedsReset, UpdateUnanswered, MaybeMoved
<1>7. CASE InsertUnsafePayload
  BY <1>7, ChosenBlocks DEF InsertUnsafePayload
<1>8. CASE NextAttributes
  <2>1. attributes' \in [block : Blocks, last : BOOLEAN, valid : BOOLEAN]
    BY <1>8, ChosenBlocks, AttributesChosen
  <2> QED
    BY <1>8, <2>1 DEF NextAttributes
<1>9. CASE ConsolidateNextSafeAttributes
  BY <1>9, ChosenBlocks DEF ConsolidateNextSafeAttributes, HasAttributes
<1>10. CASE ConsolidateNeedsReset
  BY <1>10 DEF ConsolidateNeedsReset
<1>11. CASE ForceNextSafeAttributes
  BY <1>11, ChosenBlocks DEF ForceNextSafeAttributes, MayForce, HasAttributes, Cleared,
                             Backup
<1>12. CASE ForceUnanswered
  <2>1. attributes \in [block : Blocks, last : BOOLEAN, valid : BOOLEAN]
    BY <1>12 DEF ForceUnanswered, MayForce, HasAttributes
  <2>2. \/ building' = building
        \/ building' \in [onto : Blocks, block : Blocks, safe : BOOLEAN, last : BOOLEAN]
    <3>1. attributes.block \in Blocks /\ attributes.last \in BOOLEAN
      BY <2>1
    <3>2. \/ building' = building
          \/ building' = [onto |-> pendingSafeHead, block |-> attributes.block,
                          safe |-> TRUE, last |-> attributes.last]
      BY <1>12 DEF ForceUnanswered
    <3>3. [onto |-> pendingSafeHead, block |-> attributes.block, safe |-> TRUE,
           last |-> attributes.last]
              \in [onto : Blocks, block : Blocks, safe : BOOLEAN, last : BOOLEAN]
      BY <3>1
    <3> QED
      BY <3>2, <3>3, Zenon
  <2>3. engineHead' \in Blocks
    BY <1>12, <2>1 DEF ForceUnanswered, MaybeMoved
  <2> QED
    BY <1>12, <2>2, <2>3 DEF ForceUnanswered
<1>13. CASE ForceNeedsReset
  BY <1>13 DEF ForceNeedsReset, Cancelled
<1>14. CASE ForceRejected
  BY <1>14, ChosenBlocks DEF ForceRejected, Cleared
<1>15. CASE CorrectUnsafeHead
  BY <1>15, ChosenBlocks DEF CorrectUnsafeHead
<1>16. CASE Reset
  BY <1>16, ChosenBlocks DEF Reset, DropsBackup, Cleared
<1> QED
  BY <1>1, <1>2, <1>3, <1>4, <1>5, <1>6, <1>7, <1>8, <1>9, <1>10, <1>11, <1>12, <1>13,
     <1>14, <1>15, <1>16 DEF SyncStep

\* Heads, jobs, attributes and the gossiped payload are blocks of the tree, and every
\* published block exists, whatever fails.
THEOREM SequencerTypeCorrect == Spec => []TypeOK
<1>1. Init => TypeOK
  BY BlocksAssumption, ZenonT(30) DEF Init, TypeOK
<1>2. TypeOK /\ [Next]_vars => TypeOK'
  <2> SUFFICES ASSUME TypeOK, [Next]_vars PROVE TypeOK'
    OBVIOUS
  <2>1. CASE UNCHANGED vars
    BY <2>1 DEF TypeOK, vars, headVars, backupVars, engineVars, historyVars
  <2> QED
    BY <2>1, SealTypes, ControlTypes, SyncTypes DEF Next
<1> QED
  BY <1>1, <1>2, PTL DEF Spec

-----------------------------------------------------------------------------
(* Published blocks. *)

\* Only the sequencer's sealing concerns what is published or held by the gossiper.
LEMMA OnlySealPublishes ==
    ASSUME Next, ~Seal
    PROVE  UNCHANGED <<combinedAPI, unsettled, currentPayload>>
<1> USE DEF controlVars, historyVars
<1>1. CASE StartBuildingBlock \/ StartFails \/ StartNeedsReset \/ ForceReset
  BY <1>1 DEF StartBuildingBlock, StartFails, StartNeedsReset, ForceReset
<1>2. CASE StopSequencer \/ StartSequencer
  BY <1>2 DEF StopSequencer, StartSequencer
<1>3. CASE TryBackupUnsafeReorg \/ BackupNeedsReset \/ BackupUnanswered \/ NothingToRestore
           \/ TryUpdateEngine \/ UpdateNeedsReset \/ UpdateUnanswered
  BY <1>3 DEF TryBackupUnsafeReorg, BackupNeedsReset, BackupUnanswered, NothingToRestore,
              TryUpdateEngine, UpdateNeedsReset, UpdateUnanswered
<1>4. CASE InsertUnsafePayload \/ NextAttributes \/ ConsolidateNextSafeAttributes
           \/ ConsolidateNeedsReset
  BY <1>4 DEF InsertUnsafePayload, NextAttributes, ConsolidateNextSafeAttributes,
              ConsolidateNeedsReset
<1>5. CASE ForceNextSafeAttributes \/ ForceUnanswered \/ ForceNeedsReset \/ ForceRejected
           \/ CorrectUnsafeHead \/ Reset
  BY <1>5 DEF ForceNextSafeAttributes, ForceUnanswered, ForceNeedsReset, ForceRejected,
              CorrectUnsafeHead, Reset
<1> QED
  BY <1>1, <1>2, <1>3, <1>4, <1>5 DEF Next, SyncStep

\* A payload is taken from the gossiper if it holds one; if it holds none, nothing is
\* unsettled before a new one is published.
LEMMA SealAccounted ==
    ASSUME TypeOK, PublishedAccounted, Seal
    PROVE  PublishedAccounted'
<1>1. NoBlock \notin unsettled
  BY SequencerAssumption DEF TypeOK
<1>2. combinedAPI' = combinedAPI
  BY DEF Seal, SealNotGossiped, SealUnanswered, SealRejected, SealInserted,
         CombinedUnanswered, CombinedTemporary, CombinedForkchoiceFails,
         CombinedRejected, CombinedInserted, unmovedVars, controlVars
<1> SUFFICES ASSUME ~combinedAPI PROVE unsettled' \subseteq {currentPayload'}
  BY <1>2 DEF PublishedAccounted
<1>3. unsettled \subseteq {currentPayload}
  BY DEF PublishedAccounted
<1>4. CASE SealNotGossiped
  BY <1>3, <1>4 DEF SealNotGossiped, historyVars
<1>5. CASE SealUnanswered
  <2>1. currentPayload = NoBlock => unsettled = {}
    BY <1>1, <1>3
  <2>2. currentPayload # NoBlock => Payload = currentPayload
    BY DEF Payload
  <2> QED
    BY <1>3, <1>5, <2>1, <2>2 DEF SealUnanswered, Gossip
<1>6. CASE SealRejected \/ SealInserted
  <2>1. unsettled \ {Payload} = {}
    BY <1>1, <1>3 DEF Payload
  <2> QED
    BY <1>6, <2>1 DEF SealRejected, SealInserted, Settled
<1> QED
  BY <1>4, <1>5, <1>6 DEF Seal, CombinedUnanswered, CombinedTemporary,
     CombinedForkchoiceFails, CombinedRejected, CombinedInserted, MaySealCombined

\* Of the published blocks the gossiper holds the only one the engine has not answered
\* for (asyncgossiper.go:22), so the sequencer never publishes a second block in its place.
THEOREM PublishedAccountedTheorem == Spec => []PublishedAccounted
<1>1. Init => PublishedAccounted
  BY DEF Init, PublishedAccounted
<1>2. TypeOK /\ PublishedAccounted /\ [Next]_vars => PublishedAccounted'
  <2> SUFFICES ASSUME TypeOK, PublishedAccounted, [Next]_vars PROVE PublishedAccounted'
    OBVIOUS
  <2>1. CASE Seal
    BY <2>1, SealAccounted
  <2>2. CASE Next /\ ~Seal
    BY <2>2, OnlySealPublishes DEF PublishedAccounted
  <2>3. CASE UNCHANGED vars
    BY <2>3 DEF PublishedAccounted, vars, controlVars, historyVars
  <2> QED
    BY <2>1, <2>2, <2>3
<1> QED
  BY <1>1, <1>2, SequencerTypeCorrect, PTL DEF Spec

-----------------------------------------------------------------------------
(* Heads. *)

\* Attributes at hand make a block on the pending safe head, and thus on the safe head.
LEMMA AttributesOnSafe ==
    ASSUME TypeOK, HeadsAgree, attributes # NoAttributes
    PROVE  /\ attributes.block \in Blocks /\ attributes.block # GenesisL2
           /\ IsAncestor(safeHead, attributes.block)
           /\ IsAncestor(attributes.block, attributes.block)
<1>1. attributes.block \in Blocks /\ attributes.block # GenesisL2
         /\ Parent(attributes.block) = pendingSafeHead
  BY DEF HeadsAgree, Children
<1> QED
  BY <1>1, AncestorOfParent, AncestorReflexive DEF TypeOK, HeadsAgree

\* Actions that leave the safe heads and the attributes alone, and either the unsafe head
\* too or move it to a block on the safe head.
LEMMA UnsafeMoves ==
    ASSUME HeadsAgree, UNCHANGED <<pendingSafeHead, safeHead, attributes>>,
           \/ UNCHANGED <<unsafeHead, needFCUCall>>
           \/ needFCUCall'
           \/ IsAncestor(safeHead, unsafeHead')
    PROVE  HeadsAgree'
  BY DEF HeadsAgree

\* The heads fit together after everything the sequencer, the derivation, payloads and
\* lost answers do (attributes.go:78): the engine is only left with heads of one chain,
\* and attributes are for the pending safe head.
THEOREM HeadsAgreeTheorem == Spec => []HeadsAgree
<1>1. Init => HeadsAgree
  <2>1. IsAncestor(GenesisL2, GenesisL2)
    BY AncestorReflexive, BlocksAssumption
  <2> QED
    BY <2>1 DEF Init, HeadsAgree
<1>2. TypeOK /\ TypeOK' /\ HeadsAgree /\ [Next]_vars => HeadsAgree'
  <2> SUFFICES ASSUME TypeOK, TypeOK', HeadsAgree, [Next]_vars PROVE HeadsAgree'
    OBVIOUS
  <2> USE DEF headVars, backupVars, engineVars, unmovedVars
  <2>1. CASE Seal
    <3>1. CASE SealInserted
      BY <3>1, UnsafeMoves DEF SealInserted, Inserted, Consistent
    <3>2. CASE CombinedInserted
      BY <3>2, UnsafeMoves DEF CombinedInserted, Inserted, Consistent
    <3>3. CASE ~SealInserted /\ ~CombinedInserted
      BY <2>1, <3>3, UnsafeMoves DEF Seal, SealNotGossiped, SealUnanswered, SealRejected,
         CombinedUnanswered, CombinedTemporary, CombinedForkchoiceFails, CombinedRejected
    <3> QED
      BY <3>1, <3>2, <3>3
  <2>2. CASE StartBuildingBlock \/ StartFails \/ StartNeedsReset \/ ForceReset
             \/ StopSequencer \/ StartSequencer
    BY <2>2, UnsafeMoves DEF StartBuildingBlock, StartFails, StartNeedsReset, ForceReset,
       StopSequencer, StartSequencer
  <2>3. CASE TryBackupUnsafeReorg \/ BackupNeedsReset \/ BackupUnanswered
             \/ NothingToRestore
    BY <2>3, UnsafeMoves DEF TryBackupUnsafeReorg, BackupNeedsReset, BackupUnanswered,
       NothingToRestore
  <2>4. CASE TryUpdateEngine
    BY <2>4, UnsafeMoves DEF TryUpdateEngine, Consistent
  <2>5. CASE UpdateNeedsReset \/ UpdateUnanswered \/ InsertUnsafePayload
             \/ CorrectUnsafeHead
    BY <2>5, UnsafeMoves DEF UpdateNeedsReset, UpdateUnanswered, InsertUnsafePayload,
       CorrectUnsafeHead
  <2>6. CASE ConsolidateNeedsReset \/ ForceUnanswered \/ ForceNeedsReset
    BY <2>6, UnsafeMoves DEF ConsolidateNeedsReset, ForceUnanswered, ForceNeedsReset
  <2>7. CASE NextAttributes
    <3>1. attributes'.block \in Children(pendingSafeHead)
      BY <2>7, AttributesChosen
    <3>2. UNCHANGED <<unsafeHead, pendingSafeHead, safeHead, needFCUCall>>
      BY <2>7 DEF NextAttributes
    <3> QED
      BY <3>1, <3>2 DEF HeadsAgree
  <2>8. CASE ConsolidateNextSafeAttributes
    <3>1. IsAncestor(safeHead, attributes.block) /\ IsAncestor(attributes.block, attributes.block)
      BY <2>8, AttributesOnSafe DEF ConsolidateNextSafeAttributes, HasAttributes
    <3>2. attributes' = NoAttributes /\ pendingSafeHead' = attributes.block
             /\ unsafeHead' = unsafeHead
      BY <2>8 DEF ConsolidateNextSafeAttributes
    <3>3. \/ safeHead' = attributes.block /\ needFCUCall'
          \/ UNCHANGED <<safeHead, needFCUCall>>
      BY <2>8 DEF ConsolidateNextSafeAttributes
    <3> QED
      BY <3>1, <3>2, <3>3 DEF HeadsAgree
  <2>9. CASE ForceNextSafeAttributes
    <3>1. IsAncestor(safeHead, attributes.block) /\ IsAncestor(attributes.block, attributes.block)
      BY <2>9, AttributesOnSafe DEF ForceNextSafeAttributes, MayForce, HasAttributes
    <3>2. /\ attributes' = NoAttributes /\ pendingSafeHead' = attributes.block
          /\ unsafeHead' = attributes.block
          /\ safeHead' \in {safeHead, attributes.block}
      BY <2>9 DEF ForceNextSafeAttributes, Cleared
    <3> QED
      BY <3>1, <3>2 DEF HeadsAgree
  <2>10. CASE ForceRejected
    <3>1. IsAncestor(safeHead, safeHead)
      BY AncestorReflexive DEF TypeOK
    <3>2. /\ attributes' = NoAttributes /\ pendingSafeHead' = safeHead
          /\ UNCHANGED <<unsafeHead, safeHead, needFCUCall>>
      BY <2>10 DEF ForceRejected, Cleared
    <3> QED
      BY <3>1, <3>2 DEF HeadsAgree
  <2>11. CASE Reset
    <3>1. /\ attributes' = NoAttributes /\ needFCUCall' /\ pendingSafeHead' = safeHead'
      BY <2>11 DEF Reset, Cleared
    <3>2. IsAncestor(safeHead', safeHead')
      BY AncestorReflexive DEF TypeOK
    <3> QED
      BY <3>1, <3>2 DEF HeadsAgree
  <2>12. CASE UNCHANGED vars
    BY <2>12, UnsafeMoves DEF vars
  <2> QED
    BY <2>1, <2>2, <2>3, <2>4, <2>5, <2>6, <2>7, <2>8, <2>9, <2>10, <2>11, <2>12
       DEF Next, SyncStep
<1> QED
  BY <1>1, <1>2, SequencerTypeCorrect, PTL DEF Spec
=============================================================================
