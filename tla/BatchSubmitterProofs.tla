------------------------ MODULE BatchSubmitterProofs ------------------------
(***************************************************************************)
(* Theorems about BatchSubmitter, for every value of its constants.        *)
(***************************************************************************)
EXTENDS BatchSubmitter, FiniteSetTheorems, TLAPS

\* What the main loop and the callers of Start and Stop know of the manager: while the
\* loop takes blocks it is open, while the loop publishes before a clear it is closed.
Protocol ==
    /\ main \in {"loop", "load", "answer"} => ~closed
    /\ main \in {"publish", "send", "go"} /\ why = "tick" => ~closed
    /\ main \in {"publish", "send", "go", "wait", "clear"} /\ why # "tick" => closed
    /\ main \in {"wait", "clear"} => why # "tick"
    /\ main = "switch" => M!Cleared
    /\ main = "sync" => tip = 0 /\ ~closed
    /\ main = "returned" => M!Clearable \/ txClosed
    /\ starter => M!Clearable /\ main = "returned" /\ running
    /\ ~running => main = "returned" \/ stop = "waiting"
    /\ stop = "waiting" => ~starter

\* A transaction has one owner, the main loop, a sender or the receipt loop, and the
\* manager has not been told of its result.
Owned(r) ==
    \/ main \in {"send", "go"} /\ tx = r
    \/ \E s \in sends : s.stage = "sending" /\ s.r = r
    \/ \E s \in handling : s.r = r
Receipts ==
    /\ \A r : Owned(r) => r \in inflight
    /\ \A s, t \in handling : s = t
    /\ \A s, t \in sends : s.stage = "sending" /\ t.stage = "sending" /\ s.r = t.r => s = t
    /\ \A s \in handling, t \in sends : t.stage = "sending" => s.r # t.r
    /\ main \in {"send", "go"} =>
          /\ \A s \in handling : s.r # tx
          /\ \A s \in sends : s.stage = "sending" => s.r # tx

Bounds ==
    /\ l1Head \in 1..MaxL1
    /\ \A r \in inflight : r.sent \in 1..MaxL1
    /\ safe \in 0..MaxBlock /\ lastStored \in 0..MaxBlock /\ storedFrom \in 0..MaxBlock
    /\ daType \in BOOLEAN

IInv == Protocol /\ Receipts /\ Bounds

-----------------------------------------------------------------------------
(* What the manager's operations do to the variables the driver looks at. *)

LEMMA EmitGrows ==
    ASSUME NEW c, NEW x, M!Emit(c, x)
    PROVE  /\ inflight \subseteq inflight'
           /\ \A r \in inflight' \ inflight : r.sent = l1Head
  BY DEF M!Emit, M!HandOut

LEMMA TxDataEffect ==
    ASSUME M!TxData
    PROVE  /\ UNCHANGED <<closed, tip, l1Head>>
           /\ inflight \subseteq inflight'
           /\ \A r \in inflight' \ inflight : r.sent = l1Head
<1>1. CASE M!TxDataPending
  <2>1. PICK c \in M!WithTxData : M!HandOut(c, ch[c])
    BY <1>1 DEF M!TxDataPending
  <2> QED
    BY <1>1, <2>1 DEF M!TxDataPending, M!HandOut
<1>2. CASE M!TxDataNew
  <2>1. PICK c, x : M!FillChannel(c, x)
    BY <1>2 DEF M!TxDataNew
  <2>2. PICK y : M!Emit(c, y)
    BY <2>1 DEF M!FillChannel
  <2>3. UNCHANGED <<closed, tip, l1Head>>
    BY <1>2 DEF M!TxDataNew
  <2> QED
    BY <2>2, <2>3, EmitGrows
<1> QED
  BY <1>1, <1>2 DEF M!TxData

LEMMA ResultEffect ==
    ASSUME NEW r, M!TxFailed(r) \/ \E n : M!TxConfirmed(r, n)
    PROVE  /\ UNCHANGED <<closed, tip, l1Head>>
           /\ inflight' = inflight \ {r}
           /\ channelQueue' \subseteq channelQueue
  BY DEF M!TxFailed, M!TxConfirmed, M!RemovePendingChannels

LEMMA CloseEffect ==
    ASSUME CloseState
    PROVE  closed' /\ UNCHANGED <<l1Head, inflight>>
  BY DEF CloseState, M!Close, mgrVars

LEMMA ClearEffect ==
    ASSUME NEW o, M!Clear(o)
    PROVE  M!Cleared' /\ UNCHANGED <<l1Head, inflight>>
  BY DEF M!Clear, M!Cleared

LEMMA AddEffect ==
    ASSUME NEW b, M!AddL2Block(b)
    PROVE  UNCHANGED <<l1Head, inflight, closed>>
  BY DEF M!AddL2Block

-----------------------------------------------------------------------------
(* The invariant. *)

LEMMA BoundsStep == IInv /\ [Next]_vars => Bounds'
<1> SUFFICES ASSUME IInv, [Next]_vars PROVE Bounds'
  OBVIOUS
<1>0. MaxBlock \in Nat /\ MaxL1 \in Nat
  BY ManagerAssumption DEF M!ConfigAssumption
<1> USE DEF IInv, Bounds, daVars
<1>1. CASE L1Advance
  BY <1>0, <1>1 DEF L1Advance, M!L1Advance, M!mgrVars, mainVars
<1>2. CASE SafeMove
  BY <1>0, <1>2 DEF SafeMove, mgrVars, mainVars
<1>3. CASE TxmgrClose \/ Start \/ StopCall \/ StopBegin \/ ForceKill \/ StopEnd
  BY <1>0, <1>3 DEF TxmgrClose, Start, StopCall, StopBegin, ForceKill, StopEnd, mgrVars, mainVars
<1>4. CASE StartClear
  BY <1>0, <1>4, ClearEffect DEF StartClear, LastStoredReset
<1>5. CASE Tick \/ TickError
  BY <1>0, <1>5 DEF Tick, TickError, Lagging, mgrVars
<1>6. CASE LoadBlock
  BY <1>0, <1>6, AddEffect DEF LoadBlock
<1>7. CASE LoadReorg \/ TakeSwitch
  BY <1>0, <1>7, CloseEffect DEF LoadReorg, TakeSwitch, LastStoredReset
<1>8. CASE TakeShutdown
  BY <1>0, <1>8, CloseEffect DEF TakeShutdown, mgrVars
<1>9. CASE PublishTx
  BY <1>0, <1>9, TxDataEffect DEF PublishTx
<1>10. CASE PlasmaError
  BY <1>0, <1>10, ResultEffect DEF PlasmaError
<1>11. CASE CandidateError \/ WaitNodeSync \/ LoadEnd \/ PublishEnd \/ GroupContext \/ Go
            \/ QueueWait \/ Answer
  BY <1>0, <1>11 DEF CandidateError, WaitNodeSync, LoadEnd, PublishEnd, GroupContext, Go,
               QueueWait, Answer, mgrVars
<1>12. CASE ClearState
  BY <1>0, <1>12, ClearEffect DEF ClearState
<1>13. CASE Switch
  BY <1>0, <1>13 DEF Switch, M!SwitchDAType
<1>14. CASE HandleReceipt
  BY <1>0, <1>14, ResultEffect DEF HandleReceipt, mainVars
<1>15. CASE \/ \E s \in sends : SendOk(s) \/ SendErr(s) \/ Leave(s)
            \/ ReceiptLoopEnd \/ DAOffer \/ DALoopEnd
  BY <1>0, <1>15 DEF SendOk, SendErr, Leave, ReceiptLoopEnd, DAOffer, DALoopEnd, mgrVars,
               mainVars
<1>16. CASE UNCHANGED vars
  BY <1>0, <1>16 DEF vars, mgrVars, mainVars
<1> QED
  BY <1>1, <1>2, <1>3, <1>4, <1>5, <1>6, <1>7, <1>8, <1>9, <1>10, <1>11, <1>12, <1>13,
     <1>14, <1>15, <1>16 DEF Next, MainStep, MainProgress

LEMMA ProtocolStep == IInv /\ [Next]_vars => Protocol'
<1> SUFFICES ASSUME IInv, [Next]_vars PROVE Protocol'
  OBVIOUS
<1> USE DEF IInv, Protocol, M!Clearable, M!Cleared
<1>1. CASE L1Advance
  BY <1>1 DEF L1Advance, M!L1Advance, M!mgrVars, ctlVars, mainVars
<1>2. CASE SafeMove
  BY <1>2 DEF SafeMove, mgrVars, ctlVars, mainVars
<1>3. CASE TxmgrClose \/ Start \/ StopCall \/ StopBegin \/ ForceKill \/ StopEnd
  BY <1>3 DEF TxmgrClose, Start, StopCall, StopBegin, ForceKill, StopEnd, mgrVars, mainVars
<1>4. CASE StartClear
  BY <1>4, ClearEffect DEF StartClear
<1>5. CASE Tick \/ TickError
  BY <1>5 DEF Tick, TickError, mgrVars, ctlVars
<1>6. CASE LoadBlock
  BY <1>6, AddEffect DEF LoadBlock, ctlVars
<1>7. CASE LoadReorg \/ TakeSwitch
  BY <1>7, CloseEffect DEF LoadReorg, TakeSwitch, ctlVars
<1>8. CASE TakeShutdown
  BY <1>8, CloseEffect DEF TakeShutdown, mgrVars, ctlVars
<1>9. CASE PublishTx
  BY <1>9, TxDataEffect DEF PublishTx, Published, AfterPublish, AfterWait, ctlVars
<1>10. CASE PlasmaError
  BY <1>10, ResultEffect DEF PlasmaError, ctlVars
<1>11. CASE CandidateError \/ PublishEnd
  BY <1>11 DEF CandidateError, PublishEnd, Published, AfterPublish, AfterWait, mgrVars,
               ctlVars
<1>12. CASE WaitNodeSync \/ LoadEnd \/ GroupContext \/ Go \/ QueueWait \/ Answer
  BY <1>12 DEF WaitNodeSync, LoadEnd, GroupContext, Go, QueueWait, AfterWait, Answer,
               mgrVars, ctlVars
<1>13. CASE ClearState
  BY <1>13, ClearEffect DEF ClearState, ctlVars
<1>14. CASE Switch
  BY <1>14 DEF Switch, M!SwitchDAType, ctlVars
<1>15. CASE HandleReceipt
  BY <1>15, ResultEffect DEF HandleReceipt, ctlVars, mainVars
<1>16. CASE \/ \E s \in sends : SendOk(s) \/ SendErr(s) \/ Leave(s)
            \/ ReceiptLoopEnd \/ DAOffer \/ DALoopEnd
  BY <1>16 DEF SendOk, SendErr, Leave, ReceiptLoopEnd, DAOffer, DALoopEnd, mgrVars,
               ctlVars, mainVars
<1>17. CASE UNCHANGED vars
  BY <1>17 DEF vars, mgrVars, ctlVars, mainVars
<1> QED
  BY <1>1, <1>2, <1>3, <1>4, <1>5, <1>6, <1>7, <1>8, <1>9, <1>10, <1>11, <1>12, <1>13,
     <1>14, <1>15, <1>16, <1>17 DEF Next, MainStep, MainProgress

LEMMA ReceiptsStep == IInv /\ [Next]_vars => Receipts'
<1> SUFFICES ASSUME IInv, [Next]_vars PROVE Receipts'
  OBVIOUS
<1> USE DEF IInv, Receipts, Owned
<1>1. ASSUME UNCHANGED <<inflight, sends, handling, tx>>,
             main' \in {"send", "go"} => main \in {"send", "go"}
      PROVE  Receipts'
  BY <1>1
<1>2. CASE L1Advance \/ SafeMove \/ TxmgrClose
  BY <1>2, <1>1 DEF L1Advance, M!L1Advance, SafeMove, TxmgrClose, mgrVars, mainVars,
                    queueVars
<1>3. CASE Start \/ StopCall \/ StopBegin \/ ForceKill \/ StopEnd
  BY <1>3, <1>1 DEF Start, StopCall, StopBegin, ForceKill, StopEnd, mgrVars, mainVars,
                    queueVars
<1>4. CASE StartClear \/ ClearState
  <2>1. UNCHANGED inflight
    BY <1>4, ClearEffect DEF StartClear, ClearState
  <2>2. UNCHANGED <<sends, handling>> /\ main' \notin {"send", "go"}
    BY <1>4 DEF StartClear, ClearState, queueVars
  <2> QED
    BY <2>1, <2>2
<1>5. CASE Tick \/ TickError \/ WaitNodeSync \/ LoadEnd \/ QueueWait \/ Answer
  BY <1>5 DEF Tick, TickError, WaitNodeSync, LoadEnd, QueueWait, AfterWait, Answer,
              mgrVars, queueVars
<1>6. CASE LoadBlock
  BY <1>6, AddEffect DEF LoadBlock, queueVars
<1>7. CASE LoadReorg \/ TakeSwitch \/ TakeShutdown
  BY <1>7, CloseEffect DEF LoadReorg, TakeSwitch, TakeShutdown, mgrVars, queueVars
<1>8. CASE PublishTx
  <2>1. /\ main = "publish" /\ UNCHANGED <<sends, handling>> /\ inflight \subseteq inflight'
        /\ \/ main' \notin {"send", "go"}
           \/ inflight' # inflight /\ tx' = CHOOSE r \in inflight' : r \notin inflight
    BY <1>8, TxDataEffect DEF PublishTx, Published, AfterPublish, AfterWait, queueVars
  <2>2. CASE main' \notin {"send", "go"}
    BY <2>1, <2>2
  <2>3. CASE main' \in {"send", "go"}
    <3>1. tx' \in inflight' /\ tx' \notin inflight
      BY <2>1, <2>3
    <3> QED
      BY <2>1, <3>1
  <2> QED
    BY <2>2, <2>3
<1>9. CASE CandidateError \/ PublishEnd
  BY <1>9 DEF CandidateError, PublishEnd, Published, AfterPublish, AfterWait, mgrVars,
              queueVars
<1>10. CASE PlasmaError
  <2>1. /\ main = "send" /\ main' = "publish" /\ UNCHANGED <<sends, handling>>
        /\ inflight' = inflight \ {tx}
    BY <1>10, ResultEffect DEF PlasmaError
  <2> QED
    BY <2>1
<1>11. CASE GroupContext
  BY <1>11, <1>1 DEF GroupContext, mgrVars
<1>12. CASE Go
  <2>1. /\ main = "go" /\ main' = "publish" /\ UNCHANGED <<inflight, handling>>
        /\ sends' = sends \cup {[r |-> tx, stage |-> "sending", at |-> 0]}
    BY <1>12 DEF Go, mgrVars
  <2> QED
    BY <2>1
<1>13. CASE Switch
  BY <1>13 DEF Switch, M!SwitchDAType, queueVars
<1>14. CASE HandleReceipt
  <2>1. PICK s \in handling : M!TxFailed(s.r) \/ \E n : M!TxConfirmed(s.r, n)
    BY <1>14 DEF HandleReceipt
  <2>2. /\ inflight' = inflight \ {s.r} /\ handling' = {}
        /\ UNCHANGED <<sends, main, tx>>
    BY <1>14, <2>1, ResultEffect DEF HandleReceipt, mainVars
  <2> QED
    BY <2>2
<1>15. ASSUME NEW s \in sends, SendOk(s) \/ SendErr(s) PROVE Receipts'
  <2>0. PICK stage \in {"ok", "err"} : \E n :
           /\ s.stage = "sending" /\ handling = {}
           /\ handling' = {[r |-> s.r, stage |-> stage, at |-> n]}
    BY <1>15 DEF SendOk, SendErr, Receive
  <2>1. PICK n :
           /\ s.stage = "sending" /\ handling = {}
           /\ handling' = {[r |-> s.r, stage |-> stage, at |-> n]}
    BY <2>0
  <2>2. /\ UNCHANGED <<inflight, main, tx>>
        /\ \/ sends' = sends \ {s}
           \/ sends' = (sends \ {s}) \cup {[r |-> s.r, stage |-> "err", at |-> 0]}
    BY <1>15 DEF SendOk, SendErr, mgrVars, mainVars
  <2> QED
    BY <2>1, <2>2
<1>16. CASE \/ \E s \in sends : Leave(s)
            \/ ReceiptLoopEnd \/ DAOffer \/ DALoopEnd
  BY <1>16 DEF Leave, ReceiptLoopEnd, DAOffer, DALoopEnd, mgrVars, mainVars, queueVars
<1>17. CASE UNCHANGED vars
  BY <1>17 DEF vars, mgrVars, mainVars, queueVars
<1> QED
  BY <1>2, <1>3, <1>4, <1>5, <1>6, <1>7, <1>8, <1>9, <1>10, <1>11, <1>12, <1>13, <1>14,
     <1>15, <1>16, <1>17 DEF Next, MainStep, MainProgress

LEMMA IInvInit == Init => IInv
  BY ManagerAssumption
  DEF M!ConfigAssumption, Init, M!Init, IInv, Protocol, Receipts, Owned, Bounds,
      M!Clearable, M!Cleared

-----------------------------------------------------------------------------
(* The refinement. *)

LEMMA ManagerStep == IInv /\ [Next]_vars => [M!Next]_M!vars
<1> SUFFICES ASSUME IInv, [Next]_vars PROVE M!Next \/ UNCHANGED mgrVars
  BY DEF mgrVars, M!vars, M!mgrVars
<1> USE DEF IInv
<1>1. CASE L1Advance
  BY <1>1 DEF L1Advance, M!Next
<1>2. CASE StartClear \/ ClearState
  <2>1. PICK o : M!Clear(o) /\ (o = 0 \/ o \in 1..l1Head)
    BY <1>2 DEF StartClear, ClearState
  <2>2. o \in 0..l1Head /\ M!Clearable
    BY <1>2, <2>1, ManagerAssumption
    DEF M!ConfigAssumption, Bounds, Protocol, StartClear, ClearState, M!Clearable
  <2> QED
    BY <2>1, <2>2 DEF M!Next
<1>3. CASE LoadBlock
  <2>1. M!AddL2Block(lastStored + 1) /\ lastStored < MaxBlock /\ main = "load"
    BY <1>3 DEF LoadBlock
  <2>2. lastStored + 1 \in M!Block /\ ~closed
    BY <2>1, ManagerAssumption DEF M!ConfigAssumption, Bounds, Protocol, M!Block
  <2> QED
    BY <2>1, <2>2 DEF M!Next
<1>4. CASE LoadReorg \/ TakeSwitch \/ TakeShutdown
  BY <1>4 DEF LoadReorg, TakeSwitch, TakeShutdown, CloseState, M!Next
<1>5. CASE PublishTx
  BY <1>5 DEF PublishTx, M!Next
<1>6. CASE PlasmaError
  BY <1>6 DEF PlasmaError, M!Next, Receipts, Owned
<1>7. CASE Switch
  <2>1. M!Cleared /\ daType \in BOOLEAN /\ M!SwitchDAType(daType)
    BY <1>7 DEF Switch, Protocol, Bounds
  <2> QED
    BY <2>1 DEF M!Next
<1>8. CASE HandleReceipt
  <2>1. PICK s \in handling : \/ M!TxFailed(s.r)
                              \/ M!TxConfirmed(s.r, s.at)
    BY <1>8 DEF HandleReceipt
  <2>2. s.r \in inflight
    BY DEF Receipts, Owned
  <2>3. CASE M!TxFailed(s.r)
    BY <2>2, <2>3 DEF M!Next
  <2>4. CASE M!TxConfirmed(s.r, s.at)
    <3>1. s.at \in s.r.sent..l1Head
      BY <2>4 DEF M!TxConfirmed
    <3>2. MaxL1 \in Nat
      BY ManagerAssumption DEF M!ConfigAssumption
    <3>3. s.r.sent \in 1..MaxL1 /\ l1Head \in 1..MaxL1
      BY <2>2 DEF Bounds
    <3>4. s.at \in 1..MaxL1
      BY <3>1, <3>2, <3>3
    <3> QED
      BY <2>2, <2>4, <3>4 DEF M!Next
  <2> QED
    BY <2>1, <2>3, <2>4
<1>9. CASE \/ SafeMove \/ TxmgrClose \/ Start \/ StopCall \/ StopBegin \/ ForceKill
           \/ StopEnd \/ Tick \/ TickError \/ CandidateError \/ WaitNodeSync \/ LoadEnd
           \/ PublishEnd \/ GroupContext \/ Go \/ QueueWait \/ Answer
           \/ (\E s \in sends : SendOk(s) \/ SendErr(s) \/ Leave(s))
           \/ ReceiptLoopEnd \/ DAOffer \/ DALoopEnd \/ UNCHANGED vars
  BY <1>9 DEF SafeMove, TxmgrClose, Start, StopCall, StopBegin, ForceKill, StopEnd, Tick,
              TickError, CandidateError, WaitNodeSync, LoadEnd, PublishEnd, GroupContext, Go, QueueWait,
              Answer, SendOk, SendErr, Leave, ReceiptLoopEnd, DAOffer, DALoopEnd, vars
<1> QED
  BY <1>1, <1>2, <1>3, <1>4, <1>5, <1>6, <1>7, <1>8, <1>9 DEF Next, MainStep, MainProgress

\* The batcher's driver keeps to the protocol of the channel manager, for every
\* configuration: with each transaction's result reported once, no block added after
\* Close, and Clear and the DA switch only where the manager allows them.
THEOREM ManagerSpecTheorem == Spec => ManagerSpec
<1>1. Init => M!Init
  BY DEF Init
<1>2. IInv /\ [Next]_vars => IInv'
  BY BoundsStep, ProtocolStep, ReceiptsStep DEF IInv
<1> QED
  BY <1>1, <1>2, IInvInit, ManagerStep, PTL DEF Spec, ManagerSpec, M!Spec

-----------------------------------------------------------------------------
(* What is known of the manager: the theorems of ChannelManagerProofs hold of the driver's *)
(* manager, since the driver keeps to the manager's specification.                         *)
MP == INSTANCE ChannelManagerProofs

LEMMA SameNext == M!Next <=> MP!Next
  BY DEF M!ChannelId, MP!ChannelId, M!Block, MP!Block, M!IsVolta, MP!IsVolta,
         M!IsFourier, MP!IsFourier, M!DurationTimeout, MP!DurationTimeout, M!NewChannel,
         MP!NewChannel, M!Unborn, MP!Unborn, M!InclusionDeadline, MP!InclusionDeadline,
         M!SeqWindowDeadline, MP!SeqWindowDeadline, M!UpdatedTimeout, MP!UpdatedTimeout,
         M!IsTimedOut, MP!IsTimedOut, M!IsFullySubmitted, MP!IsFullySubmitted,
         M!NoneSubmitted, MP!NoneSubmitted, M!MaxFramesPerTx, MP!MaxFramesPerTx,
         M!HasTxData, MP!HasTxData, M!TxFrames, MP!TxFrames, M!NextTxData,
         MP!NextTxData, M!Requeue, MP!Requeue, M!OutputFrames, MP!OutputFrames,
         M!FramesReady, MP!FramesReady, M!UpdatedOrigin, MP!UpdatedOrigin, M!Range,
         MP!Range, M!L1Advance, MP!L1Advance, M!AddL2Block, MP!AddL2Block, M!RegisterTx,
         MP!RegisterTx, M!HandOut, MP!HandOut, M!Emit, MP!Emit, M!WithTxData,
         MP!WithTxData, M!TxDataPending, MP!TxDataPending, M!ForkStop, MP!ForkStop,
         M!ProcessBlocks, MP!ProcessBlocks, M!RemainingBlocks, MP!RemainingBlocks,
         M!CanAddBlocks, MP!CanAddBlocks, M!Filled, MP!Filled, M!FillChannel,
         MP!FillChannel, M!HasSpace, MP!HasSpace, M!TxDataNew, MP!TxDataNew,
         M!RemovePendingChannels, MP!RemovePendingChannels, M!TxFailed, MP!TxFailed,
         M!Confirm, MP!Confirm, M!Overwritten, MP!Overwritten, M!ReturnedBlocks,
         MP!ReturnedBlocks, M!TxConfirmed, MP!TxConfirmed, M!Swept, MP!Swept, M!Close,
         MP!Close, M!Clear, MP!Clear, M!SwitchDAType, MP!SwitchDAType, M!TxData,
         MP!TxData, M!Clearable, MP!Clearable, M!Cleared, MP!Cleared, M!Next, MP!Next,
         M!mgrVars, MP!mgrVars, M!vars, MP!vars

LEMMA SameInit == M!Init <=> MP!Init
  BY DEF M!Init, MP!Init, M!ChannelId, MP!ChannelId, M!Unborn, MP!Unborn

LEMMA SameSpec == M!Spec <=> MP!Spec
<1>1. M!vars = MP!vars
  BY DEF M!vars, MP!vars, M!mgrVars, MP!mgrVars
<1>2. [M!Next]_M!vars <=> [MP!Next]_MP!vars
  BY SameNext DEF M!vars, MP!vars, M!mgrVars, MP!mgrVars
<1> QED
  BY <1>1, <1>2, SameInit, PTL DEF M!Spec, MP!Spec

\* What the driver's own invariants need of its manager.
PendingInFlight ==
    \A c \in channelQueue : \A fs \in ch[c].pending :
        \E r \in inflight : r.tx = [ch |-> c, frames |-> fs]
ManagerGood == M!TypeOK /\ M!NoBlockLost /\ PendingInFlight

LEMMA ManagerAlwaysGood == Spec => []ManagerGood
<1>1. M!TypeOK <=> MP!TypeOK
  BY DEF M!TypeOK, MP!TypeOK, M!TxId, MP!TxId, M!Channel, MP!Channel, M!Block, MP!Block,
         M!ChannelId, MP!ChannelId
<1>2. M!NoBlockLost <=> MP!NoBlockLost
  BY DEF M!NoBlockLost, MP!NoBlockLost, M!Kept, MP!Kept, M!Delivered, MP!Delivered,
         M!ChannelId, MP!ChannelId
<1>3. MP!PendingInFlight => PendingInFlight
  BY DEF MP!PendingInFlight, MP!IsSentOff, PendingInFlight
<1>4. MP!ConfigAssumption
  BY ManagerAssumption DEF M!ConfigAssumption, MP!ConfigAssumption
<1>5. MP!Spec => []MP!TypeOK
  BY <1>4, MP!TypeCorrect
<1>6. MP!Spec => []MP!NoBlockLost
  BY <1>4, MP!NoBlockLostTheorem
<1>7. MP!Spec => []MP!PendingInFlight
  BY <1>4, MP!PendingInFlightAlways
<1>8. MP!TypeOK /\ MP!NoBlockLost /\ MP!PendingInFlight => ManagerGood
  BY <1>1, <1>2, <1>3 DEF ManagerGood
<1> QED
  BY <1>5, <1>6, <1>7, <1>8, SameSpec, ManagerSpecTheorem, PTL DEF ManagerSpec

LEMMA IInvAlways == Spec => []IInv
<1>1. IInv /\ [Next]_vars => IInv'
  BY BoundsStep, ProtocolStep, ReceiptsStep DEF IInv
<1> QED
  BY <1>1, IInvInit, PTL DEF Spec

-----------------------------------------------------------------------------
(* Type correctness. *)

FlagTypes ==
    /\ running \in BOOLEAN /\ starter \in BOOLEAN /\ shutdown \in BOOLEAN
    /\ kill \in BOOLEAN /\ txClosed \in BOOLEAN /\ groupErr \in BOOLEAN
    /\ receiptLoop \in BOOLEAN
PlaceTypes ==
    /\ stop \in {"none", "called", "waiting"}
    /\ main \in {"sync", "loop", "load", "publish", "send", "go", "wait", "clear", "switch",
                 "answer", "returned"}
    /\ why \in {"tick", "reorg", "switch", "stop"}
    /\ da \in {"off", "idle", "offer", "await", "gone"}
EventTypes == events \in 0..MaxEvents
SendTypes == sends \in SUBSET Send /\ handling \in SUBSET Send

LEMMA EventTypesStep == EventTypes /\ [Next]_vars => EventTypes'
<1> SUFFICES ASSUME EventTypes, [Next]_vars, ~UNCHANGED events PROVE EventTypes'
  BY DEF EventTypes
<1>1. Event
  <2>1. CASE \/ SafeMove \/ TxmgrClose \/ Start \/ LoadReorg \/ CandidateError
             \/ PlasmaError \/ DAOffer \/ \E s \in sends : SendErr(s)
    BY <2>1 DEF SafeMove, TxmgrClose, Start, LoadReorg, CandidateError, PlasmaError,
                DAOffer, SendErr
  <2>2. CASE \/ L1Advance \/ StartClear \/ StopCall \/ StopBegin \/ ForceKill \/ StopEnd
             \/ Tick \/ TickError \/ TakeSwitch \/ TakeShutdown \/ LoadBlock \/ PublishTx
             \/ MainProgress \/ (\E s \in sends : SendOk(s) \/ Leave(s))
             \/ HandleReceipt \/ ReceiptLoopEnd \/ DALoopEnd \/ UNCHANGED vars
    BY <2>2 DEF L1Advance, StartClear, StopCall, StopBegin, ForceKill, StopEnd, Tick,
                TickError, TakeSwitch, TakeShutdown, LoadBlock, PublishTx, MainProgress, WaitNodeSync,
                LoadEnd, PublishEnd, GroupContext, Go, QueueWait, ClearState, Switch, Answer,
                SendOk, Leave, HandleReceipt, ReceiptLoopEnd, DALoopEnd, vars
  <2> QED
    BY <2>1, <2>2 DEF Next, MainStep
<1> QED
  BY <1>1, DriverAssumption DEF Event, EventTypes

LEMMA PlaceTypesStep == PlaceTypes /\ [Next]_vars => PlaceTypes'
<1> SUFFICES ASSUME PlaceTypes, [Next]_vars PROVE PlaceTypes'
  OBVIOUS
<1> USE DEF PlaceTypes
<1>1. CASE L1Advance \/ SafeMove \/ TxmgrClose
  BY <1>1 DEF L1Advance, SafeMove, TxmgrClose, ctlVars, mainVars, daVars
<1>2. CASE Start \/ StopCall \/ StopBegin \/ ForceKill \/ StopEnd
  BY <1>2 DEF Start, StopCall, StopBegin, ForceKill, StopEnd, mainVars, daVars
<1>3. CASE StartClear \/ WaitNodeSync
  BY <1>3 DEF StartClear, WaitNodeSync, ctlVars, daVars
<1>4. CASE Tick \/ TickError \/ LoadBlock \/ LoadEnd \/ LoadReorg
  BY <1>4 DEF Tick, TickError, LoadBlock, LoadEnd, LoadReorg, ctlVars, daVars
<1>5. CASE TakeSwitch \/ TakeShutdown
  BY <1>5 DEF TakeSwitch, TakeShutdown, ctlVars, daVars
<1>6. AfterPublish \in {"loop", "wait", "returned", "clear"}
  BY DEF AfterPublish, AfterWait
<1>7. CASE PublishTx \/ PublishEnd \/ CandidateError
  BY <1>6, <1>7 DEF PublishTx, PublishEnd, CandidateError, Published, ctlVars, daVars
<1>8. CASE PlasmaError \/ GroupContext \/ Go
  BY <1>8 DEF PlasmaError, GroupContext, Go, ctlVars, daVars
<1>9. CASE QueueWait \/ ClearState \/ Switch \/ Answer
  BY <1>9 DEF QueueWait, AfterWait, ClearState, Switch, Answer, ctlVars, daVars
<1>10. CASE \E s \in sends : SendOk(s) \/ SendErr(s) \/ Leave(s)
  BY <1>10 DEF SendOk, SendErr, Leave, ctlVars, mainVars, daVars
<1>11. CASE HandleReceipt \/ ReceiptLoopEnd \/ DAOffer \/ DALoopEnd
  BY <1>11 DEF HandleReceipt, ReceiptLoopEnd, DAOffer, DALoopEnd, ctlVars, mainVars, daVars
<1>12. CASE UNCHANGED vars
  BY <1>12 DEF vars, ctlVars, mainVars, daVars
<1> QED
  BY <1>1, <1>2, <1>3, <1>4, <1>5, <1>7, <1>8, <1>9, <1>10, <1>11, <1>12
  DEF Next, MainStep, MainProgress

LEMMA FlagTypesStep == FlagTypes /\ [Next]_vars => FlagTypes'
<1> SUFFICES ASSUME FlagTypes, [Next]_vars PROVE FlagTypes'
  OBVIOUS
<1> USE DEF FlagTypes
<1>1. CASE L1Advance \/ SafeMove \/ DAOffer \/ DALoopEnd
  BY <1>1 DEF L1Advance, SafeMove, DAOffer, DALoopEnd, ctlVars, queueVars
<1>2. CASE TxmgrClose
  BY <1>2 DEF TxmgrClose, queueVars
<1>3. CASE Start
  BY <1>3 DEF Start, queueVars
<1>4. CASE StopCall \/ StopBegin
  BY <1>4 DEF StopCall, StopBegin, queueVars
<1>5. CASE ForceKill \/ StopEnd
  BY <1>5 DEF ForceKill, StopEnd, queueVars
<1>6. CASE StartClear
  BY <1>6 DEF StartClear, queueVars
<1>7. CASE WaitNodeSync
  BY <1>7 DEF WaitNodeSync, ctlVars
<1>8. CASE \/ Tick \/ TickError \/ LoadBlock \/ LoadEnd \/ LoadReorg \/ TakeSwitch
           \/ TakeShutdown \/ PublishTx \/ PublishEnd \/ QueueWait \/ ClearState \/ Switch \/ Answer
  BY <1>8 DEF Tick, TickError, LoadBlock, LoadEnd, LoadReorg, TakeSwitch, TakeShutdown,
              PublishTx, PublishEnd, QueueWait, ClearState, Switch, Answer, ctlVars, queueVars
<1>9. CASE CandidateError \/ PlasmaError \/ Go
  BY <1>9 DEF CandidateError, PlasmaError, Go, ctlVars
<1>10. CASE GroupContext
  BY <1>10 DEF GroupContext, ctlVars
<1>11. CASE \E s \in sends : SendOk(s) \/ SendErr(s) \/ Leave(s)
  BY <1>11 DEF SendOk, SendErr, Leave, ctlVars
<1>12. CASE HandleReceipt \/ ReceiptLoopEnd
  BY <1>12 DEF HandleReceipt, ReceiptLoopEnd, ctlVars
<1>13. CASE UNCHANGED vars
  BY <1>13 DEF vars, ctlVars, queueVars
<1> QED
  BY <1>1, <1>2, <1>3, <1>4, <1>5, <1>6, <1>7, <1>8, <1>9, <1>10, <1>11, <1>12, <1>13
  DEF Next, MainStep, MainProgress

LEMMA SendTypesStep == IInv /\ ManagerGood /\ SendTypes /\ [Next]_vars => SendTypes'
<1> SUFFICES ASSUME IInv, ManagerGood, SendTypes, [Next]_vars PROVE SendTypes'
  OBVIOUS
<1>0. /\ MaxL1 \in Nat /\ l1Head \in 1..MaxL1
      /\ \A r \in inflight : r \in [tx : M!TxId, sent : 1..MaxL1]
  BY ManagerAssumption DEF M!ConfigAssumption, ManagerGood, M!TypeOK
<1> USE DEF SendTypes
<1>1. CASE Go
  <2>1. sends' = sends \cup {[r |-> tx, stage |-> "sending", at |-> 0]} /\ UNCHANGED handling
    BY <1>1 DEF Go
  <2>2. tx \in inflight
    BY <1>1 DEF Go, IInv, Receipts, Owned
  <2>3. [r |-> tx, stage |-> "sending", at |-> 0] \in Send
    BY <1>0, <2>2 DEF Send, Stages
  <2> QED
    BY <2>1, <2>3
<1>2. ASSUME NEW s \in sends, SendOk(s) \/ SendErr(s) PROVE SendTypes'
  <2>1. s \in Send /\ s.r \in [tx : M!TxId, sent : 1..MaxL1]
    BY DEF Send
  <2>2. \A n \in 0..MaxL1, g \in Stages : [r |-> s.r, stage |-> g, at |-> n] \in Send
    BY <2>1 DEF Send
  <2>3. CASE SendOk(s)
    <3>1. PICK n \in s.r.sent..l1Head : handling' = {[r |-> s.r, stage |-> "ok", at |-> n]}
      BY <2>3 DEF SendOk, Receive
    <3>2. n \in 0..MaxL1
      BY <1>0, <2>1
    <3>3. handling' \in SUBSET Send
      BY <2>2, <3>1, <3>2 DEF Stages
    <3> QED
      BY <2>3, <3>3 DEF SendOk
  <2>4. CASE SendErr(s)
    <3>1. [r |-> s.r, stage |-> "err", at |-> 0] \in Send
      <4>1. 0 \in 0..MaxL1 /\ "err" \in Stages
        BY <1>0 DEF Stages
      <4> QED
        BY <2>2, <4>1
    <3> QED
      BY <2>4, <3>1 DEF SendErr, Receive
  <2> QED
    BY <1>2, <2>3, <2>4
<1>3. ASSUME sends' \in SUBSET sends, handling' \in SUBSET handling PROVE SendTypes'
  BY <1>3
<1>4. CASE \/ L1Advance \/ SafeMove \/ TxmgrClose \/ Start \/ StartClear \/ WaitNodeSync
           \/ StopCall \/ StopBegin \/ ForceKill \/ StopEnd
  BY <1>3, <1>4 DEF L1Advance, SafeMove, TxmgrClose, Start, StartClear, WaitNodeSync,
                    StopCall, StopBegin, ForceKill, StopEnd, queueVars
<1>5. CASE \/ Tick \/ TickError \/ LoadBlock \/ LoadReorg \/ LoadEnd \/ TakeSwitch
           \/ TakeShutdown \/ PublishTx \/ PublishEnd \/ CandidateError \/ PlasmaError \/ GroupContext
  BY <1>3, <1>5 DEF Tick, TickError, LoadBlock, LoadReorg, LoadEnd, TakeSwitch, TakeShutdown,
                    PublishTx, PublishEnd, CandidateError, PlasmaError, GroupContext,
                    queueVars
<1>6. CASE \/ QueueWait \/ ClearState \/ Switch \/ Answer \/ (\E s \in sends : Leave(s))
           \/ HandleReceipt \/ ReceiptLoopEnd \/ DAOffer \/ DALoopEnd \/ UNCHANGED vars
  BY <1>3, <1>6 DEF QueueWait, ClearState, Switch, Answer, Leave, HandleReceipt,
                    ReceiptLoopEnd, DAOffer, DALoopEnd, queueVars, vars
<1> QED
  BY <1>1, <1>2, <1>4, <1>5, <1>6 DEF Next, MainStep, MainProgress

DriverTypes == FlagTypes /\ PlaceTypes /\ EventTypes /\ SendTypes

LEMMA TypesAlways == Spec => [](IInv /\ ManagerGood /\ DriverTypes)
<1>1. Init => DriverTypes
  <2> SUFFICES ASSUME Init PROVE DriverTypes
    OBVIOUS
  <2>1. FlagTypes
    BY DEF Init, FlagTypes
  <2>2. PlaceTypes /\ SendTypes
    BY DEF Init, PlaceTypes, SendTypes
  <2>3. EventTypes
    BY DriverAssumption DEF Init, EventTypes
  <2> QED
    BY <2>1, <2>2, <2>3 DEF DriverTypes
<1>2. IInv /\ ManagerGood /\ DriverTypes /\ [Next]_vars => DriverTypes'
  BY FlagTypesStep, PlaceTypesStep, EventTypesStep, SendTypesStep DEF DriverTypes
<1> QED
  BY <1>1, <1>2, IInvAlways, ManagerAlwaysGood, PTL DEF Spec

\* The variables of the driver, the sending queue and the manager keep their types, and at
\* most one receipt is handled at a time, for every configuration.
THEOREM TypeCorrect == Spec => []TypeOK
<1>1. IInv /\ ManagerGood /\ DriverTypes => TypeOK
  <2> SUFFICES ASSUME IInv, ManagerGood, DriverTypes PROVE TypeOK
    OBVIOUS
  <2>1. Cardinality(handling) <= 1
    <3>1. CASE handling = {}
      BY <3>1, FS_EmptySet
    <3>2. CASE handling # {}
      <4>1. PICK s : handling = {s}
        BY <3>2 DEF IInv, Receipts
      <4>2. Cardinality({s}) = 1
        BY FS_Singleton
      <4> QED
        BY <4>1, <4>2
    <3> QED
      BY <3>1, <3>2
  <2> QED
    BY <2>1 DEF TypeOK, IInv, Bounds, ManagerGood, DriverTypes, FlagTypes, PlaceTypes,
                   EventTypes, SendTypes
<1> QED
  BY <1>1, TypesAlways, PTL

-----------------------------------------------------------------------------
(* No block is skipped. *)

\* The blocks from storedFrom to lastStoredBlock are among those the manager has taken
\* since its last Clear; lastStoredBlock is empty when a reorganisation or a switch clears
\* the manager.
StoredTaken ==
    /\ base <= tip
    /\ ~closed /\ lastStored > storedFrom =>
          tip # 0 /\ base <= storedFrom + 1 /\ lastStored <= tip
StoredEmptied ==
    /\ main \in {"publish", "send", "go", "wait", "clear"} /\ why \in {"reorg", "switch"}
          => lastStored = 0
    /\ main = "clear" => why \in {"reorg", "switch"}

LEMMA TxDataTakes ==
    ASSUME M!TxData
    PROVE  UNCHANGED <<tip, base, closed>>
  BY DEF M!TxData, M!TxDataPending, M!TxDataNew

LEMMA ResultTakes ==
    ASSUME NEW r, M!TxFailed(r) \/ \E n : M!TxConfirmed(r, n)
    PROVE  UNCHANGED <<tip, base, closed>>
  BY DEF M!TxFailed, M!TxConfirmed

LEMMA CloseTakes ==
    ASSUME CloseState
    PROVE  closed' /\ UNCHANGED <<tip, base>>
  BY DEF CloseState, M!Close, mgrVars

LEMMA ClearTakes ==
    ASSUME NEW o, M!Clear(o)
    PROVE  tip' = 0 /\ base' = 0 /\ ~closed'
  BY DEF M!Clear

LEMMA EmptiedStep == IInv /\ PlaceTypes /\ StoredEmptied /\ [Next]_vars => StoredEmptied'
<1> SUFFICES ASSUME IInv, PlaceTypes, StoredEmptied, [Next]_vars PROVE StoredEmptied'
  OBVIOUS
<1> USE DEF StoredEmptied
<1>1. CASE \/ L1Advance \/ SafeMove \/ TxmgrClose \/ Start \/ StopCall \/ StopBegin
           \/ ForceKill \/ StopEnd
  BY <1>1 DEF L1Advance, SafeMove, TxmgrClose, Start, StopCall, StopBegin, ForceKill,
              StopEnd, mainVars
<1>2. CASE StartClear \/ WaitNodeSync
  BY <1>2 DEF StartClear, WaitNodeSync
<1>3. CASE Tick \/ TickError \/ LoadBlock \/ LoadEnd
  BY <1>3 DEF Tick, TickError, LoadBlock, LoadEnd
<1>4. CASE LoadReorg \/ TakeSwitch \/ TakeShutdown
  BY <1>4 DEF LoadReorg, TakeSwitch, TakeShutdown, LastStoredReset
<1>5. CASE PublishTx \/ PublishEnd \/ CandidateError
  <2>1. /\ main \in {"publish", "send"} /\ UNCHANGED <<why, lastStored>>
        /\ main' \in {AfterPublish, "send"}
    BY <1>5 DEF PublishTx, PublishEnd, CandidateError, Published
  <2>2. AfterPublish = "clear" => why # "tick" /\ why # "stop"
    BY DEF AfterPublish, AfterWait
  <2>3. AfterPublish = "clear" => why \in {"reorg", "switch"}
    BY <2>2 DEF PlaceTypes
  <2> QED
    BY <2>1, <2>3
<1>6. CASE PlasmaError \/ GroupContext \/ Go
  <2>1. /\ main \in {"send", "go"} /\ main' \in {"publish", "go"}
        /\ UNCHANGED <<why, lastStored>>
    BY <1>6 DEF PlasmaError, GroupContext, Go
  <2> QED
    BY <2>1
<1>7. CASE QueueWait
  <2>1. main = "wait" /\ main' = AfterWait /\ UNCHANGED <<why, lastStored>>
    BY <1>7 DEF QueueWait
  <2>2. AfterWait = "clear" => why \in {"tick", "reorg", "switch"}
    BY DEF AfterWait, PlaceTypes
  <2>3. why # "tick"
    BY <2>1 DEF IInv, Protocol
  <2> QED
    BY <2>1, <2>2, <2>3 DEF AfterWait
<1>10. CASE ClearState \/ Switch \/ Answer
  BY <1>10 DEF ClearState, Switch, Answer
<1>8. CASE \/ \E s \in sends : SendOk(s) \/ SendErr(s) \/ Leave(s)
           \/ HandleReceipt \/ ReceiptLoopEnd \/ DAOffer \/ DALoopEnd
  BY <1>8 DEF SendOk, SendErr, Leave, HandleReceipt, ReceiptLoopEnd, DAOffer, DALoopEnd,
              mainVars
<1>9. CASE UNCHANGED vars
  BY <1>9 DEF vars, mainVars
<1> QED
  BY <1>1, <1>2, <1>3, <1>4, <1>5, <1>6, <1>7, <1>8, <1>9, <1>10
  DEF Next, MainStep, MainProgress

LEMMA TakenStep ==
    IInv /\ ManagerGood /\ StoredTaken /\ StoredEmptied /\ [Next]_vars => StoredTaken'
<1> SUFFICES ASSUME IInv, ManagerGood, StoredTaken, StoredEmptied, [Next]_vars
             PROVE  StoredTaken'
  OBVIOUS
<1>0. /\ MaxBlock \in Nat
      /\ safe \in Nat /\ storedFrom \in Nat /\ lastStored \in Nat /\ tip \in Nat /\ base \in Nat
      /\ lastStored <= MaxBlock
  BY ManagerAssumption DEF M!ConfigAssumption, IInv, Bounds, ManagerGood, M!TypeOK
<1> USE DEF StoredTaken
<1>1. ASSUME UNCHANGED <<tip, base, storedFrom>>,
             ~closed' => ~closed,
             ~closed' => lastStored' = lastStored
      PROVE  StoredTaken'
  BY <1>0, <1>1
<1>2. CASE \/ L1Advance \/ SafeMove \/ TickError \/ TxmgrClose \/ Start \/ StopCall \/ StopBegin
           \/ ForceKill \/ StopEnd \/ WaitNodeSync \/ LoadEnd \/ PublishEnd
  BY <1>1, <1>2 DEF L1Advance, M!L1Advance, M!mgrVars, SafeMove, TickError, TxmgrClose,
                    Start, StopCall, StopBegin, ForceKill, StopEnd, WaitNodeSync, LoadEnd, PublishEnd,
                    mgrVars, mainVars
<1>4. CASE StartClear \/ ClearState
  <2>1. tip' = 0 /\ base' = 0 /\ storedFrom' = storedFrom
    BY <1>4, ClearTakes DEF StartClear, ClearState
  <2>2. lastStored' = 0
    BY <1>4 DEF StartClear, LastStoredReset, ClearState, StoredEmptied
  <2> QED
    BY <1>0, <2>1, <2>2
<1>5. CASE Tick
  <2>1. /\ UNCHANGED <<tip, base, closed>>
        /\ lastStored' = storedFrom' \/ UNCHANGED <<lastStored, storedFrom>>
    BY <1>5 DEF Tick, mgrVars
  <2>2. CASE lastStored' = storedFrom'
    <3>1. lastStored' \in Nat
      BY <1>0, <1>5 DEF Tick
    <3> QED
      BY <2>1, <2>2, <3>1
  <2>3. CASE UNCHANGED <<lastStored, storedFrom>>
    BY <2>1, <2>3
  <2> QED
    BY <2>1, <2>2, <2>3
<1>6. CASE LoadBlock
  <2>1. /\ lastStored' = lastStored + 1 /\ tip' = lastStored + 1
        /\ tip = 0 \/ tip = lastStored
        /\ base' = IF tip = 0 THEN lastStored + 1 ELSE base
        /\ UNCHANGED <<closed, storedFrom>>
    BY <1>0, <1>6 DEF LoadBlock, M!AddL2Block
  <2>2. ~closed
    BY <1>6 DEF LoadBlock, IInv, Protocol
  <2>3. CASE tip = 0
    <3>1. lastStored <= storedFrom
      BY <1>0, <2>2, <2>3
    <3> QED
      BY <1>0, <2>1, <2>3, <3>1
  <2>4. CASE tip # 0 /\ tip = lastStored
    <3>1. base <= storedFrom + 1 \/ lastStored <= storedFrom
      BY <1>0, <2>2
    <3>2. base' = base /\ base <= lastStored
      BY <2>1, <2>4
    <3> QED
      BY <1>0, <2>1, <2>4, <3>1, <3>2
  <2> QED
    BY <2>1, <2>3, <2>4
<1>7. CASE LoadReorg \/ TakeSwitch
  <2>1. CloseState /\ UNCHANGED storedFrom
    BY <1>7 DEF LoadReorg, TakeSwitch
  <2> QED
    BY <1>0, <2>1, CloseTakes
<1>8. CASE TakeShutdown
  <2>1. UNCHANGED <<storedFrom, lastStored>>
    BY <1>8 DEF TakeShutdown
  <2>2. UNCHANGED <<tip, base, closed>> \/ (closed' /\ UNCHANGED <<tip, base>>)
    BY <1>8, CloseTakes DEF TakeShutdown, mgrVars
  <2> QED
    BY <1>1, <2>1, <2>2
<1>9. CASE PublishTx
  <2>1. UNCHANGED <<tip, base, closed>>
    BY <1>9, TxDataTakes DEF PublishTx
  <2> QED
    BY <1>1, <1>9, <2>1 DEF PublishTx
<1>10. CASE PlasmaError
  <2>1. UNCHANGED <<tip, base, closed>>
    BY <1>10, ResultTakes DEF PlasmaError
  <2> QED
    BY <1>1, <1>10, <2>1 DEF PlasmaError
<1>11. CASE CandidateError \/ GroupContext \/ Go \/ QueueWait \/ Answer
  BY <1>1, <1>11 DEF CandidateError, GroupContext, Go, QueueWait, Answer, mgrVars
<1>12. CASE Switch
  BY <1>1, <1>12 DEF Switch, M!SwitchDAType
<1>13. CASE HandleReceipt
  <2>1. UNCHANGED <<tip, base, closed>>
    BY <1>13, ResultTakes DEF HandleReceipt
  <2> QED
    BY <1>1, <1>13, <2>1 DEF HandleReceipt, mainVars
<1>14. CASE \/ \E s \in sends : SendOk(s) \/ SendErr(s) \/ Leave(s)
            \/ ReceiptLoopEnd \/ DAOffer \/ DALoopEnd \/ UNCHANGED vars
  BY <1>1, <1>14 DEF SendOk, SendErr, Leave, ReceiptLoopEnd, DAOffer, DALoopEnd, vars,
                     mgrVars, mainVars
<1> QED
  BY <1>2, <1>4, <1>5, <1>6, <1>7, <1>8, <1>9, <1>10, <1>11, <1>12, <1>13, <1>14
  DEF Next, MainStep, MainProgress

\* The driver skips no block, for every configuration and every order of reorganisations,
\* DA switches, restarts and moves of the safe head: while the manager is open it keeps
\* every block from the safe head that lastStoredBlock was last moved to up to
\* lastStoredBlock.
THEOREM NoBlockSkippedTheorem == Spec => []NoBlockSkipped
<1>1. Init => StoredTaken /\ StoredEmptied
  BY DEF Init, M!Init, StoredTaken, StoredEmptied
<1>2. /\ IInv /\ ManagerGood /\ DriverTypes /\ StoredTaken /\ StoredEmptied /\ [Next]_vars
      => (StoredTaken /\ StoredEmptied)'
  BY TakenStep, EmptiedStep DEF DriverTypes
<1>3. IInv /\ ManagerGood /\ StoredTaken => NoBlockSkipped
  <2> SUFFICES ASSUME IInv, ManagerGood, StoredTaken, ~closed,
                      NEW b \in (storedFrom + 1)..lastStored
               PROVE  M!Kept(b)
    BY DEF NoBlockSkipped
  <2>1. storedFrom \in Nat /\ lastStored \in Nat /\ tip \in Nat /\ base \in Nat
    BY ManagerAssumption DEF M!ConfigAssumption, IInv, Bounds, ManagerGood, M!TypeOK
  <2>2. lastStored > storedFrom
    BY <2>1
  <2>3. tip # 0 /\ base <= storedFrom + 1 /\ lastStored <= tip
    BY <2>2 DEF StoredTaken
  <2>4. b \in base..tip
    BY <2>1, <2>3
  <2> QED
    BY <2>3, <2>4 DEF ManagerGood, M!NoBlockLost
<1> QED
  BY <1>1, <1>2, <1>3, TypesAlways, PTL DEF Spec

-----------------------------------------------------------------------------
(* Every pending transaction is worked on. *)

\* A transaction in flight has an owner, unless sendTransaction has given it up.
InflightOwned == \A r \in inflight : Owned(r) \/ r \in unsent

LEMMA OneNew ==
    ASSUME M!TxData
    PROVE  \A p, q \in inflight' \ inflight : p = q
<1>1. ASSUME NEW c, NEW x, M!HandOut(c, x)
      PROVE  \A p, q \in inflight' \ inflight : p = q
  BY <1>1 DEF M!HandOut
<1>2. CASE M!TxDataPending
  BY <1>1, <1>2 DEF M!TxDataPending
<1>3. CASE M!TxDataNew
  <2>1. PICK c, x : M!FillChannel(c, x)
    BY <1>3 DEF M!TxDataNew
  <2>2. PICK y : M!Emit(c, y)
    BY <2>1 DEF M!FillChannel
  <2> QED
    BY <1>1, <2>2 DEF M!Emit
<1> QED
  BY <1>2, <1>3 DEF M!TxData

LEMMA OwnedStep == IInv /\ InflightOwned /\ [Next]_vars => InflightOwned'
<1> SUFFICES ASSUME IInv, InflightOwned, [Next]_vars PROVE InflightOwned'
  OBVIOUS
<1> USE DEF InflightOwned, Owned
<1>1. ASSUME UNCHANGED <<inflight, sends, handling, tx, unsent>>,
             main \in {"send", "go"} => main' \in {"send", "go"}
      PROVE  InflightOwned'
  BY <1>1
<1>2. CASE L1Advance \/ SafeMove \/ TxmgrClose
  BY <1>2, <1>1 DEF L1Advance, M!L1Advance, SafeMove, TxmgrClose, mgrVars, mainVars,
                    queueVars
<1>3. CASE Start \/ StopCall \/ StopBegin \/ ForceKill \/ StopEnd
  BY <1>3, <1>1 DEF Start, StopCall, StopBegin, ForceKill, StopEnd, mgrVars, mainVars,
                    queueVars
<1>4. CASE StartClear \/ ClearState
  <2>1. UNCHANGED inflight
    BY <1>4, ClearEffect DEF StartClear, ClearState
  <2>2. main \notin {"send", "go"}
    BY <1>4 DEF StartClear, ClearState, IInv, Protocol
  <2>3. UNCHANGED <<sends, handling, tx, unsent>>
    BY <1>4 DEF StartClear, ClearState, queueVars
  <2> QED
    BY <1>1, <2>1, <2>2, <2>3
<1>5. CASE Tick \/ TickError \/ WaitNodeSync \/ LoadEnd \/ QueueWait \/ Answer
  BY <1>1, <1>5 DEF Tick, TickError, WaitNodeSync, LoadEnd, QueueWait, Answer, mgrVars,
                    queueVars
<1>6. CASE LoadBlock
  BY <1>1, <1>6, AddEffect DEF LoadBlock, queueVars
<1>7. CASE LoadReorg \/ TakeSwitch \/ TakeShutdown
  BY <1>1, <1>7, CloseEffect DEF LoadReorg, TakeSwitch, TakeShutdown, mgrVars, queueVars
<1>8. CASE PublishTx
  <2>1. /\ main = "publish" /\ UNCHANGED <<sends, handling, unsent>>
        /\ \/ inflight' = inflight
           \/ main' = "send" /\ tx' = CHOOSE r \in inflight' : r \notin inflight
    BY <1>8 DEF PublishTx, queueVars
  <2>2. ASSUME NEW r \in inflight PROVE (Owned(r) \/ r \in unsent)'
    BY <2>1, <2>2
  <2>3. ASSUME NEW r \in inflight', r \notin inflight PROVE r = tx' /\ main' = "send"
    <3>1. main' = "send" /\ tx' = CHOOSE q \in inflight' : q \notin inflight
      BY <2>1, <2>3
    <3>2. tx' \in inflight' \ inflight
      BY <2>3, <3>1
    <3>3. M!TxData
      BY <1>8 DEF PublishTx
    <3> QED
      BY <2>3, <3>1, <3>2, <3>3, OneNew
  <2> QED
    BY <2>2, <2>3
<1>9. CASE PublishEnd
  BY <1>1, <1>9 DEF PublishEnd, mgrVars, queueVars
<1>10. CASE CandidateError
  <2>1. /\ main = "send" /\ unsent' = unsent \cup {tx}
        /\ UNCHANGED <<inflight, sends, handling>>
    BY <1>10 DEF CandidateError, mgrVars
  <2> QED
    BY <2>1
<1>11. CASE PlasmaError
  <2>1. /\ main = "send" /\ inflight' = inflight \ {tx}
        /\ UNCHANGED <<sends, handling, unsent>>
    BY <1>11, ResultEffect DEF PlasmaError
  <2> QED
    BY <2>1
<1>12. CASE GroupContext
  BY <1>1, <1>12 DEF GroupContext, mgrVars
<1>13. CASE Go
  <2> DEFINE h == [r |-> tx, stage |-> "sending", at |-> 0]
  <2>1. sends' = sends \cup {h} /\ UNCHANGED <<inflight, handling, unsent>>
    BY <1>13 DEF Go, mgrVars
  <2>2. h.stage = "sending" /\ h.r = tx
    OBVIOUS
  <2> HIDE DEF h
  <2> QED
    BY <2>1, <2>2
<1>14. CASE Switch
  BY <1>1, <1>14 DEF Switch, M!SwitchDAType, queueVars
<1>15. ASSUME NEW s \in sends, SendOk(s) \/ SendErr(s) PROVE InflightOwned'
  <2>1. \E h : handling = {} /\ handling' = {h} /\ h.r = s.r
    <3>1. \A g, n : [r |-> s.r, stage |-> g, at |-> n].r = s.r
      OBVIOUS
    <3>2. PICK g, n : handling = {} /\ handling' = {[r |-> s.r, stage |-> g, at |-> n]}
      BY <1>15 DEF SendOk, SendErr, Receive
    <3> DEFINE h == [r |-> s.r, stage |-> g, at |-> n]
    <3>3. h.r = s.r /\ handling' = {h}
      BY <3>1, <3>2
    <3> HIDE DEF h
    <3> QED
      BY <3>2, <3>3
  <2>2. /\ sends \ {s} \subseteq sends'
        /\ UNCHANGED <<inflight, main, tx, unsent>>
    BY <1>15 DEF SendOk, SendErr, mgrVars, mainVars
  <2>3. PICK h : handling = {} /\ handling' = {h} /\ h.r = s.r
    BY <2>1
  <2> QED
    BY <2>2, <2>3
<1>16. ASSUME NEW s \in sends, Leave(s) PROVE InflightOwned'
  <2>1. /\ s.stage = "err" /\ sends' = sends \ {s}
        /\ UNCHANGED <<inflight, main, tx, unsent, handling>>
    BY <1>16 DEF Leave, mgrVars, mainVars
  <2> QED
    BY <2>1
<1>17. CASE HandleReceipt
  <2>1. PICK s \in handling : M!TxFailed(s.r) \/ \E n : M!TxConfirmed(s.r, n)
    BY <1>17 DEF HandleReceipt
  <2>2. inflight' = inflight \ {s.r} /\ UNCHANGED <<sends, main, tx, unsent>>
    BY <1>17, <2>1, ResultEffect DEF HandleReceipt, mainVars
  <2>3. \A t \in handling : t = s
    BY DEF IInv, Receipts
  <2> QED
    BY <2>2, <2>3
<1>18. CASE ReceiptLoopEnd \/ DAOffer \/ DALoopEnd \/ UNCHANGED vars
  BY <1>1, <1>18 DEF ReceiptLoopEnd, DAOffer, DALoopEnd, vars, mgrVars, mainVars, queueVars
<1> QED
  BY <1>2, <1>3, <1>4, <1>5, <1>6, <1>7, <1>8, <1>9, <1>10, <1>11, <1>12, <1>13, <1>14,
     <1>15, <1>16, <1>17, <1>18 DEF Next, MainStep, MainProgress

\* No frames stay pending without somebody working on them, for every configuration and
\* every order of failures, cancellations, receipts and clears.
THEOREM PendingServedTheorem == Spec => []PendingServed
<1>1. Init => InflightOwned
  BY DEF Init, M!Init, InflightOwned
<1>2. IInv /\ ManagerGood /\ InflightOwned => PendingServed
  <2> SUFFICES ASSUME IInv, ManagerGood, InflightOwned,
                      NEW c \in channelQueue, NEW fs \in ch[c].pending
               PROVE  \E r \in inflight :
                         /\ r.tx = [ch |-> c, frames |-> fs]
                         /\ Owned(r) \/ r \in unsent
    BY DEF PendingServed, Owned
  <2>1. PICK r \in inflight : r.tx = [ch |-> c, frames |-> fs]
    BY DEF ManagerGood, PendingInFlight
  <2> QED
    BY <2>1 DEF InflightOwned
<1> QED
  BY <1>1, <1>2, OwnedStep, TypesAlways, PTL DEF Spec
-----------------------------------------------------------------------------
(* The manager under its driver: the rest of what ChannelManagerProofs shows of it. *)

LEMMA ManagerConfig == MP!ConfigAssumption
  BY ManagerAssumption DEF M!ConfigAssumption, MP!ConfigAssumption

LEMMA SameDelivery == M!BlocksDelivered <=> MP!BlocksDelivered
<1>1. M!Held = MP!Held /\ M!OnL1 = MP!OnL1
  BY DEF M!Held, MP!Held, M!OnL1, MP!OnL1, M!Range, MP!Range, M!Delivered, MP!Delivered,
         M!ChannelId, MP!ChannelId
<1>2. M!Held' = MP!Held' /\ M!OnL1' = MP!OnL1'
  BY DEF M!Held, MP!Held, M!OnL1, MP!OnL1, M!Range, MP!Range, M!Delivered, MP!Delivered,
         M!ChannelId, MP!ChannelId
<1>3. M!Delivery!Init <=> MP!Delivery!Init
  BY <1>1 DEF M!Delivery!Init, MP!Delivery!Init
<1>4. M!Delivery!Next <=> MP!Delivery!Next
  BY <1>1, <1>2 DEF M!Delivery!Next, MP!Delivery!Next, M!Delivery!Take, MP!Delivery!Take,
              M!Delivery!Work, MP!Delivery!Work, M!Delivery!Close, MP!Delivery!Close,
              M!Delivery!Reset, MP!Delivery!Reset, M!Delivery!Taken, MP!Delivery!Taken
<1>5. M!Delivery!vars = MP!Delivery!vars /\ M!Delivery!vars' = MP!Delivery!vars'
  BY <1>1, <1>2 DEF M!Delivery!vars, MP!Delivery!vars
<1>6. [M!Delivery!Next]_M!Delivery!vars <=> [MP!Delivery!Next]_MP!Delivery!vars
  BY <1>4, <1>5
<1> QED
  BY <1>3, <1>6, PTL DEF M!BlocksDelivered, MP!BlocksDelivered, M!Delivery!Spec, MP!Delivery!Spec

\* The batcher as a whole, driver and channel manager, delivers: whatever its goroutines
\* do, blocks are taken in order, none is let go that is not on L1 as long as the manager
\* is open, and what is on L1 remains there.
THEOREM BatcherDeliversTheorem == Spec => M!BlocksDelivered
<1>1. MP!Spec => MP!BlocksDelivered
  BY ManagerConfig, MP!BlocksDeliveredTheorem
<1> QED
  BY <1>1, SameDelivery, SameSpec, ManagerSpecTheorem, PTL DEF ManagerSpec

\* Under the driver a channel has each of its frames in one place, and its timeout is
\* the earliest of its deadlines.
THEOREM BatcherFramesTheorem == Spec => [](M!FramesOnce /\ M!TimeoutEarliest)
<1>1. M!FramesOnce <=> MP!FramesOnce
  BY DEF M!FramesOnce, MP!FramesOnce, M!EachOnce, MP!EachOnce, M!Places, MP!Places,
         M!InQueue, MP!InQueue, M!InPending, MP!InPending, M!InConfirmed, MP!InConfirmed
<1>2. M!TimeoutEarliest <=> MP!TimeoutEarliest
  BY DEF M!TimeoutEarliest, MP!TimeoutEarliest, M!SeqWindowDeadline, MP!SeqWindowDeadline
<1>3. MP!Spec => []MP!FramesOnce
  BY ManagerConfig, MP!FramesOnceTheorem
<1>4. MP!Spec => []MP!TimeoutEarliest
  BY ManagerConfig, MP!TimeoutEarliestTheorem
<1> QED
  BY <1>1, <1>2, <1>3, <1>4, SameSpec, ManagerSpecTheorem, PTL DEF ManagerSpec
=============================================================================
