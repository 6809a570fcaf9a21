--------------------------- MODULE BatchSubmitter ---------------------------
(***************************************************************************)
(* The batcher's driver (op-batcher/batcher/driver.go) with the sending    *)
(* queue of the transaction manager (op-service/txmgr/queue.go), composed  *)
(* with the channel manager of module ChannelManager.                      *)
(*                                                                         *)
(* Goroutines: the main loop (main), the receipt loop (receiptLoop), one   *)
(* sender per transaction (sends), the loop that chooses the DA type (da)  *)
(* and the callers of Start- and StopBatchSubmitting.  They meet on two    *)
(* unbuffered channels per loop, on the queue's errgroup, on the contexts  *)
(* shutdownCtx and killCtx and on the driver's mutex.                      *)
(***************************************************************************)
EXTENDS Integers, Sequences, FiniteSets

CONSTANTS
    MaxBlock, L1Origin, VoltaBlock, FourierBlock, SeqWindowSize, ChannelTimeout,
    MaxChannelDuration, SubSafetyMargin, TargetNumFrames, MaxL1, MaxChannels, MaxFrames,
    MaxPending,   \* MaxPendingTransactions of the queue, 0 = no limit
    AutoSwitchDA, \* the data-availability type is "auto"
    MaxEvents     \* bound: starts, moves of the safe head, L2 reorganisations, DA switches,
                  \* failures of sends that are not cancelled, and closings of the txmgr,
                  \* together

ASSUME DriverAssumption ==
    /\ MaxPending \in Nat /\ AutoSwitchDA \in BOOLEAN
    /\ MaxEvents \in Nat

VARIABLES
    l1Head, inflight, blocks, tip, l1OriginLastClosedChannel, currentChannel,
    channelQueue, txChannels, closed, isVolta, isFourier, multiFrameTxs, ch, nch, base

M == INSTANCE ChannelManager

ASSUME ManagerAssumption == M!ConfigAssumption

VARIABLES
    safe,        \* environment: the node's safe L2 head
    running,     \* BatchSubmitter.running
    starter,     \* StartBatchSubmitting is in clearState; it holds the mutex
    stop,        \* StopBatchSubmitting: "none", "called" (wants the mutex), "waiting"
    shutdown,    \* shutdownCtx is cancelled
    kill,        \* killCtx is cancelled
    txClosed,    \* SimpleTxManager.closed
    main,        \* where the main loop is
    why,         \* what it publishes for: "tick", "reorg", "switch" or "stop"
    tx,          \* the transaction in sendTransaction
    lastStored,  \* lastStoredBlock, 0 if empty
    storedFrom,  \* history: the safe head that lastStoredBlock was last moved to
    groupErr,    \* a send of the queue's group has returned an error
    sends,       \* sender goroutines of the group: transaction, stage, block of inclusion
    receiptLoop, \* the receipt loop runs
    handling,    \* the receipt it has received and not handled yet
    da,          \* the DA loop: "off", "idle", "offer", "await" or "gone"
    daType,      \* economicDAType, the type that loop believes in: TRUE for blobs
    unsent,      \* history: transactions given up by sendTransaction
    events       \* counter of the bound

mgrVars == <<l1Head, inflight, blocks, tip, l1OriginLastClosedChannel, currentChannel,
             channelQueue, txChannels, closed, isVolta, isFourier, multiFrameTxs, ch, nch,
             base>>
ctlVars == <<running, starter, stop, shutdown, kill, txClosed>>
mainVars == <<main, why, tx, lastStored, storedFrom, unsent>>
queueVars == <<groupErr, sends, receiptLoop, handling>>
daVars == <<da, daType>>
vars == <<mgrVars, ctlVars, mainVars, queueVars, daVars, safe, events>>

Init ==
    /\ M!Init /\ multiFrameTxs = TRUE /\ l1OriginLastClosedChannel = 0
    /\ safe = 0
    /\ running = FALSE /\ starter = FALSE /\ stop = "none" /\ shutdown = FALSE
    /\ kill = FALSE /\ txClosed = FALSE
    /\ main = "returned" /\ why = "tick" /\ tx = <<>> /\ lastStored = 0
    /\ storedFrom = 0 /\ unsent = {}
    /\ groupErr = FALSE /\ sends = {} /\ receiptLoop = FALSE /\ handling = {}
    /\ da = "off" /\ daType = TRUE
    /\ events = 0

Event == events < MaxEvents /\ events' = events + 1

-----------------------------------------------------------------------------
(* Environment: L1 grows, the node's safe head moves, the service closes the *)
(* transaction manager.                                                      *)

L1Advance ==
    M!L1Advance /\ UNCHANGED <<ctlVars, mainVars, queueVars, daVars, safe, events>>

\* The safe head advances (also over blocks of an earlier batcher), or goes back: a reset
\* or a restart of the node, or another node that answers.
SafeMove ==
    /\ Event /\ \E n \in 0..MaxBlock : n # safe /\ safe' = n
    /\ UNCHANGED <<mgrVars, ctlVars, mainVars, queueVars, daVars>>

\* BatcherService.Stop closes the transaction manager first, then stops the driver.
TxmgrClose ==
    /\ running /\ ~txClosed /\ Event /\ txClosed' = TRUE
    /\ UNCHANGED <<mgrVars, running, starter, stop, shutdown, kill, mainVars, queueVars,
                   daVars, safe>>

-----------------------------------------------------------------------------
(* StartBatchSubmitting and StopBatchSubmitting.                             *)

Start ==
    /\ ~running /\ ~starter /\ stop = "none" /\ ~txClosed
    /\ running' = TRUE /\ starter' = TRUE /\ shutdown' = FALSE /\ kill' = FALSE
    /\ Event
    /\ UNCHANGED <<mgrVars, stop, txClosed, mainVars, queueVars, daVars, safe>>

\* clearState in Start: it retries until the node tells the origin of its safe head;
\* then the main loop starts.
LastStoredKept == lastStored
LastStoredReset == 0
StartClear ==
    /\ starter /\ starter' = FALSE
    /\ \E o \in 1..l1Head : M!Clear(o)
    /\ lastStored' = LastStoredReset /\ main' = "sync"
    /\ UNCHANGED <<running, stop, shutdown, kill, txClosed, why, tx, storedFrom, unsent,
                   queueVars, daVars, safe, events>>

\* waitNodeSync succeeds, or fails and ends the loop; if not configured it does nothing.
WaitNodeSync ==
    /\ main = "sync"
    /\ \/ /\ main' = "loop" /\ receiptLoop' = TRUE /\ groupErr' = FALSE
          /\ da' = (IF AutoSwitchDA THEN "idle" ELSE "off") /\ daType' = TRUE
       \/ main' = "returned" /\ UNCHANGED <<receiptLoop, groupErr, daVars>>
    /\ UNCHANGED <<mgrVars, ctlVars, why, tx, lastStored, storedFrom, unsent, sends,
                   handling, safe, events>>

StopCall ==
    /\ running /\ stop = "none" /\ stop' = "called"
    /\ UNCHANGED <<mgrVars, running, starter, shutdown, kill, txClosed, mainVars,
                   queueVars, daVars, safe, events>>

StopBegin ==
    /\ stop = "called" /\ ~starter
    /\ stop' = "waiting" /\ running' = FALSE /\ shutdown' = TRUE
    /\ UNCHANGED <<mgrVars, starter, kill, txClosed, mainVars, queueVars, daVars, safe,
                   events>>

\* The context given to StopBatchSubmitting is done: the sends are cancelled.
ForceKill ==
    /\ stop = "waiting" /\ ~kill /\ kill' = TRUE
    /\ UNCHANGED <<mgrVars, running, starter, stop, shutdown, txClosed, mainVars,
                   queueVars, daVars, safe, events>>

\* wg.Wait returns.
StopEnd ==
    /\ stop = "waiting" /\ main = "returned"
    /\ stop' = "none" /\ kill' = TRUE
    /\ UNCHANGED <<mgrVars, running, starter, shutdown, txClosed, mainVars, queueVars,
                   daVars, safe, events>>

-----------------------------------------------------------------------------
(* The main loop.                                                            *)

\* channelManager.Close; a closed manager stays as it is.
CloseForgotten == UNCHANGED mgrVars
CloseState == IF closed THEN UNCHANGED mgrVars ELSE M!Close

\* calculateL2BlockRangeToStore moves an empty or lagging lastStoredBlock to the safe
\* head; it never moves one back that is ahead of it.
Lagging == lastStored = 0 \/ lastStored < safe
Tick ==
    /\ main = "loop" /\ main' = "load"
    /\ IF Lagging THEN lastStored' = safe /\ storedFrom' = safe
       ELSE UNCHANGED <<lastStored, storedFrom>>
    /\ UNCHANGED <<mgrVars, ctlVars, why, tx, unsent, queueVars, daVars, safe, events>>

\* The sync status cannot be read: nothing is loaded.
TickError ==
    /\ main = "loop" /\ main' = "publish" /\ why' = "tick"
    /\ UNCHANGED <<mgrVars, ctlVars, tx, lastStored, storedFrom, unsent, queueVars,
                   daVars, safe, events>>

\* loadBlockIntoState of the next block: it extends the manager's tip, ...
LoadBlock ==
    /\ main = "load" /\ ~shutdown /\ lastStored < MaxBlock
    /\ M!AddL2Block(lastStored + 1) /\ lastStored' = lastStored + 1
    /\ UNCHANGED <<ctlVars, main, why, tx, storedFrom, unsent, queueVars, daVars, safe,
                   events>>

\* ... or it does not, since lastStoredBlock has jumped or the chain has changed: the
\* manager is closed, and cleared once its data is published.
LoadReorg ==
    /\ main = "load" /\ ~shutdown /\ lastStored < MaxBlock /\ tip # 0
    /\ L1Origin[lastStored + 1] <= l1Head
    /\ IF tip # lastStored THEN UNCHANGED events ELSE Event
    /\ lastStored' = LastStoredReset
    /\ CloseState
    /\ main' = "publish" /\ why' = "reorg"
    /\ UNCHANGED <<ctlVars, tx, storedFrom, unsent, queueVars, daVars, safe>>

\* The range is loaded, or the node or the engine does not answer.
LoadEnd ==
    /\ main = "load" /\ main' = "publish" /\ why' = "tick"
    /\ UNCHANGED <<mgrVars, ctlVars, tx, lastStored, storedFrom, unsent, queueVars,
                   daVars, safe, events>>

\* case targetDAType := <-economicDATypeCh
TakeSwitch ==
    /\ main = "loop" /\ da = "offer" /\ da' = "await"
    /\ lastStored' = LastStoredReset
    /\ CloseState
    /\ main' = "publish" /\ why' = "switch"
    /\ UNCHANGED <<ctlVars, tx, storedFrom, unsent, queueVars, daType, safe, events>>

\* case <-l.shutdownCtx.Done()
TakeShutdown ==
    /\ main = "loop" /\ shutdown
    /\ IF txClosed THEN main' = "returned" /\ UNCHANGED <<mgrVars, why>>
       ELSE CloseState /\ main' = "publish" /\ why' = "stop"
    /\ UNCHANGED <<ctlVars, tx, lastStored, storedFrom, unsent, queueVars, daVars, safe,
                   events>>

\* publishStateToL1 is over; publishAndWait skips the wait if the txmgr is closed.
AfterWait == IF why = "stop" THEN "returned" ELSE "clear"
AfterPublish == IF why = "tick" THEN "loop" ELSE IF txClosed THEN AfterWait ELSE "wait"
Published == main' = AfterPublish

\* publishTxToL1: TxData gives a transaction for sendTransaction, or none is ready.
PublishTx ==
    /\ main = "publish" /\ ~txClosed /\ ~kill
    /\ M!TxData
    /\ IF inflight' = inflight
       THEN Published /\ UNCHANGED tx
       ELSE main' = "send" /\ tx' = CHOOSE r \in inflight' : r \notin inflight
    /\ UNCHANGED <<ctlVars, why, lastStored, storedFrom, unsent, queueVars, daVars, safe,
                   events>>

\* No data, no answer from L1, or the txmgr is closed.
PublishEnd ==
    /\ main = "publish" /\ Published
    /\ UNCHANGED <<mgrVars, ctlVars, why, tx, lastStored, storedFrom, unsent, queueVars,
                   daVars, safe, events>>

\* sendTransaction cannot make a candidate and returns an error, which ends the
\* publishing; the frames stay pending in their channel.
CandidateError ==
    /\ main = "send" /\ Event /\ Published
    /\ unsent' = unsent \cup {tx} /\ tx' = <<>>
    /\ UNCHANGED <<mgrVars, ctlVars, why, lastStored, storedFrom, groupErr, sends,
                   receiptLoop, handling, daVars, safe>>

\* The plasma DA server refuses the data: the frames go back at once.
PlasmaError ==
    /\ main = "send" /\ ~multiFrameTxs /\ Event
    /\ M!TxFailed(tx) /\ main' = "publish" /\ tx' = <<>>
    /\ UNCHANGED <<ctlVars, why, lastStored, storedFrom, unsent, groupErr, sends,
                   receiptLoop, handling, daVars, safe>>

\* groupContext: if the group is cancelled, wait for all of its sends and make a new one.
Cancelled == groupErr \/ kill
GroupContext ==
    /\ main = "send" /\ main' = "go"
    /\ IF Cancelled THEN sends = {} /\ groupErr' = FALSE ELSE UNCHANGED groupErr
    /\ UNCHANGED <<mgrVars, ctlVars, why, tx, lastStored, storedFrom, unsent, sends,
                   receiptLoop, handling, daVars, safe, events>>

\* group.Go waits while MaxPending sends are in the group.
Go ==
    /\ main = "go" /\ main' = "publish"
    /\ MaxPending = 0 \/ Cardinality(sends) < MaxPending
    /\ sends' = sends \cup {[r |-> tx, stage |-> "sending", at |-> 0]} /\ tx' = <<>>
    /\ UNCHANGED <<mgrVars, ctlVars, why, lastStored, storedFrom, unsent, groupErr,
                   receiptLoop, handling, daVars, safe, events>>

\* queue.Wait
QueueWait ==
    /\ main = "wait" /\ sends = {} /\ main' = AfterWait
    /\ UNCHANGED <<mgrVars, ctlVars, why, tx, lastStored, storedFrom, unsent, queueVars,
                   daVars, safe, events>>

\* clearState: with the safe head's origin, or without one once shutdownCtx is cancelled.
ClearState ==
    /\ main = "clear"
    /\ \E o \in (IF shutdown THEN {0} ELSE 1..l1Head) : M!Clear(o)
    /\ main' = (IF why = "switch" THEN "switch" ELSE "loop") /\ why' = "tick"
    /\ UNCHANGED <<ctlVars, tx, lastStored, storedFrom, unsent, queueVars, daVars, safe,
                   events>>

\* switchDAType, to the type the DA loop has sent.
Switch ==
    /\ main = "switch" /\ main' = "answer"
    /\ M!SwitchDAType(daType)
    /\ UNCHANGED <<ctlVars, why, tx, lastStored, storedFrom, unsent, queueVars, daVars,
                   safe, events>>

\* waitSwitchDACh <- struct{}{}, after the sleep.
Answer ==
    /\ main = "answer" /\ da = "await" /\ main' = "loop" /\ da' = "idle"
    /\ UNCHANGED <<mgrVars, ctlVars, why, tx, lastStored, storedFrom, unsent, queueVars,
                   daType, safe, events>>

-----------------------------------------------------------------------------
(* Senders, the receipt loop and the DA loop.                                *)

\* receiptCh <- TxReceipt{...}: the receipt loop receives the result of a sender.  The
\* channel is unbuffered: a sender with a result waits here until the loop is free, which
\* is as if Send had not returned yet.
ReceiveBuffered(s, stage, n) ==
    /\ receiptLoop
    /\ handling' = handling \cup {[r |-> s.r, stage |-> stage, at |-> n]}
Receive(s, stage, n) ==
    /\ receiptLoop /\ handling = {}
    /\ handling' = {[r |-> s.r, stage |-> stage, at |-> n]}

\* TxManager.Send returns a receipt, of a block not below the head it was sent at; the
\* sender leaves the group.
SendOk(s) ==
    /\ s.stage = "sending"
    /\ \E n \in s.r.sent..l1Head : Receive(s, "ok", n)
    /\ sends' = sends \ {s}
    /\ UNCHANGED <<mgrVars, ctlVars, mainVars, groupErr, receiptLoop, daVars, safe,
                   events>>

\* Send returns an error: its context is cancelled, the txmgr is closed, or L1 refuses it.
SendErrSilent(s) ==
    /\ s.stage = "sending"
    /\ IF Cancelled \/ txClosed THEN UNCHANGED <<events, handling>>
       ELSE Event /\ Receive(s, "err", 0)
    /\ sends' = (sends \ {s}) \cup {[r |-> s.r, stage |-> "err", at |-> 0]}
    /\ UNCHANGED <<mgrVars, ctlVars, mainVars, groupErr, receiptLoop, daVars, safe>>
SendErr(s) ==
    /\ s.stage = "sending"
    /\ IF Cancelled \/ txClosed THEN UNCHANGED events ELSE Event
    /\ Receive(s, "err", 0)
    /\ sends' = (sends \ {s}) \cup {[r |-> s.r, stage |-> "err", at |-> 0]}
    /\ UNCHANGED <<mgrVars, ctlVars, mainVars, groupErr, receiptLoop, daVars, safe>>

\* The sender ends with its error; the errgroup cancels its context at the first one.
Leave(s) ==
    /\ s.stage = "err" /\ sends' = sends \ {s}
    /\ groupErr' = TRUE
    /\ UNCHANGED <<mgrVars, ctlVars, mainVars, receiptLoop, handling, daVars, safe,
                   events>>

\* handleReceipt.  A receipt loop that ends handles what it has received.
HandleReceipt ==
    /\ \E s \in handling :
          IF s.stage = "ok" THEN M!TxConfirmed(s.r, s.at) ELSE M!TxFailed(s.r)
    /\ handling' = {}
    /\ UNCHANGED <<ctlVars, mainVars, groupErr, sends, receiptLoop, daVars, safe, events>>

\* case <-receiptLoopDone, closed when the main loop returns.
ReceiptLoopEndAtShutdown ==
    /\ shutdown /\ receiptLoop /\ handling = {} /\ receiptLoop' = FALSE
    /\ UNCHANGED <<mgrVars, ctlVars, mainVars, groupErr, sends, handling, daVars, safe,
                   events>>
ReceiptLoopEnd ==
    /\ main = "returned" /\ receiptLoop /\ handling = {} /\ receiptLoop' = FALSE
    /\ UNCHANGED <<mgrVars, ctlVars, mainVars, groupErr, sends, handling, daVars, safe,
                   events>>

\* The DA loop decides for the other type, by fees or after ErrAlreadyReserved.
DAOffer ==
    /\ da = "idle" /\ da' = "offer" /\ daType' = ~daType /\ Event
    /\ UNCHANGED <<mgrVars, ctlVars, mainVars, queueVars, safe>>

\* case <-economicDALoopDone
DALoopEnd ==
    /\ main = "returned" /\ da = "idle" /\ da' = "gone"
    /\ UNCHANGED <<mgrVars, ctlVars, mainVars, queueVars, daType, safe, events>>

-----------------------------------------------------------------------------
\* What the main loop does until it is back at its select.
MainStep ==
    \/ LoadBlock \/ LoadReorg \/ PublishTx \/ CandidateError \/ PlasmaError
MainProgress ==
    \/ WaitNodeSync \/ LoadEnd \/ PublishEnd \/ GroupContext \/ Go \/ QueueWait
    \/ ClearState \/ Switch \/ Answer

Next ==
    \/ L1Advance \/ SafeMove \/ TxmgrClose
    \/ Start \/ StartClear \/ StopCall \/ StopBegin \/ ForceKill \/ StopEnd
    \/ Tick \/ TickError \/ TakeSwitch \/ TakeShutdown \/ MainStep \/ MainProgress
    \/ \E s \in sends : SendOk(s) \/ SendErr(s) \/ Leave(s)
    \/ HandleReceipt \/ ReceiptLoopEnd
    \/ DAOffer \/ DALoopEnd

Spec == Init /\ [][Next]_vars

\* The main loop runs on: a load or a publication ends, since the blocks and the data of
\* the moment are finite and an error ends both, and the node answers clearState in the
\* end.  Its select takes each case that stays ready.  A transaction is resubmitted with
\* higher fees until it is included, or its send is cancelled; the receipt loop runs.
Fairness ==
    /\ WF_vars(MainProgress \/ StartClear)
    /\ SF_vars(TakeSwitch \/ TakeShutdown)
    /\ WF_vars(StopBegin \/ StopEnd)
    /\ WF_vars(HandleReceipt \/ \E s \in sends : SendOk(s) \/ Leave(s))

FairSpec == Spec /\ Fairness

-----------------------------------------------------------------------------
(* Properties. *)

Stages == {"sending", "ok", "err"}
Send == [r : [tx : M!TxId, sent : 1..MaxL1], stage : Stages, at : 0..MaxL1]

\* The variables have their types; at most one receipt is being handled.
TypeOK ==
    /\ M!TypeOK
    /\ safe \in 0..MaxBlock /\ lastStored \in 0..MaxBlock /\ storedFrom \in 0..MaxBlock
    /\ running \in BOOLEAN /\ starter \in BOOLEAN /\ shutdown \in BOOLEAN
    /\ kill \in BOOLEAN /\ txClosed \in BOOLEAN /\ groupErr \in BOOLEAN
    /\ receiptLoop \in BOOLEAN /\ daType \in BOOLEAN
    /\ stop \in {"none", "called", "waiting"}
    /\ main \in {"sync", "loop", "load", "publish", "send", "go", "wait", "clear", "switch",
                 "answer", "returned"}
    /\ why \in {"tick", "reorg", "switch", "stop"}
    /\ da \in {"off", "idle", "offer", "await", "gone"}
    /\ sends \in SUBSET Send /\ handling \in SUBSET Send
    /\ Cardinality(handling) <= 1
    /\ events \in 0..MaxEvents

\* The driver never moves past a block: while the manager is open, it keeps every block
\* from the safe head that lastStoredBlock was last moved to up to lastStoredBlock.
\* Reorganisations, DA switches and restarts empty the manager and must take
\* lastStoredBlock back; the jump to a safe head ahead of it must not leave a hole.  It
\* says nothing of blocks above a safe head that has gone back since: they have been
\* submitted or were safe once, and the driver does not return to them.
NoBlockSkipped == ~closed => \A b \in (storedFrom + 1)..lastStored : M!Kept(b)

\* A transaction that a channel waits for is being worked on: it is with the main loop,
\* with a sender or with the receipt loop, unless sendTransaction has given it up.  So
\* no order of failures, group cancellations and receipts leaves frames pending.
PendingServed ==
    \A c \in channelQueue : \A fs \in ch[c].pending :
        \E r \in inflight :
            /\ r.tx = [ch |-> c, frames |-> fs]
            /\ \/ main \in {"send", "go"} /\ tx = r
               \/ \E s \in sends : s.r = r /\ s.stage = "sending"
               \/ \E s \in handling : s.r = r
               \/ r \in unsent

\* Somebody waits: a caller of StopBatchSubmitting, the closed channel manager for the
\* main loop to Clear it, the DA loop for its offer or the answer to be taken, or, after
\* the main loop has returned, a sender for the receipt loop to take its result.
Waiting ==
    \/ stop # "none"
    \/ main # "returned" /\ closed
    \/ da \in {"offer", "await"}
    \/ main = "returned" /\ sends # {}

\* The goroutines that a stop leaves behind: the DA loop at its offer, which the main
\* loop no longer receives and which does not look at economicDALoopDone, and senders of
\* a closed transaction manager, whose queue is not waited for.
LeftBehind ==
    /\ stop = "none" /\ main = "returned"
    /\ \/ da = "offer"
       \/ txClosed /\ sends # {}

\* Whatever the main loop is doing when they come and whoever waits for whom, stops, DA
\* switches and reorganisations are completed, the DA loop gets its answer and senders
\* hand over their results; only what a stop has left behind waits on.
WaitsEnd == []<>(~Waiting \/ LeftBehind)

\* The driver uses the channel manager as module ChannelManager takes it to be used: it
\* never adds a block to a closed manager, clears it only when it is closed or has no
\* block, switches the DA type right after that, and reports each transaction once, with
\* a block it can be included in.  What that module shows of the manager thus holds here.
ManagerSpec == M!Spec
=============================================================================
