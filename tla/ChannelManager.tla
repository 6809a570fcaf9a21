--------------------------- MODULE ChannelManager ---------------------------
(***************************************************************************)
(* The batcher's channel manager (op-batcher/batcher: channel_manager.go,  *)
(* channel.go, channel_builder.go, tx_data.go): it packs L2 blocks into    *)
(* channels, cuts channels into frames, hands frames out as transaction    *)
(* data and learns, in any order, which transactions made it to L1.        *)
(*                                                                         *)
(* Every public method of channelManager runs under one mutex, so each is  *)
(* one atomic action here.  What the compressor does with the bytes is     *)
(* data: when it fills up and how many frames it has ready is chosen       *)
(* nondeterministically.                                                   *)
(***************************************************************************)
EXTENDS Integers, Sequences, Functions

CONSTANTS
    MaxBlock,            \* L2 blocks are 1..MaxBlock; b+1 is the child of b
    L1Origin,            \* L1Origin[b]: number of the L1 origin of L2 block b
    VoltaBlock,          \* first L2 block of the Volta fork
    FourierBlock,        \* first L2 block of the Fourier fork
    SeqWindowSize,       \* ChannelConfig.SeqWindowSize
    ChannelTimeout,      \* ChannelConfig.ChannelTimeout
    MaxChannelDuration,  \* ChannelConfig.MaxChannelDuration, 0 = disabled
    SubSafetyMargin,     \* ChannelConfig.SubSafetyMargin
    TargetNumFrames,     \* ChannelConfig.TargetNumFrames
    MaxL1,               \* bound: highest L1 block number
    MaxChannels,         \* bound: channels created over a behaviour
    MaxFrames            \* bound: frames per channel

\* ChannelConfig.Check (ChannelTimeout >= SubSafetyMargin, TargetNumFrames >= 1),
\* and a sequencing window larger than the margin, so that no uint64 deadline wraps.
ASSUME ConfigAssumption ==
    /\ MaxBlock \in Nat /\ L1Origin \in [1..MaxBlock -> Nat]
    /\ VoltaBlock \in Nat /\ FourierBlock \in Nat
    /\ SeqWindowSize \in Nat /\ ChannelTimeout \in Nat
    /\ MaxChannelDuration \in Nat /\ SubSafetyMargin \in Nat
    /\ ChannelTimeout >= SubSafetyMargin /\ SeqWindowSize > SubSafetyMargin
    /\ TargetNumFrames \in Nat \ {0}
    /\ MaxL1 \in Nat \ {0} /\ MaxChannels \in Nat /\ MaxFrames \in Nat \ {0}

VARIABLES
    l1Head,           \* environment: the L1 tip the driver reads before TxData
    inflight,         \* environment: transactions given to the txmgr, unresolved
    blocks,           \* channelManager.blocks
    tip,              \* channelManager.tip, 0 for the zero hash
    l1OriginLastClosedChannel,
    currentChannel,   \* channel id, 0 for nil
    channelQueue,     \* ids in the queue; the code's slice is in id order
    txChannels,       \* keys of the txChannels map; a key names its channel
    closed, isVolta, isFourier,
    multiFrameTxs,    \* channelManager.cfg.MultiFrameTxs
    ch,               \* the channel objects
    nch,              \* channel objects created so far; ids are never reused
    base              \* history: first block added since the last Clear

mgrVars == <<blocks, tip, l1OriginLastClosedChannel, currentChannel, channelQueue,
             txChannels, closed, isVolta, isFourier, multiFrameTxs, ch, nch, base>>
vars == <<l1Head, inflight, mgrVars>>

ChannelId == 1..MaxChannels
Block == 1..MaxBlock
IsVolta(b) == b >= VoltaBlock
IsFourier(b) == b >= FourierBlock

(***************************************************************************)
(* A channel object: the channel with its ChannelBuilder.  A transaction's *)
(* data is the sequence of frame numbers it carries; with the channel id   *)
(* it is the txID that keys pendingTransactions and txChannels.  An entry  *)
(* of confirmed adds the L1 block that includes the transaction.           *)
(***************************************************************************)
TxId == [ch : ChannelId, frames : Seq(Nat)]

Channel == [blocks    : Seq(Block),
            full      : BOOLEAN,                \* fullErr # nil
            timeout   : Nat,                    \* 0 if unset
            frames    : Seq(Nat),               \* frames queue
            numFrames : Nat,
            pending   : SUBSET Seq(Nat),        \* pendingTransactions
            confirmed : SUBSET [frames : Seq(Nat), at : Nat],
            multiFrame : BOOLEAN]               \* the channel's copy of cfg

\* updateDurationTimeout on a new builder, counted from the last closed channel's origin.
DurationTimeoutBackwards ==
    IF MaxChannelDuration = 0 THEN 0 ELSE l1OriginLastClosedChannel - MaxChannelDuration
DurationTimeout ==
    IF MaxChannelDuration = 0 THEN 0 ELSE l1OriginLastClosedChannel + MaxChannelDuration

NewChannel ==
    [blocks |-> <<>>, full |-> FALSE, timeout |-> DurationTimeout, frames |-> <<>>,
     numFrames |-> 0, pending |-> {}, confirmed |-> {}, multiFrame |-> multiFrameTxs]

Unborn == [blocks |-> <<>>, full |-> FALSE, timeout |-> 0, frames |-> <<>>,
           numFrames |-> 0, pending |-> {}, confirmed |-> {}, multiFrame |-> FALSE]

\* The deadline FramePublished derives from an inclusion block, and
\* updateSwTimeout from the L1 origin of a block.
InclusionDeadline(n) == n + ChannelTimeout - SubSafetyMargin
SeqWindowDeadline(b) == L1Origin[b] + SeqWindowSize - SubSafetyMargin

\* updateTimeout over a set of new deadlines: t is the earliest of them and of the
\* timeout already set, if one is.
KeepsFirstTimeout(t, x, deadlines) ==
    IF x.timeout # 0 THEN t = x.timeout
    ELSE IF deadlines = {} THEN t = 0 ELSE t \in deadlines
UpdatedTimeout(t, x, deadlines) ==
    LET D == deadlines \cup (IF x.timeout = 0 THEN {} ELSE {x.timeout})
    IN  IF D = {} THEN t = 0 ELSE t \in D /\ \A d \in D : t <= d

\* channel.isTimedOut: the inclusion blocks of the channel span the channel timeout.
IsTimedOutLate(x) ==
    \E p, q \in x.confirmed : p.at - q.at > ChannelTimeout
IsTimedOut(x) ==
    \E p, q \in x.confirmed : p.at - q.at >= ChannelTimeout

\* channel.isFullySubmitted
IsFullySubmittedOpen(x) == x.pending = {} /\ x.frames = <<>>
IsFullySubmitted(x) == x.full /\ x.pending = {} /\ x.frames = <<>>

NoneSubmitted(x) == x.confirmed = {} /\ x.pending = {}

MaxFramesPerTx(x) == IF x.multiFrame THEN TargetNumFrames ELSE 1

\* channel.HasTxData: an open multi-frame channel waits until a transaction is full.
HasTxData(x) ==
    IF x.full \/ ~x.multiFrame THEN x.frames # <<>>
    ELSE Len(x.frames) >= MaxFramesPerTx(x)

\* The frames NextTxData takes from the front of the queue.
TxFrames(x) ==
    SubSeq(x.frames, 1, IF Len(x.frames) < MaxFramesPerTx(x) THEN Len(x.frames)
                        ELSE MaxFramesPerTx(x))

\* channel.NextTxData: the frames move to pendingTransactions.
NextTxData(x) ==
    [x EXCEPT !.frames = SubSeq(@, Len(TxFrames(x)) + 1, Len(@)),
              !.pending = @ \cup {TxFrames(x)}]

\* channel.TxFailed: the frames go back to the end of the queue.
RequeueFirst(x, fs) ==
    [x EXCEPT !.frames = Append(@, fs[1]), !.pending = @ \ {fs}]
Requeue(x, fs) ==
    [x EXCEPT !.frames = @ \o fs, !.pending = @ \ {fs}]

\* OutputFrames: m more frames; x is open before, full says whether it is closed now.
OutputFrames(x, m, full) ==
    [x EXCEPT !.full = full, !.numFrames = @ + m,
              !.frames = @ \o [i \in 1..m |-> x.numFrames + i - 1]]
\* closeAndOutputAllFrames emits at least the final frame, outputReadyFrames what is
\* ready; the bound leaves room for the final frame of an open channel.
FramesReady(x, m, full) ==
    IF full THEN m >= 1 /\ x.numFrames + m <= MaxFrames
    ELSE x.numFrames + m < MaxFrames

\* outputFrames: the latest L1 origin over the channel's blocks, once it is full.
UpdatedOrigin(o, x) ==
    LET O == {l1OriginLastClosedChannel} \cup {L1Origin[b] : b \in Range(x.blocks)}
    IN  IF x.full THEN o \in O /\ \A p \in O : p <= o
        ELSE o = l1OriginLastClosedChannel

-----------------------------------------------------------------------------
Init ==
    /\ l1Head = 1 /\ inflight = {}
    /\ blocks = <<>> /\ tip = 0 /\ l1OriginLastClosedChannel \in 0..1
    /\ currentChannel = 0 /\ channelQueue = {} /\ txChannels = {}
    /\ closed = FALSE /\ isVolta = FALSE /\ isFourier = FALSE
    /\ multiFrameTxs \in BOOLEAN
    /\ ch = [c \in ChannelId |-> Unborn] /\ nch = 0 /\ base = 0

\* L1 grows.
L1Advance == l1Head < MaxL1 /\ l1Head' = l1Head + 1 /\ UNCHANGED <<inflight, mgrVars>>

\* channelManager.AddL2Block.  A block that does not extend tip is refused with
\* ErrReorg and changes nothing.
AddL2Block(b) ==
    /\ L1Origin[b] <= l1Head
    /\ tip = 0 \/ tip = b - 1
    /\ isFourier' = (isFourier \/ (tip = 0 /\ IsFourier(b)))
    /\ isVolta' = (isVolta \/ (tip = 0 /\ (IsFourier(b) \/ IsVolta(b))))
    /\ blocks' = Append(blocks, b) /\ tip' = b
    /\ base' = IF tip = 0 THEN b ELSE base
    /\ UNCHANGED <<l1Head, inflight, l1OriginLastClosedChannel, currentChannel,
                   channelQueue, txChannels, closed, multiFrameTxs, ch, nch>>

\* nextTxData registers the transaction it hands out.
RegisterTx(tx) == txChannels \cup {tx}

\* nextTxData: channel c, whose state is x, hands out a transaction.
HandOut(c, x) ==
    LET tx == [ch |-> c, frames |-> TxFrames(x)]
    IN  /\ ch' = [ch EXCEPT ![c] = NextTxData(x)]
        /\ txChannels' = RegisterTx(tx)
        /\ inflight' = inflight \cup {[tx |-> tx, sent |-> l1Head]}

\* The end of TxData, when the current channel c has become x.
Emit(c, x) ==
    IF HasTxData(x) THEN HandOut(c, x)
    ELSE ch' = [ch EXCEPT ![c] = x] /\ UNCHANGED <<txChannels, inflight>>

WithTxData == {c \in channelQueue : HasTxData(ch[c])}

\* TxData when a channel of the queue has data: the first one hands it out.
TxDataPending ==
    /\ \E c \in WithTxData : (\A d \in WithTxData : c <= d) /\ HandOut(c, ch[c])
    /\ UNCHANGED <<l1Head, blocks, tip, l1OriginLastClosedChannel, currentChannel,
                   channelQueue, closed, isVolta, isFourier, multiFrameTxs, nch, base>>

\* processBlocks stops at the block after the first n: it is the first of a fork the
\* manager has not seen and the channel, x with those n blocks, is not empty.
ForkStop(x, n) ==
    /\ n < Len(blocks) /\ Len(x.blocks) + n > 0
    /\ \/ ~isFourier /\ IsFourier(blocks[n + 1])
       \/ ~isVolta /\ IsVolta(blocks[n + 1])

\* processBlocks takes the first n blocks into channel x and ends for reason stop:
\* the blocks are exhausted; the compressor took the last one and is full, or refused
\* the next one (never the first of a channel); or a fork begins.
ProcessBlocks(x, n, stop) ==
    /\ \A k \in 0..(n - 1) : ~ForkStop(x, k)
    /\ \/ stop = "exhausted" /\ n = Len(blocks)
       \/ stop = "full" /\ (n > 0 \/ (x.blocks # <<>> /\ ~ForkStop(x, 0)))
       \/ stop = "fork" /\ ForkStop(x, n)

\* What processBlocks leaves in s.blocks.
RemainingBlocks(n) == SubSeq(blocks, n + 1, Len(blocks))

\* TxData goes on to new blocks, if there are any and the manager is not closed.
CanAddBlocks == ~closed /\ blocks # <<>>

\* Channel x with the first n blocks added, timeout t and m more frames output.
Filled(x, n, t, m, full) ==
    OutputFrames([x EXCEPT !.blocks = @ \o SubSeq(blocks, 1, n), !.timeout = t], m, full)

\* processBlocks, registerL1Block, outputFrames and nextTxData on channel c with state x.
FillChannel(c, x) ==
    \E n \in 0..Len(blocks), stop \in {"exhausted", "full", "fork"} :
        /\ ProcessBlocks(x, n, stop)
        /\ \E t \in {SeqWindowDeadline(blocks[i]) : i \in 1..n} \cup {x.timeout},
              m \in 0..MaxFrames, full \in BOOLEAN, o \in 0..MaxL1 :
            /\ UpdatedTimeout(t, x, {SeqWindowDeadline(blocks[i]) : i \in 1..n})
            /\ full = (stop # "exhausted" \/ (t # 0 /\ l1Head >= t))
            /\ FramesReady(x, m, full)
            /\ UpdatedOrigin(o, Filled(x, n, t, m, full)) /\ l1OriginLastClosedChannel' = o
            /\ Emit(c, Filled(x, n, t, m, full))
        /\ isFourier' = (isFourier \/ (stop = "fork" /\ IsFourier(blocks[n + 1])))
        /\ isVolta' = (isVolta \/ stop = "fork")
        /\ blocks' = RemainingBlocks(n)

\* TxData when no channel has data.  ensureChannelWithSpace: the current channel is
\* filled further, or a new one is if there is none or it is full.
HasSpace == currentChannel # 0 /\ ~ch[currentChannel].full
TxDataNew ==
    /\ WithTxData = {} /\ CanAddBlocks
    /\ \/ /\ ~HasSpace
          /\ nch < MaxChannels /\ nch' = nch + 1
          /\ FillChannel(nch + 1, NewChannel)
          /\ currentChannel' = nch + 1 /\ channelQueue' = channelQueue \cup {nch + 1}
       \/ /\ HasSpace
          /\ FillChannel(currentChannel, ch[currentChannel])
          /\ UNCHANGED <<nch, currentChannel, channelQueue>>
    /\ UNCHANGED <<l1Head, tip, closed, multiFrameTxs, base>>

\* removePendingChannel
RemovePendingChannels(C) ==
    /\ channelQueue' = channelQueue \ C
    /\ currentChannel' = IF currentChannel \in C THEN 0 ELSE currentChannel

\* channelManager.TxFailed, from the receipt loop; r is an entry of inflight.  After a
\* Clear the transaction is unknown and only leaves inflight.
TxFailed(r) ==
    LET c == r.tx.ch  y == Requeue(ch[c], r.tx.frames)
    IN  /\ inflight' = inflight \ {r}
        /\ txChannels' = txChannels \ {r.tx}
        /\ IF r.tx \in txChannels
           THEN /\ ch' = [ch EXCEPT ![c] = y]
                /\ RemovePendingChannels(IF closed /\ NoneSubmitted(y) THEN {c} ELSE {})
           ELSE UNCHANGED <<ch, channelQueue, currentChannel>>
        /\ UNCHANGED <<l1Head, blocks, tip, l1OriginLastClosedChannel, closed, isVolta,
                       isFourier, multiFrameTxs, nch, base>>

\* channel.TxConfirmed: the transaction with frames fs is included in L1 block n; t is
\* the new timeout.
Confirm(x, fs, n, t) ==
    [x EXCEPT !.pending = @ \ {fs}, !.timeout = t,
              !.confirmed = @ \cup {[frames |-> fs, at |-> n]}]

\* What may be left of the blocks s of a channel that timed out before.  Then append
\* made s.blocks share their array; the slice is emptied in place by processBlocks and
\* AddL2Block writes later blocks over the array.
Overwritten(s) ==
    {t \in [DOMAIN s -> Block] : \A i \in DOMAIN s :
        t[i] = s[i] \/ (t[i] <= tip /\ \A j \in DOMAIN s : s[j] < t[i])}

\* What channelManager.TxConfirmed puts back in front of s.blocks: the blocks of the
\* channel c, now x, if it is timed out; c is not in the queue if it was before.
ReturnedBlocksNone(c, x) == {<<>>}
ReturnedBlocks(c, x) ==
    IF ~IsTimedOut(x) THEN {<<>>}
    ELSE IF c \in channelQueue THEN {x.blocks} ELSE Overwritten(x.blocks)

\* channelManager.TxConfirmed.  n may be as low as the L1 head the transaction was
\* sent at: L1 may replace that head by a block with the transaction in it.
TxConfirmed(r, n) ==
    LET c == r.tx.ch
    IN  /\ n \in r.sent..l1Head
        /\ inflight' = inflight \ {r}
        /\ txChannels' = txChannels \ {r.tx}
        /\ IF r.tx \in txChannels
           THEN \E t \in {InclusionDeadline(n), ch[c].timeout} :
                LET y == Confirm(ch[c], r.tx.frames, n, t)
                IN  /\ UpdatedTimeout(t, ch[c], {InclusionDeadline(n)})
                    /\ ch' = [ch EXCEPT ![c] = y]
                    /\ \E rb \in ReturnedBlocks(c, y) : blocks' = rb \o blocks
                    /\ RemovePendingChannels(
                         IF IsTimedOut(y) \/ IsFullySubmitted(y) THEN {c} ELSE {})
           ELSE UNCHANGED <<ch, blocks, channelQueue, currentChannel>>
        /\ UNCHANGED <<l1Head, tip, l1OriginLastClosedChannel, closed, isVolta,
                       isFourier, multiFrameTxs, nch, base>>

(***************************************************************************)
(* The loop of Close ranges over the slice header it started with while    *)
(* removePendingChannel shifts the same backing array, so the channel that *)
(* follows a removed one is passed over; the last array cell always keeps  *)
(* the last channel.  Hence, of the queue Q, a channel is in the removed   *)
(* set R iff nothing of it is submitted (it is in N) and either it is the  *)
(* last, or the one before it was not removed.  Module CloseLoop has the   *)
(* literal loop, and ChannelManagerProofs proves that this is its result.  *)
(***************************************************************************)
Swept(R, Q, N) ==
    \A c \in Q :
        c \in R <=> /\ c \in N
                    /\ \/ \A d \in Q : d <= c
                       \/ ~\E p \in R : p < c /\ ~\E d \in Q : p < d /\ d < c

\* channelManager.Close: drop what was never submitted, terminate the open channel
\* and output its last frames.
Close ==
    /\ ~closed /\ closed' = TRUE
    /\ \E R \in SUBSET channelQueue :
        /\ Swept(R, channelQueue, {c \in channelQueue : NoneSubmitted(ch[c])})
        /\ RemovePendingChannels(R)
        /\ LET c == IF currentChannel \in R THEN 0 ELSE currentChannel
           IN  IF c # 0 /\ ~ch[c].full
               THEN \E m \in 1..MaxFrames, o \in 0..MaxL1 :
                    LET y == OutputFrames(ch[c], m, TRUE)
                    IN  /\ FramesReady(ch[c], m, TRUE)
                        /\ ch' = [ch EXCEPT ![c] = y]
                        /\ UpdatedOrigin(o, y) /\ l1OriginLastClosedChannel' = o
               ELSE UNCHANGED <<ch, l1OriginLastClosedChannel>>
    /\ UNCHANGED <<l1Head, inflight, blocks, tip, txChannels, isVolta, isFourier,
                   multiFrameTxs, nch, base>>

\* channelManager.Clear, with the L1 origin o of the safe head (or none); receipts may
\* still be on their way.
Clear(o) ==
    /\ closed' = FALSE
    /\ blocks' = <<>> /\ tip' = 0 /\ l1OriginLastClosedChannel' = o
    /\ currentChannel' = 0 /\ channelQueue' = {} /\ txChannels' = {}
    /\ ch' = [c \in ChannelId |-> Unborn] /\ base' = 0
    /\ UNCHANGED <<l1Head, inflight, isVolta, isFourier, multiFrameTxs, nch>>

\* channelManager.SwitchDAType, to blobs (TRUE) or calldata.
SwitchDAType(blobs) ==
    /\ multiFrameTxs' = blobs
    /\ UNCHANGED <<l1Head, inflight, blocks, tip, l1OriginLastClosedChannel,
                   currentChannel, channelQueue, txChannels, closed, isVolta, isFourier,
                   ch, nch, base>>

TxData == TxDataPending \/ TxDataNew

\* How the driver calls the manager (module BatchSubmitter shows that it does): it adds
\* no block to a closed manager, clears a closed one or one without a block, and switches
\* the type right after Clear.
Clearable == closed \/ tip = 0
Cleared == tip = 0 /\ channelQueue = {} /\ ~closed

Next ==
    \/ L1Advance
    \/ ~closed /\ \E b \in Block : AddL2Block(b)
    \/ TxData
    \/ \E r \in inflight : TxFailed(r)
    \/ \E r \in inflight, n \in 1..MaxL1 : TxConfirmed(r, n)
    \/ Close
    \/ Clearable /\ \E o \in 0..l1Head : Clear(o)
    \/ Cleared /\ \E blobs \in BOOLEAN : SwitchDAType(blobs)

Spec == Init /\ [][Next]_vars

-----------------------------------------------------------------------------
(* Properties. *)

\* The variables have their types; the deadlines that updateTimeout keeps never become
\* negative.
TypeOK ==
    /\ l1Head \in 1..MaxL1
    /\ inflight \in SUBSET [tx : TxId, sent : 1..MaxL1]
    /\ blocks \in Seq(Block)
    /\ tip \in 0..MaxBlock /\ base \in 0..MaxBlock
    /\ l1OriginLastClosedChannel \in 0..MaxL1
    /\ currentChannel \in 0..MaxChannels
    /\ channelQueue \in SUBSET ChannelId
    /\ txChannels \in SUBSET TxId
    /\ closed \in BOOLEAN /\ isVolta \in BOOLEAN /\ isFourier \in BOOLEAN
    /\ multiFrameTxs \in BOOLEAN
    /\ ch \in [ChannelId -> Channel]
    /\ nch \in 0..MaxChannels

\* Where the frames of channel x are: in its queue, in a pending or in a confirmed transaction.
InQueue(fs) == [kind |-> "queue", frames |-> fs, at |-> 0]
InPending(fs) == [kind |-> "pending", frames |-> fs, at |-> 0]
InConfirmed(r) == [kind |-> "confirmed", frames |-> r.frames, at |-> r.at]
Places(x) ==
    {InQueue(x.frames)} \cup {InPending(fs) : fs \in x.pending}
        \cup {InConfirmed(r) : r \in x.confirmed}

\* The places P hold each of the frames 0..(n-1) once, and no other.
EachOnce(P, n) ==
    /\ \A f \in 0..(n - 1) : \E p \in P : \E i \in DOMAIN p.frames : p.frames[i] = f
    /\ \A p \in P : \A i \in DOMAIN p.frames :
          /\ p.frames[i] < n
          /\ \A q \in P : \A j \in DOMAIN q.frames :
                q.frames[j] = p.frames[i] => q = p /\ j = i

\* A channel in the queue knows where each of its frames is: every frame that was
\* output is in exactly one place, the frames queue, one pending transaction or one
\* confirmed transaction, however often transactions fail and are sent again.
FramesOnce == \A c \in channelQueue : EachOnce(Places(ch[c]), ch[c].numFrames)

\* Channel c is on L1 in a form derivation accepts: closed, every frame confirmed,
\* all within the channel timeout.
Delivered(c) ==
    /\ ch[c].full /\ ch[c].frames = <<>> /\ ch[c].pending = {}
    /\ ch[c].confirmed # {}
    /\ \A p, q \in ch[c].confirmed : p.at - q.at < ChannelTimeout

\* Block b is waiting in s.blocks, or is in a channel of the queue, or is delivered.
Kept(b) ==
    \/ \E i \in DOMAIN blocks : blocks[i] = b
    \/ \E c \in ChannelId : /\ \E i \in DOMAIN ch[c].blocks : ch[c].blocks[i] = b
                            /\ c \in channelQueue \/ Delivered(c)

\* No L2 block is lost: until the manager is closed, every block added since the last
\* Clear is kept.  Channels leave the queue on timeout and on full submission; this
\* says that neither loses data, whatever the order of receipts.
NoBlockLost == ~closed /\ tip # 0 => \A b \in base..tip : Kept(b)

\* The timeout of a queued channel respects every deadline it has met: the sequencing
\* window of each block in it and the channel timeout counted from each inclusion, less
\* the safety margin (updateTimeout keeps the earliest).
TimeoutEarliest ==
    \A c \in channelQueue :
        /\ \A i \in DOMAIN ch[c].blocks :
              ch[c].timeout # 0 /\ ch[c].timeout <= SeqWindowDeadline(ch[c].blocks[i])
        /\ \A r \in ch[c].confirmed :
              ch[c].timeout # 0 /\ ch[c].timeout <= r.at + ChannelTimeout - SubSafetyMargin

\* A channel leaves the queue for one of four reasons only: it is delivered, its
\* inclusions span the channel timeout, a close found nothing of it submitted, or the
\* whole manager is cleared.
RemovalJustified ==
    [][\A c \in channelQueue \ channelQueue' :
          \/ Delivered(c)'
          \/ IsTimedOut(ch'[c])
          \/ closed' /\ NoneSubmitted(ch'[c])
          \/ closed /\ ~closed']_vars

\* The blocks in s.blocks and in the channels of the queue, and those that are on L1.
Held == Range(blocks) \cup UNION {Range(ch[c].blocks) : c \in channelQueue}
OnL1 == UNION {Range(ch[c].blocks) : c \in {d \in ChannelId : Delivered(d)}}

Delivery == INSTANCE BlockDelivery
    WITH open <- ~closed, first <- base, last <- tip, held <- Held, delivered <- OnL1

\* The manager implements BlockDelivery: it takes blocks in order, no step lets go of a
\* block that is not on L1 and no step takes a block back from L1, whatever channels time
\* out, fail or confirm late.
BlocksDelivered == Delivery!Spec

-----------------------------------------------------------------------------
(* What comments of the code say and the code does not keep. *)

\* channel_manager.go:419 "Close clears any pending channels that are not in-flight
\* already, to leave a clean derivation state."
CloseDropsUnsubmitted ==
    closed => \A c \in channelQueue : ~NoneSubmitted(ch[c])
=============================================================================
