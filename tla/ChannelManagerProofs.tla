------------------------ MODULE ChannelManagerProofs ------------------------
(***************************************************************************)
(* Theorems about ChannelManager, for every value of its constants: its    *)
(* types, that no block is lost, that what is pending is in flight, that   *)
(* it implements BlockDelivery, and what happens to its channels: their    *)
(* frames are accounted for, their deadlines kept, and they leave the      *)
(* queue for a reason.  The last section is about the loop of Close.       *)
(***************************************************************************)
EXTENDS CloseLoop, SequenceTheorems, DataProofs

-----------------------------------------------------------------------------
(* What the operations on a channel object return. *)

\* NextTxData takes a transaction's worth of frames and leaves the blocks alone.
LEMMA NextTxDataType ==
    ASSUME NEW x \in Channel
    PROVE  /\ NextTxData(x) \in Channel
           /\ NextTxData(x).blocks = x.blocks
           /\ NextTxData(x).pending = x.pending \cup {TxFrames(x)}
           /\ TxFrames(x) \in Seq(Nat)
<1> DEFINE k == IF Len(x.frames) < MaxFramesPerTx(x) THEN Len(x.frames)
                ELSE MaxFramesPerTx(x)
<1>1. x.frames \in Seq(Nat) /\ Len(x.frames) \in Nat
  BY DEF Channel
<1>2. MaxFramesPerTx(x) \in Nat
  BY ConfigAssumption DEF MaxFramesPerTx
<1>3. k \in 0..Len(x.frames)
  BY <1>1, <1>2
<1>4. TxFrames(x) \in Seq(Nat) /\ Len(TxFrames(x)) \in Nat
  <2>1. \A i \in 1..k : x.frames[i] \in Nat
    BY <1>1, <1>3
  <2>2. SubSeq(x.frames, 1, k) \in Seq(Nat)
    BY <2>1, <1>3, SubSeqProperties
  <2> QED
    BY <2>2 DEF TxFrames
<1>5. SubSeq(x.frames, Len(TxFrames(x)) + 1, Len(x.frames)) \in Seq(Nat)
  <2>1. \A i \in (Len(TxFrames(x)) + 1)..Len(x.frames) : x.frames[i] \in Nat
    BY <1>1, <1>4
  <2> QED
    BY <2>1, <1>1, <1>4, SubSeqProperties
<1> QED
  BY <1>4, <1>5 DEF NextTxData, Channel

\* Requeue returns the frames of a failed transaction to the queue.
LEMMA RequeueType ==
    ASSUME NEW x \in Channel, NEW fs \in Seq(Nat)
    PROVE  /\ Requeue(x, fs) \in Channel
           /\ Requeue(x, fs).blocks = x.blocks
           /\ Requeue(x, fs).pending = x.pending \ {fs}
<1>1. x.frames \o fs \in Seq(Nat)
  BY ConcatProperties DEF Channel
<1> QED
  BY <1>1 DEF Requeue, Channel

\* OutputFrames adds frames and leaves blocks and transactions alone.
LEMMA OutputFramesType ==
    ASSUME NEW x \in Channel, NEW m \in Nat, NEW full \in BOOLEAN
    PROVE  /\ OutputFrames(x, m, full) \in Channel
           /\ OutputFrames(x, m, full).blocks = x.blocks
           /\ OutputFrames(x, m, full).pending = x.pending
<1>1. [i \in 1..m |-> x.numFrames + i - 1] \in Seq(Nat)
  <2>1. \A i \in 1..m : x.numFrames + i - 1 \in Nat
    BY DEF Channel
  <2> QED
    BY <2>1
<1> DEFINE g == x.frames \o [i \in 1..m |-> x.numFrames + i - 1]
<1>2. g \in Seq(Nat)
  BY <1>1, ConcatProperties DEF Channel
<1>3. x.numFrames + m \in Nat
  BY DEF Channel
<1>4. OutputFrames(x, m, full) =
        [x EXCEPT !.full = full, !.numFrames = x.numFrames + m, !.frames = g]
  BY DEF OutputFrames
<1> HIDE DEF g
<1> QED
  BY <1>2, <1>3, <1>4 DEF Channel

\* Confirm records an inclusion.
LEMMA ConfirmType ==
    ASSUME NEW x \in Channel, NEW fs \in Seq(Nat), NEW n \in Nat, NEW t \in Nat
    PROVE  /\ Confirm(x, fs, n, t) \in Channel
           /\ Confirm(x, fs, n, t).blocks = x.blocks
           /\ Confirm(x, fs, n, t).frames = x.frames
           /\ Confirm(x, fs, n, t).full = x.full
           /\ Confirm(x, fs, n, t).pending = x.pending \ {fs}
           /\ Confirm(x, fs, n, t).confirmed
                = x.confirmed \cup {[frames |-> fs, at |-> n]}
<1> DEFINE C == x.confirmed \cup {[frames |-> fs, at |-> n]}
<1>1. C \in SUBSET [frames : Seq(Nat), at : Nat]
  BY DEF Channel
<1>2. Confirm(x, fs, n, t) =
        [x EXCEPT !.pending = x.pending \ {fs}, !.timeout = t, !.confirmed = C]
  BY DEF Confirm
<1> HIDE DEF C
<1>3. /\ Confirm(x, fs, n, t) \in Channel
      /\ Confirm(x, fs, n, t).blocks = x.blocks
      /\ Confirm(x, fs, n, t).frames = x.frames
      /\ Confirm(x, fs, n, t).full = x.full
      /\ Confirm(x, fs, n, t).pending = x.pending \ {fs}
      /\ Confirm(x, fs, n, t).confirmed = C
  BY <1>1, <1>2 DEF Channel
<1> QED
  BY <1>3 DEF C

\* The first n and the remaining blocks of s.blocks.
LEMMA BlocksSplit ==
    ASSUME TypeOK, NEW n \in 0..Len(blocks)
    PROVE  /\ SubSeq(blocks, 1, n) \in Seq(Block)
           /\ RemainingBlocks(n) \in Seq(Block)
           /\ Len(SubSeq(blocks, 1, n)) = n
           /\ Len(RemainingBlocks(n)) = Len(blocks) - n
           /\ \A i \in 1..n : SubSeq(blocks, 1, n)[i] = blocks[i]
           /\ \A i \in 1..(Len(blocks) - n) : RemainingBlocks(n)[i] = blocks[n + i]
<1>1. blocks \in Seq(Block) /\ Len(blocks) \in Nat
  BY DEF TypeOK
<1>2. \A i \in 1..Len(blocks) : blocks[i] \in Block
  BY <1>1
<1>3. /\ SubSeq(blocks, 1, n) \in Seq(Block)
      /\ Len(SubSeq(blocks, 1, n)) = IF 1 <= n THEN n - 1 + 1 ELSE 0
      /\ \A i \in 1..(n - 1 + 1) : SubSeq(blocks, 1, n)[i] = blocks[1 + i - 1]
  <2>1. \A i \in 1..n : blocks[i] \in Block
    BY <1>1, <1>2
  <2> QED
    BY <2>1, SubSeqProperties
<1>4. /\ RemainingBlocks(n) \in Seq(Block)
      /\ Len(RemainingBlocks(n)) = IF n + 1 <= Len(blocks) THEN Len(blocks) - (n + 1) + 1 ELSE 0
      /\ \A i \in 1..(Len(blocks) - (n + 1) + 1) :
            RemainingBlocks(n)[i] = blocks[n + 1 + i - 1]
  <2>1. \A i \in (n + 1)..Len(blocks) : blocks[i] \in Block
    BY <1>1, <1>2
  <2>2. n + 1 \in Int /\ Len(blocks) \in Int
    BY <1>1
  <2> QED
    BY <2>1, <2>2, SubSeqProperties DEF RemainingBlocks
<1>5. /\ Len(SubSeq(blocks, 1, n)) = n
      /\ Len(RemainingBlocks(n)) = Len(blocks) - n
  BY <1>1, <1>3, <1>4
<1>6. \A i \in 1..n : SubSeq(blocks, 1, n)[i] = blocks[i]
  <2> SUFFICES ASSUME NEW i \in 1..n PROVE SubSeq(blocks, 1, n)[i] = blocks[i]
    OBVIOUS
  <2>1. i \in 1..(n - 1 + 1) /\ 1 + i - 1 = i
    OBVIOUS
  <2> QED
    BY <1>3, <2>1
<1>7. \A i \in 1..(Len(blocks) - n) : RemainingBlocks(n)[i] = blocks[n + i]
  <2> SUFFICES ASSUME NEW i \in 1..(Len(blocks) - n)
               PROVE  RemainingBlocks(n)[i] = blocks[n + i]
    OBVIOUS
  <2>1. i \in 1..(Len(blocks) - (n + 1) + 1) /\ n + 1 + i - 1 = n + i
    BY <1>1
  <2> QED
    BY <1>4, <2>1
<1> QED
  BY <1>3, <1>4, <1>5, <1>6, <1>7

-----------------------------------------------------------------------------
(* Type correctness. *)

\* HandOut keeps the types of what it changes.
LEMMA HandOutType ==
    ASSUME TypeOK, NEW c \in ChannelId, NEW x \in Channel, HandOut(c, x)
    PROVE  /\ ch' \in [ChannelId -> Channel]
           /\ txChannels' \in SUBSET TxId
           /\ inflight' \in SUBSET [tx : TxId, sent : 1..MaxL1]
<1> DEFINE tx == [ch |-> c, frames |-> TxFrames(x)]
<1>1. NextTxData(x) \in Channel /\ tx \in TxId
  BY NextTxDataType DEF TxId
<1>2. [tx |-> tx, sent |-> l1Head] \in [tx : TxId, sent : 1..MaxL1]
  BY <1>1 DEF TypeOK
<1> QED
  BY <1>1, <1>2 DEF TypeOK, HandOut, RegisterTx

\* A channel that takes blocks and outputs frames stays a channel.
Takes(x, y, n) == y.blocks = x.blocks \o SubSeq(blocks, 1, n) /\ y.pending = x.pending

LEMMA FilledType ==
    ASSUME TypeOK, NEW x \in Channel, NEW n \in 0..Len(blocks),
           NEW t \in Nat, NEW m \in Nat, NEW full \in BOOLEAN
    PROVE  /\ Filled(x, n, t, m, full) \in Channel
           /\ Takes(x, Filled(x, n, t, m, full), n)
<1> DEFINE bs == x.blocks \o SubSeq(blocks, 1, n)
           z == [x EXCEPT !.blocks = bs, !.timeout = t]
<1>1. bs \in Seq(Block)
  <2>1. x.blocks \in Seq(Block)
    BY DEF Channel
  <2> QED
    BY <2>1, BlocksSplit, ConcatProperties
<1> HIDE DEF bs
<1>2. z \in Channel /\ z.blocks = bs /\ z.pending = x.pending
  BY <1>1 DEF Channel
<1> HIDE DEF z
<1>3. /\ OutputFrames(z, m, full) \in Channel
      /\ OutputFrames(z, m, full).blocks = bs
      /\ OutputFrames(z, m, full).pending = x.pending
  BY <1>2, OutputFramesType
<1> QED
  BY <1>3 DEF z, bs, Filled, Takes

\* The deadlines are natural numbers: the safety margin is at most the timeout and
\* less than the sequencing window.
LEMMA DeadlineType ==
    /\ \A n \in Nat : InclusionDeadline(n) \in Nat
    /\ \A b \in Block : SeqWindowDeadline(b) \in Nat
  BY ConfigAssumption DEF InclusionDeadline, SeqWindowDeadline, Block

LEMMA NewChannelType ==
    ASSUME TypeOK
    PROVE  /\ NewChannel \in Channel
           /\ NewChannel.blocks = <<>> /\ NewChannel.pending = {}
           /\ Unborn \in Channel
           /\ Unborn.blocks = <<>> /\ Unborn.pending = {}
<1>1. DurationTimeout \in Nat
  BY ConfigAssumption DEF TypeOK, DurationTimeout
<1>2. multiFrameTxs \in BOOLEAN
  BY DEF TypeOK
<1> QED
  BY <1>1, <1>2 DEF NewChannel, Unborn, Channel

\* What FillChannel does: the channel's state x becomes y, with the first n blocks
\* added, and may then hand out a transaction.
LEMMA FillChannelEffect ==
    ASSUME TypeOK, NEW c \in ChannelId, NEW x \in Channel, FillChannel(c, x)
    PROVE  /\ \E y \in Channel, n \in 0..Len(blocks) :
                /\ y.blocks = x.blocks \o SubSeq(blocks, 1, n) /\ y.pending = x.pending
                /\ Emit(c, y)
                /\ blocks' = RemainingBlocks(n)
           /\ isVolta' \in BOOLEAN /\ isFourier' \in BOOLEAN
           /\ l1OriginLastClosedChannel' \in 0..MaxL1
<1>1. PICK n \in 0..Len(blocks), stop \in {"exhausted", "full", "fork"} :
         /\ ProcessBlocks(x, n, stop)
         /\ \E t \in {SeqWindowDeadline(blocks[i]) : i \in 1..n} \cup {x.timeout},
               m \in 0..MaxFrames, full \in BOOLEAN, o \in 0..MaxL1 :
             /\ UpdatedTimeout(t, x, {SeqWindowDeadline(blocks[i]) : i \in 1..n})
             /\ full = (stop # "exhausted" \/ (t # 0 /\ l1Head >= t))
             /\ FramesReady(x, m, full)
             /\ UpdatedOrigin(o, Filled(x, n, t, m, full)) /\ l1OriginLastClosedChannel' = o
             /\ Emit(c, Filled(x, n, t, m, full))
         /\ isFourier' = (isFourier \/ (stop = "fork" /\ IsFourier(blocks[n + 1])))
         /\ isVolta' = (isVolta \/ stop = "fork")
         /\ blocks' = RemainingBlocks(n)
  BY DEF FillChannel
<1>2. PICK t \in {SeqWindowDeadline(blocks[i]) : i \in 1..n} \cup {x.timeout},
           m \in 0..MaxFrames, full \in BOOLEAN, o \in 0..MaxL1 :
             /\ UpdatedTimeout(t, x, {SeqWindowDeadline(blocks[i]) : i \in 1..n})
             /\ full = (stop # "exhausted" \/ (t # 0 /\ l1Head >= t))
             /\ FramesReady(x, m, full)
             /\ UpdatedOrigin(o, Filled(x, n, t, m, full)) /\ l1OriginLastClosedChannel' = o
             /\ Emit(c, Filled(x, n, t, m, full))
  BY <1>1
<1>3. t \in Nat
  <2>1. \A i \in 1..n : blocks[i] \in Block
    BY DEF TypeOK
  <2>2. x.timeout \in Nat
    BY DEF Channel
  <2> QED
    BY <2>1, <2>2, DeadlineType
<1>4. m \in Nat
  BY ConfigAssumption
<1>5. Filled(x, n, t, m, full) \in Channel /\ Takes(x, Filled(x, n, t, m, full), n)
  BY <1>3, <1>4, FilledType
<1>6. \E y \in Channel :
         /\ y.blocks = x.blocks \o SubSeq(blocks, 1, n) /\ y.pending = x.pending
         /\ Emit(c, y)
  BY <1>2, <1>5 DEF Takes
<1>7. isVolta' \in BOOLEAN /\ isFourier' \in BOOLEAN
  BY <1>1
<1> QED
  BY <1>1, <1>2, <1>6, <1>7

\* What TxDataNew does, the channel it works on being c with state x.
LEMMA TxDataNewEffect ==
    ASSUME TypeOK, TxDataNew
    PROVE  \E c \in ChannelId, x \in Channel :
              /\ \/ /\ c = nch + 1 /\ x = NewChannel /\ nch' = nch + 1
                    /\ currentChannel' = c /\ channelQueue' = channelQueue \cup {c}
                 \/ /\ c = currentChannel /\ x = ch[c]
                    /\ UNCHANGED <<nch, currentChannel, channelQueue>>
              /\ FillChannel(c, x)
              /\ ~closed /\ UNCHANGED <<l1Head, tip, closed, multiFrameTxs, base>>
<1>1. ~closed /\ UNCHANGED <<l1Head, tip, closed, multiFrameTxs, base>>
  BY DEF TxDataNew, CanAddBlocks
<1>2. CASE /\ nch < MaxChannels /\ nch' = nch + 1
           /\ FillChannel(nch + 1, NewChannel)
           /\ currentChannel' = nch + 1 /\ channelQueue' = channelQueue \cup {nch + 1}
  <2>1. nch + 1 \in ChannelId /\ NewChannel \in Channel
    BY <1>2, NewChannelType, ConfigAssumption DEF TypeOK, ChannelId
  <2> QED
    BY <1>1, <1>2, <2>1
<1>3. CASE /\ HasSpace /\ FillChannel(currentChannel, ch[currentChannel])
           /\ UNCHANGED <<nch, currentChannel, channelQueue>>
  <2>1. currentChannel \in ChannelId /\ ch[currentChannel] \in Channel
    BY <1>3, ConfigAssumption DEF TypeOK, ChannelId, HasSpace
  <2> QED
    BY <1>1, <1>3, <2>1
<1> QED
  BY <1>2, <1>3 DEF TxDataNew

\* Emit keeps the types of what it changes.
LEMMA EmitType ==
    ASSUME TypeOK, NEW c \in ChannelId, NEW x \in Channel, Emit(c, x)
    PROVE  /\ ch' \in [ChannelId -> Channel]
           /\ txChannels' \in SUBSET TxId
           /\ inflight' \in SUBSET [tx : TxId, sent : 1..MaxL1]
<1>1. CASE HandOut(c, x)
  BY <1>1, HandOutType
<1>2. CASE ch' = [ch EXCEPT ![c] = x] /\ UNCHANGED <<txChannels, inflight>>
  BY <1>2 DEF TypeOK
<1> QED
  BY <1>1, <1>2 DEF Emit

LEMMA AddL2BlockType ==
    ASSUME TypeOK, NEW b \in Block, AddL2Block(b)
    PROVE  TypeOK'
<1>1. blocks' \in Seq(Block)
  BY DEF TypeOK, AddL2Block
<1>2. tip' \in 0..MaxBlock /\ base' \in 0..MaxBlock
  BY ConfigAssumption DEF TypeOK, AddL2Block, Block
<1>3. isVolta' \in BOOLEAN /\ isFourier' \in BOOLEAN
  BY DEF AddL2Block
<1> QED
  BY <1>1, <1>2, <1>3 DEF TypeOK, AddL2Block

LEMMA TxDataPendingType ==
    ASSUME TypeOK, TxDataPending
    PROVE  TypeOK'
<1>1. PICK c \in WithTxData : HandOut(c, ch[c])
  BY DEF TxDataPending
<1>2. c \in ChannelId /\ ch[c] \in Channel
  BY <1>1 DEF TypeOK, WithTxData
<1>3. /\ ch' \in [ChannelId -> Channel]
      /\ txChannels' \in SUBSET TxId
      /\ inflight' \in SUBSET [tx : TxId, sent : 1..MaxL1]
  BY <1>1, <1>2, HandOutType
<1> QED
  BY <1>3 DEF TypeOK, TxDataPending

LEMMA TxDataNewType ==
    ASSUME TypeOK, TxDataNew
    PROVE  TypeOK'
<1>1. PICK c \in ChannelId, x \in Channel :
         /\ \/ /\ c = nch + 1 /\ x = NewChannel /\ nch' = nch + 1
               /\ currentChannel' = c /\ channelQueue' = channelQueue \cup {c}
            \/ /\ c = currentChannel /\ x = ch[c]
               /\ UNCHANGED <<nch, currentChannel, channelQueue>>
         /\ FillChannel(c, x)
         /\ ~closed /\ UNCHANGED <<l1Head, tip, closed, multiFrameTxs, base>>
  BY TxDataNewEffect
<1>2. PICK y \in Channel, n \in 0..Len(blocks) :
         /\ y.blocks = x.blocks \o SubSeq(blocks, 1, n) /\ y.pending = x.pending
         /\ Emit(c, y)
         /\ blocks' = RemainingBlocks(n)
  BY <1>1, FillChannelEffect
<1>3. /\ isVolta' \in BOOLEAN /\ isFourier' \in BOOLEAN
      /\ l1OriginLastClosedChannel' \in 0..MaxL1
  BY <1>1, FillChannelEffect
<1>4. /\ ch' \in [ChannelId -> Channel]
      /\ txChannels' \in SUBSET TxId
      /\ inflight' \in SUBSET [tx : TxId, sent : 1..MaxL1]
  BY <1>2, EmitType
<1>5. blocks' \in Seq(Block)
  BY <1>2, BlocksSplit
<1>6. /\ nch' \in 0..MaxChannels /\ currentChannel' \in 0..MaxChannels
      /\ channelQueue' \in SUBSET ChannelId
  <2>1. c \in 1..MaxChannels /\ MaxChannels \in Nat
    BY ConfigAssumption DEF ChannelId
  <2>2. /\ nch \in 0..MaxChannels /\ currentChannel \in 0..MaxChannels
        /\ channelQueue \in SUBSET ChannelId
    BY DEF TypeOK
  <2>3. CASE /\ c = nch + 1 /\ nch' = nch + 1
             /\ currentChannel' = c /\ channelQueue' = channelQueue \cup {c}
    BY <2>1, <2>2, <2>3
  <2>4. CASE UNCHANGED <<nch, currentChannel, channelQueue>>
    BY <2>2, <2>4
  <2> QED
    BY <1>1, <2>3, <2>4
<1> QED
  BY <1>1, <1>3, <1>4, <1>5, <1>6 DEF TypeOK

\* Removing channels from the queue.
LEMMA RemoveType ==
    ASSUME TypeOK, NEW C, RemovePendingChannels(C)
    PROVE  currentChannel' \in 0..MaxChannels /\ channelQueue' \in SUBSET ChannelId
  BY ConfigAssumption DEF TypeOK, RemovePendingChannels

LEMMA TxFailedType ==
    ASSUME TypeOK, NEW r \in inflight, TxFailed(r)
    PROVE  TypeOK'
<1>1. r.tx \in TxId /\ r.tx.ch \in ChannelId /\ r.tx.frames \in Seq(Nat)
  BY DEF TypeOK, TxId
<1>2. Requeue(ch[r.tx.ch], r.tx.frames) \in Channel
  BY <1>1, RequeueType DEF TypeOK
<1>3. ch' \in [ChannelId -> Channel]
  BY <1>1, <1>2 DEF TypeOK, TxFailed
<1>4. currentChannel' \in 0..MaxChannels /\ channelQueue' \in SUBSET ChannelId
  BY RemoveType DEF TypeOK, TxFailed
<1>5. /\ txChannels' \in SUBSET TxId
      /\ inflight' \in SUBSET [tx : TxId, sent : 1..MaxL1]
  BY DEF TypeOK, TxFailed
<1> QED
  BY <1>3, <1>4, <1>5 DEF TypeOK, TxFailed

\* What TxConfirmed puts back are blocks.
LEMMA ReturnedType ==
    ASSUME NEW c, NEW x \in Channel, NEW q \in ReturnedBlocks(c, x)
    PROVE  q \in Seq(Block)
<1>1. x.blocks \in Seq(Block) /\ DOMAIN x.blocks = 1..Len(x.blocks) /\ Len(x.blocks) \in Nat
  BY DEF Channel
<1>2. ASSUME q \in Overwritten(x.blocks) PROVE q \in Seq(Block)
  BY <1>1, <1>2 DEF Overwritten
<1>3. q = <<>> \/ q = x.blocks \/ q \in Overwritten(x.blocks)
  BY Zenon DEF ReturnedBlocks
<1>4. <<>> \in Seq(Block)
  OBVIOUS
<1> QED
  BY <1>1, <1>2, <1>3, <1>4, Zenon

LEMMA TxConfirmedType ==
    ASSUME TypeOK, NEW r \in inflight, NEW n \in 1..MaxL1, TxConfirmed(r, n)
    PROVE  TypeOK'
<1> DEFINE c == r.tx.ch
           y(t) == Confirm(ch[c], r.tx.frames, n, t)
<1>1. r.tx \in TxId /\ c \in ChannelId /\ r.tx.frames \in Seq(Nat)
  BY DEF TypeOK, TxId
<1>2. /\ txChannels' \in SUBSET TxId
      /\ inflight' \in SUBSET [tx : TxId, sent : 1..MaxL1]
  BY DEF TypeOK, TxConfirmed
<1>3. CASE r.tx \in txChannels
  <2>1. PICK t \in {InclusionDeadline(n), ch[c].timeout} :
           /\ ch' = [ch EXCEPT ![c] = y(t)]
           /\ \E q \in ReturnedBlocks(c, y(t)) : blocks' = q \o blocks
           /\ RemovePendingChannels(
                IF IsTimedOut(y(t)) \/ IsFullySubmitted(y(t)) THEN {c} ELSE {})
    BY <1>3 DEF TxConfirmed
  <2>2. ch[c] \in Channel /\ t \in Nat /\ n \in Nat
    <3>1. ch[c] \in Channel
      BY <1>1 DEF TypeOK
    <3>2. ch[c].timeout \in Nat
      BY <3>1 DEF Channel
    <3>3. n \in Nat
      BY ConfigAssumption
    <3>4. InclusionDeadline(n) \in Nat
      BY <3>3, DeadlineType
    <3> QED
      BY <3>1, <3>2, <3>3, <3>4
  <2>3. y(t) \in Channel /\ y(t).blocks \in Seq(Block)
    BY <1>1, <2>2, ConfirmType DEF Channel
  <2> HIDE DEF y
  <2>4. PICK q \in ReturnedBlocks(c, y(t)) : blocks' = q \o blocks
    BY <2>1
  <2>5. blocks' \in Seq(Block)
    <3>1. q \in Seq(Block)
      BY <2>3, ReturnedType
    <3> QED
      BY <2>4, <3>1, ConcatProperties DEF TypeOK
  <2>6. ch' \in [ChannelId -> Channel]
    BY <2>1, <2>3, <1>1 DEF TypeOK
  <2>7. currentChannel' \in 0..MaxChannels /\ channelQueue' \in SUBSET ChannelId
    BY <2>1, RemoveType
  <2> QED
    BY <1>2, <2>5, <2>6, <2>7 DEF TypeOK, TxConfirmed
<1>4. CASE r.tx \notin txChannels
  BY <1>2, <1>4 DEF TypeOK, TxConfirmed
<1> QED
  BY <1>3, <1>4

LEMMA CloseType ==
    ASSUME TypeOK, Close
    PROVE  TypeOK'
<1>1. PICK R \in SUBSET channelQueue :
        /\ RemovePendingChannels(R)
        /\ LET c == IF currentChannel \in R THEN 0 ELSE currentChannel
           IN  IF c # 0 /\ ~ch[c].full
               THEN \E m \in 1..MaxFrames, o \in 0..MaxL1 :
                    LET y == OutputFrames(ch[c], m, TRUE)
                    IN  /\ FramesReady(ch[c], m, TRUE)
                        /\ ch' = [ch EXCEPT ![c] = y]
                        /\ UpdatedOrigin(o, y) /\ l1OriginLastClosedChannel' = o
               ELSE UNCHANGED <<ch, l1OriginLastClosedChannel>>
  BY DEF Close
<1> DEFINE c == IF currentChannel \in R THEN 0 ELSE currentChannel
<1>2. ch' \in [ChannelId -> Channel] /\ l1OriginLastClosedChannel' \in 0..MaxL1
  <2>1. CASE c # 0 /\ ~ch[c].full
    <3>1. PICK m \in 1..MaxFrames, o \in 0..MaxL1 :
             /\ ch' = [ch EXCEPT ![c] = OutputFrames(ch[c], m, TRUE)]
             /\ l1OriginLastClosedChannel' = o
      BY <1>1, <2>1
    <3>2. c \in ChannelId /\ m \in Nat
      BY <2>1, ConfigAssumption DEF TypeOK, ChannelId
    <3>3. OutputFrames(ch[c], m, TRUE) \in Channel
      BY <3>2, OutputFramesType DEF TypeOK
    <3> QED
      BY <3>1, <3>2, <3>3 DEF TypeOK
  <2>2. CASE ~(c # 0 /\ ~ch[c].full)
    BY <1>1, <2>2 DEF TypeOK
  <2> QED
    BY <2>1, <2>2
<1>3. currentChannel' \in 0..MaxChannels /\ channelQueue' \in SUBSET ChannelId
  BY <1>1, RemoveType
<1> QED
  BY <1>2, <1>3 DEF TypeOK, Close

LEMMA TypeInit == Init => TypeOK
<1> SUFFICES ASSUME Init PROVE TypeOK
  OBVIOUS
<1>1. Unborn \in Channel
  BY DEF Unborn, Channel
<1>2. ch \in [ChannelId -> Channel]
  BY <1>1 DEF Init
<1>3. blocks \in Seq(Block)
  BY DEF Init
<1>4. /\ l1Head \in 1..MaxL1 /\ l1OriginLastClosedChannel \in 0..MaxL1
      /\ tip \in 0..MaxBlock /\ base \in 0..MaxBlock
      /\ currentChannel \in 0..MaxChannels /\ nch \in 0..MaxChannels
  BY ConfigAssumption DEF Init
<1>5. /\ inflight \in SUBSET [tx : TxId, sent : 1..MaxL1]
      /\ channelQueue \in SUBSET ChannelId /\ txChannels \in SUBSET TxId
  BY DEF Init
<1> QED
  BY <1>2, <1>3, <1>4, <1>5 DEF Init, TypeOK

LEMMA TypeStep == TypeOK /\ [Next]_vars => TypeOK'
<1> SUFFICES ASSUME TypeOK, [Next]_vars PROVE TypeOK'
  OBVIOUS
<1>1. CASE L1Advance
  BY <1>1, ConfigAssumption DEF TypeOK, L1Advance, mgrVars
<1>2. ASSUME NEW b \in Block, AddL2Block(b) PROVE TypeOK'
  BY <1>2, AddL2BlockType
<1>3. CASE TxData
  BY <1>3, TxDataPendingType, TxDataNewType DEF TxData
<1>4. ASSUME NEW r \in inflight, TxFailed(r) PROVE TypeOK'
  BY <1>4, TxFailedType
<1>5. ASSUME NEW r \in inflight, NEW n \in 1..MaxL1, TxConfirmed(r, n) PROVE TypeOK'
  BY <1>5, TxConfirmedType
<1>6. CASE Close
  BY <1>6, CloseType
<1>7. ASSUME NEW o \in 0..l1Head, Clear(o) PROVE TypeOK'
  <2>1. ch' \in [ChannelId -> Channel]
    BY <1>7, NewChannelType DEF Clear
  <2>2. o \in 0..MaxL1
    BY <1>7, ConfigAssumption DEF TypeOK
  <2>3. blocks' \in Seq(Block)
    BY <1>7 DEF Clear
  <2>4. /\ tip' \in 0..MaxBlock /\ base' \in 0..MaxBlock
        /\ currentChannel' \in 0..MaxChannels
    BY <1>7, ConfigAssumption DEF Clear
  <2>5. channelQueue' \in SUBSET ChannelId /\ txChannels' \in SUBSET TxId
    BY <1>7 DEF Clear
  <2> QED
    BY <1>7, <2>1, <2>2, <2>3, <2>4, <2>5 DEF TypeOK, Clear
<1>8. ASSUME NEW blobs \in BOOLEAN, SwitchDAType(blobs) PROVE TypeOK'
  BY <1>8 DEF TypeOK, SwitchDAType
<1>9. CASE UNCHANGED vars
  BY <1>9 DEF TypeOK, vars, mgrVars
<1> QED
  BY <1>1, <1>2, <1>3, <1>4, <1>5, <1>6, <1>7, <1>8, <1>9 DEF Next

\* Every variable of the channel manager keeps its type: in particular every timeout,
\* block number and frame number stays a natural number (no deadline underflows).
THEOREM TypeCorrect == Spec => []TypeOK
  BY TypeInit, TypeStep, PTL DEF Spec

-----------------------------------------------------------------------------
(* No L2 block is lost. *)

\* A registered transaction is pending in its channel, so a channel with nothing
\* pending hears of no further transaction.
TxsPending == \A tx \in txChannels : tx.frames \in ch[tx.ch].pending

\* The current channel is in the queue; ids above nch are unused.
Allocated ==
    /\ currentChannel \in channelQueue \cup {0}
    /\ \A c \in ChannelId : c > nch => /\ ch[c].blocks = <<>> /\ ch[c].pending = {}
                                       /\ c \notin channelQueue

\* The inductive invariant behind NoBlockLost.
IInv == TypeOK /\ TxsPending /\ Allocated /\ NoBlockLost

LEMMA HandOutEffect ==
    ASSUME TypeOK, NEW c \in ChannelId, NEW x \in Channel, HandOut(c, x)
    PROVE  /\ \A d \in ChannelId : d # c => ch'[d] = ch[d]
           /\ ch'[c].blocks = x.blocks
           /\ ch'[c].pending = x.pending \cup {TxFrames(x)}
           /\ txChannels' = txChannels \cup {[ch |-> c, frames |-> TxFrames(x)]}
  BY NextTxDataType DEF TypeOK, HandOut, RegisterTx

LEMMA EmitEffect ==
    ASSUME TypeOK, NEW c \in ChannelId, NEW x \in Channel, Emit(c, x)
    PROVE  /\ \A d \in ChannelId : d # c => ch'[d] = ch[d]
           /\ ch'[c].blocks = x.blocks
           /\ x.pending \subseteq ch'[c].pending
           /\ \A tx \in txChannels' :
                 tx \in txChannels \/ (tx.ch = c /\ tx.frames \in ch'[c].pending)
<1>1. CASE HandOut(c, x)
  BY <1>1, HandOutEffect
<1>2. CASE ch' = [ch EXCEPT ![c] = x] /\ UNCHANGED <<txChannels, inflight>>
  BY <1>2 DEF TypeOK
<1> QED
  BY <1>1, <1>2 DEF Emit

\* TxDataPending moves frames only.
LEMMA TxDataPendingKeeps ==
    ASSUME IInv, TxDataPending
    PROVE  TxsPending' /\ Allocated' /\ NoBlockLost'
<1> USE DEF IInv
<1>1. PICK c \in WithTxData : HandOut(c, ch[c])
  BY DEF TxDataPending
<1>2. c \in ChannelId /\ c \in channelQueue /\ ch[c] \in Channel
  BY <1>1 DEF TypeOK, WithTxData
<1>3. /\ \A d \in ChannelId : d # c => ch'[d] = ch[d]
      /\ ch'[c].blocks = ch[c].blocks
      /\ ch'[c].pending = ch[c].pending \cup {TxFrames(ch[c])}
      /\ txChannels' = txChannels \cup {[ch |-> c, frames |-> TxFrames(ch[c])]}
  BY <1>1, <1>2, HandOutEffect
<1>4. UNCHANGED <<blocks, tip, closed, base, channelQueue, currentChannel, nch>>
  BY DEF TxDataPending
<1>5. TxsPending'
  <2> SUFFICES ASSUME NEW tx \in txChannels' PROVE tx.frames \in ch'[tx.ch].pending
    BY DEF TxsPending
  <2>1. CASE tx \in txChannels
    <3>1. tx.ch \in ChannelId
      BY <2>1 DEF TypeOK, TxId
    <3> QED
      BY <2>1, <3>1, <1>3 DEF TxsPending
  <2>2. CASE tx = [ch |-> c, frames |-> TxFrames(ch[c])]
    BY <2>2, <1>3
  <2> QED
    BY <1>3, <2>1, <2>2
<1>6. Allocated'
  BY <1>2, <1>3, <1>4 DEF Allocated
<1>7. NoBlockLost'
  <2> SUFFICES ASSUME ~closed', tip' # 0, NEW b \in base'..tip' PROVE Kept(b)'
    BY DEF NoBlockLost
  <2>1. Kept(b)
    BY <1>4 DEF NoBlockLost
  <2>2. CASE \E i \in DOMAIN blocks : blocks[i] = b
    BY <2>2, <1>4 DEF Kept
  <2>3. ASSUME NEW d \in ChannelId, \E i \in DOMAIN ch[d].blocks : ch[d].blocks[i] = b,
               d \in channelQueue \/ Delivered(d)
        PROVE  Kept(b)'
    <3>1. \E i \in DOMAIN ch'[d].blocks : ch'[d].blocks[i] = b
      BY <2>3, <1>3
    <3>2. d \in channelQueue' \/ Delivered(d)'
      BY <2>3, <1>2, <1>3, <1>4 DEF Delivered
    <3> QED
      BY <3>1, <3>2 DEF Kept
  <2> QED
    BY <2>1, <2>2, <2>3 DEF Kept
<1> QED
  BY <1>5, <1>6, <1>7

\* TxDataNew moves a prefix of s.blocks to the channel it fills.
LEMMA TxDataNewKeeps ==
    ASSUME IInv, TxDataNew
    PROVE  TxsPending' /\ Allocated' /\ NoBlockLost'
<1> USE DEF IInv
<1>1. PICK c \in ChannelId, x \in Channel :
         /\ \/ /\ c = nch + 1 /\ x = NewChannel /\ nch' = nch + 1
               /\ currentChannel' = c /\ channelQueue' = channelQueue \cup {c}
            \/ /\ c = currentChannel /\ x = ch[c]
               /\ UNCHANGED <<nch, currentChannel, channelQueue>>
         /\ FillChannel(c, x)
         /\ ~closed /\ UNCHANGED <<l1Head, tip, closed, multiFrameTxs, base>>
  BY TxDataNewEffect
<1>2. PICK y \in Channel, n \in 0..Len(blocks) :
         /\ y.blocks = x.blocks \o SubSeq(blocks, 1, n) /\ y.pending = x.pending
         /\ Emit(c, y)
         /\ blocks' = RemainingBlocks(n)
  BY <1>1, FillChannelEffect
<1>3. /\ \A d \in ChannelId : d # c => ch'[d] = ch[d]
      /\ ch'[c].blocks = x.blocks \o SubSeq(blocks, 1, n)
      /\ x.pending \subseteq ch'[c].pending
      /\ \A tx \in txChannels' :
            tx \in txChannels \/ (tx.ch = c /\ tx.frames \in ch'[c].pending)
  BY <1>2, EmitEffect
<1>4. x.blocks = ch[c].blocks /\ x.pending = ch[c].pending
  <2>1. CASE c = nch + 1 /\ x = NewChannel
    <3>1. c > nch
      BY <2>1 DEF TypeOK
    <3>2. ch[c].blocks = <<>> /\ ch[c].pending = {}
      BY <3>1 DEF Allocated
    <3> QED
      BY <2>1, <3>2, NewChannelType
  <2>2. CASE x = ch[c]
    BY <2>2
  <2> QED
    BY <1>1, <2>1, <2>2
<1>5. c \in channelQueue' /\ channelQueue \subseteq channelQueue' /\ currentChannel' = c
  <2>1. CASE channelQueue' = channelQueue \cup {c} /\ currentChannel' = c
    BY <2>1
  <2>2. CASE c = currentChannel /\ UNCHANGED <<nch, currentChannel, channelQueue>>
    <3>1. c # 0
      BY DEF ChannelId
    <3> QED
      BY <2>2, <3>1 DEF Allocated
  <2> QED
    BY <1>1, <2>1, <2>2
<1>6. TxsPending'
  <2> SUFFICES ASSUME NEW tx \in txChannels' PROVE tx.frames \in ch'[tx.ch].pending
    BY DEF TxsPending
  <2>1. CASE tx \in txChannels
    <3>1. tx.ch \in ChannelId /\ tx.frames \in ch[tx.ch].pending
      BY <2>1 DEF TypeOK, TxId, TxsPending
    <3> QED
      BY <3>1, <1>3, <1>4
  <2> QED
    BY <2>1, <1>3
<1>7. Allocated'
  <2>1. nch \in Nat /\ nch' \in {nch, nch + 1}
    BY <1>1, ConfigAssumption DEF TypeOK
  <2>2. ASSUME NEW d \in ChannelId, d > nch'
        PROVE  ch'[d].blocks = <<>> /\ ch'[d].pending = {} /\ d \notin channelQueue'
    <3>1. d > nch
      BY <2>1, <2>2 DEF ChannelId
    <3>2. d # c
      <4>1. CASE c = nch + 1 /\ nch' = nch + 1
        BY <4>1, <2>1, <2>2 DEF ChannelId
      <4>2. CASE c = currentChannel
        <5>1. c \in channelQueue
          BY <4>2 DEF Allocated, ChannelId
        <5> QED
          BY <5>1, <3>1 DEF Allocated
      <4> QED
        BY <1>1, <4>1, <4>2
    <3>3. d \notin channelQueue
      BY <3>1 DEF Allocated
    <3> QED
      BY <1>1, <1>3, <3>1, <3>2, <3>3 DEF Allocated
  <2> QED
    BY <1>5, <2>2 DEF Allocated
<1>8. NoBlockLost'
  <2> SUFFICES ASSUME ~closed', tip' # 0, NEW b \in base'..tip' PROVE Kept(b)'
    BY DEF NoBlockLost
  <2>1. Kept(b)
    BY <1>1 DEF NoBlockLost
  <2> DEFINE added == SubSeq(blocks, 1, n)
  <2>2. /\ added \in Seq(Block) /\ Len(added) = n
        /\ \A i \in 1..n : added[i] = blocks[i]
        /\ blocks' \in Seq(Block) /\ Len(blocks') = Len(blocks) - n
        /\ \A i \in 1..(Len(blocks) - n) : blocks'[i] = blocks[n + i]
    BY <1>2, BlocksSplit
  <2>3. x.blocks \in Seq(Block) /\ Len(x.blocks) \in Nat
    BY DEF Channel
  <2> HIDE DEF added
  <2>4. /\ x.blocks \o added \in Seq(Block)
        /\ Len(x.blocks \o added) = Len(x.blocks) + n
        /\ \A i \in 1..(Len(x.blocks) + n) : (x.blocks \o added)[i] =
              IF i <= Len(x.blocks) THEN x.blocks[i] ELSE added[i - Len(x.blocks)]
    <3>1. /\ x.blocks \o added \in Seq(Block)
          /\ Len(x.blocks \o added) = Len(x.blocks) + Len(added)
          /\ \A i \in 1..(Len(x.blocks) + Len(added)) : (x.blocks \o added)[i] =
                IF i <= Len(x.blocks) THEN x.blocks[i] ELSE added[i - Len(x.blocks)]
      <4>1. x.blocks \in Seq(Block) /\ added \in Seq(Block)
        BY <2>2, <2>3
      <4> QED
        BY <4>1, ConcatProperties
    <3> QED
      BY <2>2, <3>1
  <2>8. ch'[c].blocks = x.blocks \o added
    BY <1>3 DEF added
  <2>5. blocks \in Seq(Block) /\ Len(blocks) \in Nat
    BY DEF TypeOK
  <2>6. ASSUME NEW i \in DOMAIN blocks, blocks[i] = b
        PROVE  Kept(b)'
    <3>1. i \in 1..Len(blocks)
      BY <2>5
    <3>2. CASE i <= n
      <4>1. Len(x.blocks) + i \in 1..(Len(x.blocks) + n)
        BY <2>3, <3>1, <3>2
      <4>2. (x.blocks \o added)[Len(x.blocks) + i] = b
        <5>1. /\ ~(Len(x.blocks) + i <= Len(x.blocks))
              /\ Len(x.blocks) + i - Len(x.blocks) = i
          BY <2>3, <3>1
        <5>2. (x.blocks \o added)[Len(x.blocks) + i] = added[i]
          <6>1. (x.blocks \o added)[Len(x.blocks) + i] = added[Len(x.blocks) + i - Len(x.blocks)]
            BY <4>1, <5>1, <2>4
          <6> QED
            BY <5>1, <6>1
        <5>3. added[i] = blocks[i]
          BY <2>2, <3>1, <3>2
        <5> QED
          BY <5>2, <5>3, <2>6
      <4>3. Len(x.blocks) + i \in DOMAIN ch'[c].blocks
        BY <4>1, <2>4, <2>8
      <4> QED
        BY <4>2, <4>3, <2>8, <1>5 DEF Kept
    <3>3. CASE i > n
      <4>1. i - n \in DOMAIN blocks' /\ blocks'[i - n] = b
        BY <3>1, <3>3, <2>2, <2>5, <2>6
      <4> QED
        BY <4>1 DEF Kept
    <3> QED
      BY <3>1, <3>2, <3>3
  <2>7. ASSUME NEW d \in ChannelId, NEW i \in DOMAIN ch[d].blocks, ch[d].blocks[i] = b,
               d \in channelQueue \/ Delivered(d)
        PROVE  Kept(b)'
    <3>1. CASE d # c
      <4>1. ch'[d] = ch[d]
        BY <3>1, <1>3
      <4> QED
        BY <4>1, <2>7, <1>5 DEF Kept, Delivered
    <3>2. CASE d = c
      <4>1. i \in 1..Len(x.blocks) /\ x.blocks[i] = b
        BY <3>2, <2>7, <1>4, <2>3
      <4>2. i \in DOMAIN ch'[c].blocks /\ ch'[c].blocks[i] = b
        BY <4>1, <2>3, <2>4, <2>8
      <4> QED
        BY <4>2, <1>5 DEF Kept
    <3> QED
      BY <3>1, <3>2
  <2> QED
    BY <2>1, <2>6, <2>7 DEF Kept
<1> QED
  BY <1>6, <1>7, <1>8

\* A step that leaves the manager's queues alone keeps what they keep.
LEMMA SameKeeps ==
    ASSUME IInv, UNCHANGED <<ch, blocks, tip, base, closed, txChannels, channelQueue,
                             currentChannel, nch>>
    PROVE  TxsPending' /\ Allocated' /\ NoBlockLost'
<1> USE DEF IInv
<1>1. TxsPending' /\ Allocated'
  BY DEF TxsPending, Allocated
<1>2. NoBlockLost'
  <2> SUFFICES ASSUME ~closed', tip' # 0, NEW b \in base'..tip' PROVE Kept(b)'
    BY DEF NoBlockLost
  <2>1. Kept(b)
    BY DEF NoBlockLost
  <2> QED
    BY <2>1 DEF Kept, Delivered
<1> QED
  BY <1>1, <1>2

\* AddL2Block puts the new block in s.blocks.
LEMMA AddL2BlockKeeps ==
    ASSUME IInv, NEW b \in Block, AddL2Block(b)
    PROVE  TxsPending' /\ Allocated' /\ NoBlockLost'
<1> USE DEF IInv
<1>1. UNCHANGED <<ch, txChannels, channelQueue, currentChannel, nch, closed>>
  BY DEF AddL2Block
<1>2. TxsPending' /\ Allocated'
  BY <1>1 DEF TxsPending, Allocated
<1>3. /\ blocks \in Seq(Block) /\ Len(blocks) \in Nat /\ blocks' = Append(blocks, b)
      /\ b \in 1..MaxBlock /\ tip \in Nat /\ base \in Nat /\ tip' = b
      /\ tip = 0 \/ tip = b - 1
      /\ base' = IF tip = 0 THEN b ELSE base
  BY ConfigAssumption DEF TypeOK, AddL2Block, Block
<1>4. /\ \A i \in DOMAIN blocks : i \in DOMAIN blocks' /\ blocks'[i] = blocks[i]
      /\ Len(blocks) + 1 \in DOMAIN blocks' /\ blocks'[Len(blocks) + 1] = b
  BY <1>3
<1>5. NoBlockLost'
  <2> SUFFICES ASSUME ~closed', tip' # 0, NEW a \in base'..tip' PROVE Kept(a)'
    BY DEF NoBlockLost
  <2>1. CASE a = b
    BY <2>1, <1>4 DEF Kept
  <2>2. CASE a # b
    <3>1. tip # 0 /\ a \in base..tip
      BY <2>2, <1>3
    <3>2. Kept(a)
      BY <3>1, <1>1 DEF NoBlockLost
    <3> QED
      BY <3>2, <1>1, <1>4 DEF Kept, Delivered
  <2> QED
    BY <2>1, <2>2
<1> QED
  BY <1>2, <1>5

\* TxFailed moves frames only, unless the manager is closed.
LEMMA TxFailedKeeps ==
    ASSUME IInv, NEW r \in inflight, TxFailed(r)
    PROVE  TxsPending' /\ Allocated' /\ NoBlockLost'
<1> USE DEF IInv
<1> DEFINE c == r.tx.ch
           y == Requeue(ch[c], r.tx.frames)
<1>1. r.tx \in TxId /\ c \in ChannelId /\ r.tx.frames \in Seq(Nat)
  BY DEF TypeOK, TxId
<1>2. txChannels' = txChannels \ {r.tx} /\ UNCHANGED <<blocks, tip, closed, nch, base>>
  BY DEF TxFailed
<1>3. CASE r.tx \notin txChannels
  <2>1. UNCHANGED <<ch, channelQueue, currentChannel, txChannels>>
    BY <1>2, <1>3 DEF TxFailed
  <2> QED
    BY <2>1, <1>2, SameKeeps
<1>4. CASE r.tx \in txChannels
  <2>1. /\ ch' = [ch EXCEPT ![c] = y]
        /\ RemovePendingChannels(IF closed /\ NoneSubmitted(y) THEN {c} ELSE {})
    BY <1>4 DEF TxFailed
  <2>2. r.tx.frames \in ch[c].pending
    BY <1>4 DEF TxsPending
  <2>3. y.blocks = ch[c].blocks /\ y.pending = ch[c].pending \ {r.tx.frames}
    BY <1>1, RequeueType DEF TypeOK
  <2> HIDE DEF y
  <2>4. /\ \A d \in ChannelId : d # c => ch'[d] = ch[d]
        /\ ch'[c].blocks = ch[c].blocks
        /\ ch'[c].pending = ch[c].pending \ {r.tx.frames}
    BY <2>1, <2>3, <1>1 DEF TypeOK
  <2>5. TxsPending'
    <3> SUFFICES ASSUME NEW tx \in txChannels' PROVE tx.frames \in ch'[tx.ch].pending
      BY DEF TxsPending
    <3>1. tx \in txChannels /\ tx # r.tx
      BY <1>2
    <3>2. tx \in TxId /\ tx.ch \in ChannelId /\ tx.frames \in ch[tx.ch].pending
      BY <3>1 DEF TypeOK, TxId, TxsPending
    <3>3. CASE tx.ch = c
      <4>1. tx.frames # r.tx.frames
        BY <3>1, <3>2, <3>3, <1>1 DEF TxId
      <4> QED
        BY <4>1, <3>2, <3>3, <2>4
    <3>4. CASE tx.ch # c
      BY <3>2, <3>4, <2>4
    <3> QED
      BY <3>3, <3>4
  <2>6. /\ channelQueue' \subseteq channelQueue
        /\ currentChannel' \in channelQueue' \cup {0}
        /\ ~closed => channelQueue' = channelQueue
    BY <2>1 DEF RemovePendingChannels, Allocated
  <2>7. Allocated'
    <3>1. ~(c > nch)
      BY <1>1, <2>2 DEF Allocated
    <3> QED
      BY <1>2, <2>4, <2>6, <3>1 DEF Allocated
  <2>8. NoBlockLost'
    <3> SUFFICES ASSUME ~closed', tip' # 0, NEW b \in base'..tip' PROVE Kept(b)'
      BY DEF NoBlockLost
    <3>1. Kept(b) /\ ~closed
      BY <1>2 DEF NoBlockLost
    <3>2. ASSUME NEW d \in ChannelId, \E i \in DOMAIN ch[d].blocks : ch[d].blocks[i] = b,
                 d \in channelQueue \/ Delivered(d)
          PROVE  Kept(b)'
      <4>1. \E i \in DOMAIN ch'[d].blocks : ch'[d].blocks[i] = b
        BY <3>2, <2>4
      <4>2. d \in channelQueue' \/ Delivered(d)'
        <5>1. CASE d = c
          BY <5>1, <3>2, <3>1, <2>2, <2>6 DEF Delivered
        <5>2. CASE d # c
          BY <5>2, <3>2, <3>1, <2>4, <2>6 DEF Delivered
        <5> QED
          BY <5>1, <5>2
      <4> QED
        BY <4>1, <4>2 DEF Kept
    <3> QED
      BY <3>1, <3>2, <1>2 DEF Kept
  <2> QED
    BY <2>5, <2>7, <2>8
<1> QED
  BY <1>3, <1>4

\* TxConfirmed takes a channel out of the queue only if it is then delivered, or if
\* it has put the channel's blocks back.
LEMMA TxConfirmedKeeps ==
    ASSUME IInv, NEW r \in inflight, NEW n \in 1..MaxL1, TxConfirmed(r, n)
    PROVE  TxsPending' /\ Allocated' /\ NoBlockLost'
<1> USE DEF IInv
<1> DEFINE c == r.tx.ch
           y(t) == Confirm(ch[c], r.tx.frames, n, t)
<1>1. r.tx \in TxId /\ c \in ChannelId /\ r.tx.frames \in Seq(Nat)
  BY DEF TypeOK, TxId
<1>2. txChannels' = txChannels \ {r.tx} /\ UNCHANGED <<tip, closed, nch, base>>
  BY DEF TxConfirmed
<1>3. CASE r.tx \notin txChannels
  <2>1. UNCHANGED <<ch, blocks, channelQueue, currentChannel, txChannels>>
    BY <1>2, <1>3 DEF TxConfirmed
  <2> QED
    BY <2>1, <1>2, SameKeeps
<1>4. CASE r.tx \in txChannels
  <2>1. PICK t \in {InclusionDeadline(n), ch[c].timeout} :
           /\ ch' = [ch EXCEPT ![c] = y(t)]
           /\ \E q \in ReturnedBlocks(c, y(t)) : blocks' = q \o blocks
           /\ RemovePendingChannels(
                IF IsTimedOut(y(t)) \/ IsFullySubmitted(y(t)) THEN {c} ELSE {})
    BY <1>4 DEF TxConfirmed
  <2>2. ch[c] \in Channel /\ t \in Nat /\ n \in Nat
    <3>1. ch[c] \in Channel
      BY <1>1 DEF TypeOK
    <3>2. ch[c].timeout \in Nat
      BY <3>1 DEF Channel
    <3>3. n \in Nat
      BY ConfigAssumption
    <3>4. InclusionDeadline(n) \in Nat
      BY <3>3, DeadlineType
    <3> QED
      BY <3>1, <3>2, <3>3, <3>4
  <2> DEFINE z == y(t)
  <2>3. /\ z \in Channel /\ z.blocks = ch[c].blocks
        /\ z.pending = ch[c].pending \ {r.tx.frames}
        /\ z.confirmed = ch[c].confirmed \cup {[frames |-> r.tx.frames, at |-> n]}
    <3>1. \A x \in Channel, fs \in Seq(Nat), k \in Nat, s \in Nat :
             LET w == Confirm(x, fs, k, s)
             IN  /\ w \in Channel /\ w.blocks = x.blocks
                 /\ w.pending = x.pending \ {fs}
                 /\ w.confirmed = x.confirmed \cup {[frames |-> fs, at |-> k]}
      BY ConfirmType
    <3>2. z = Confirm(ch[c], r.tx.frames, n, t)
      OBVIOUS
    <3> HIDE DEF c, y, z
    <3>3. ch[c] \in Channel /\ n \in Nat /\ t \in Nat /\ r.tx.frames \in Seq(Nat)
      BY <1>1, <2>2
    <3>4. LET w == Confirm(ch[c], r.tx.frames, n, t)
          IN  /\ w \in Channel /\ w.blocks = ch[c].blocks
              /\ w.pending = ch[c].pending \ {r.tx.frames}
              /\ w.confirmed = ch[c].confirmed \cup {[frames |-> r.tx.frames, at |-> n]}
      BY <3>1, <3>3
    <3> QED
      BY <3>2, <3>4
  <2>4. /\ ch' = [ch EXCEPT ![c] = z]
        /\ \E q \in ReturnedBlocks(c, z) : blocks' = q \o blocks
        /\ RemovePendingChannels(IF IsTimedOut(z) \/ IsFullySubmitted(z) THEN {c} ELSE {})
    BY <2>1
  <2> HIDE DEF z, y
  <2>5. r.tx.frames \in ch[c].pending
    BY <1>4 DEF TxsPending
  <2>6. ch'[c] = z /\ \A d \in ChannelId : d # c => ch'[d] = ch[d]
    BY <2>4, <1>1 DEF TypeOK
  <2>7. TxsPending'
    <3> SUFFICES ASSUME NEW tx \in txChannels' PROVE tx.frames \in ch'[tx.ch].pending
      BY DEF TxsPending
    <3>1. tx \in txChannels /\ tx # r.tx
      BY <1>2
    <3>2. tx \in TxId /\ tx.ch \in ChannelId /\ tx.frames \in ch[tx.ch].pending
      BY <3>1 DEF TypeOK, TxId, TxsPending
    <3>3. CASE tx.ch = c
      <4>1. tx.frames # r.tx.frames
        BY <3>1, <3>2, <3>3, <1>1 DEF TxId
      <4> QED
        BY <4>1, <3>2, <3>3, <2>3, <2>6
    <3>4. CASE tx.ch # c
      BY <3>2, <3>4, <2>6
    <3> QED
      BY <3>3, <3>4
  <2>8. /\ channelQueue' \subseteq channelQueue
        /\ currentChannel' \in channelQueue' \cup {0}
        /\ \A d \in channelQueue : d # c => d \in channelQueue'
        /\ c \in channelQueue => c \in channelQueue' \/ IsTimedOut(z) \/ IsFullySubmitted(z)
    BY <2>4 DEF RemovePendingChannels, Allocated
  <2>9. Allocated'
    BY <1>1, <1>2, <2>3, <2>5, <2>6, <2>8 DEF Allocated
  <2>r. PICK rb \in ReturnedBlocks(c, z) : blocks' = rb \o blocks
    BY <2>4
  <2>10. blocks \in Seq(Block) /\ z.blocks \in Seq(Block) /\ rb \in Seq(Block)
    BY <2>3, ReturnedType DEF TypeOK, Channel
  <2>11. /\ Len(rb) \in Nat /\ Len(blocks) \in Nat /\ blocks' \in Seq(Block)
         /\ Len(blocks') = Len(rb) + Len(blocks)
         /\ \A i \in 1..(Len(rb) + Len(blocks)) :
               blocks'[i] = IF i <= Len(rb) THEN rb[i] ELSE blocks[i - Len(rb)]
    BY <2>r, <2>10, ConcatProperties
  <2>12. \A i \in DOMAIN blocks : \E j \in DOMAIN blocks' : blocks'[j] = blocks[i]
    <3> SUFFICES ASSUME NEW i \in DOMAIN blocks
                 PROVE  \E j \in DOMAIN blocks' : blocks'[j] = blocks[i]
      OBVIOUS
    <3>1. i \in 1..Len(blocks)
      BY <2>10
    <3>2. Len(rb) + i \in 1..(Len(rb) + Len(blocks)) /\ Len(rb) + i \in DOMAIN blocks'
      BY <3>1, <2>11
    <3>3. ~(Len(rb) + i <= Len(rb)) /\ Len(rb) + i - Len(rb) = i
      BY <3>1, <2>11
    <3>4. blocks'[Len(rb) + i] = blocks[i]
      BY <3>2, <3>3, <2>11
    <3> QED
      BY <3>2, <3>4
  <2>13. IsTimedOut(z) /\ c \in channelQueue =>
           \A i \in DOMAIN z.blocks : \E j \in DOMAIN blocks' : blocks'[j] = z.blocks[i]
    <3> SUFFICES ASSUME IsTimedOut(z), c \in channelQueue, NEW i \in DOMAIN z.blocks
                 PROVE  \E j \in DOMAIN blocks' : blocks'[j] = z.blocks[i]
      OBVIOUS
    <3>1. rb = z.blocks
      BY DEF ReturnedBlocks
    <3>2. i \in 1..Len(rb)
      BY <3>1, <2>10
    <3>3. i \in 1..(Len(rb) + Len(blocks)) /\ i \in DOMAIN blocks' /\ i <= Len(rb)
      BY <3>2, <2>11
    <3>4. blocks'[i] = rb[i]
      BY <3>3, <2>11
    <3> QED
      BY <3>1, <3>3, <3>4
  <2>14. IsFullySubmitted(z) /\ ~IsTimedOut(z) => Delivered(c)'
    <3> SUFFICES ASSUME IsFullySubmitted(z), ~IsTimedOut(z) PROVE Delivered(c)'
      OBVIOUS
    <3>1. \A p \in z.confirmed : p.at \in Nat
      BY <2>3 DEF Channel
    <3>2. \A p, q \in z.confirmed : p.at - q.at < ChannelTimeout
      BY <3>1, ConfigAssumption DEF IsTimedOut
    <3>3. z.confirmed # {}
      BY <2>3
    <3> QED
      BY <3>2, <3>3, <2>6 DEF Delivered, IsFullySubmitted
  <2>15. NoBlockLost'
    <3> SUFFICES ASSUME ~closed', tip' # 0, NEW b \in base'..tip' PROVE Kept(b)'
      BY DEF NoBlockLost
    <3>1. Kept(b)
      BY <1>2 DEF NoBlockLost
    <3>2. CASE \E i \in DOMAIN blocks : blocks[i] = b
      BY <3>2, <2>12 DEF Kept
    <3>3. ASSUME NEW d \in ChannelId, \E i \in DOMAIN ch[d].blocks : ch[d].blocks[i] = b,
                 d \in channelQueue \/ Delivered(d)
          PROVE  Kept(b)'
      <4>1. CASE d # c
        BY <4>1, <3>3, <2>6, <2>8 DEF Kept, Delivered
      <4>2. CASE d = c
        <5>1. c \in channelQueue
          BY <4>2, <3>3, <2>5 DEF Delivered
        <5>2. \E i \in DOMAIN z.blocks : z.blocks[i] = b
          BY <4>2, <3>3, <2>3
        <5>3. CASE IsTimedOut(z)
          BY <5>1, <5>2, <5>3, <2>13 DEF Kept
        <5>4. CASE ~IsTimedOut(z)
          <6>1. c \in channelQueue' \/ Delivered(c)'
            BY <5>1, <5>4, <2>8, <2>14
          <6> QED
            BY <6>1, <5>2, <2>6, <1>1 DEF Kept
        <5> QED
          BY <5>3, <5>4
      <4> QED
        BY <4>1, <4>2
    <3> QED
      BY <3>1, <3>2, <3>3 DEF Kept
  <2> QED
    BY <2>7, <2>9, <2>15
<1> QED
  BY <1>3, <1>4

\* Close and Clear: once closed nothing is promised, after Clear nothing is held.
LEMMA CloseKeeps ==
    ASSUME IInv, Close
    PROVE  TxsPending' /\ Allocated' /\ NoBlockLost'
<1> USE DEF IInv
<1>1. PICK R \in SUBSET channelQueue :
        /\ RemovePendingChannels(R)
        /\ LET c == IF currentChannel \in R THEN 0 ELSE currentChannel
           IN  IF c # 0 /\ ~ch[c].full
               THEN \E m \in 1..MaxFrames, o \in 0..MaxL1 :
                    LET y == OutputFrames(ch[c], m, TRUE)
                    IN  /\ FramesReady(ch[c], m, TRUE)
                        /\ ch' = [ch EXCEPT ![c] = y]
                        /\ UpdatedOrigin(o, y) /\ l1OriginLastClosedChannel' = o
               ELSE UNCHANGED <<ch, l1OriginLastClosedChannel>>
  BY DEF Close
<1> DEFINE c == IF currentChannel \in R THEN 0 ELSE currentChannel
<1>2. \A d \in ChannelId : ch'[d].blocks = ch[d].blocks /\ ch'[d].pending = ch[d].pending
  <2>1. CASE c # 0 /\ ~ch[c].full
    <3>1. PICK m \in 1..MaxFrames :
             ch' = [ch EXCEPT ![c] = OutputFrames(ch[c], m, TRUE)]
      BY <1>1, <2>1
    <3>2. c \in ChannelId /\ m \in Nat
      BY <2>1, ConfigAssumption DEF TypeOK, ChannelId
    <3>3. /\ OutputFrames(ch[c], m, TRUE).blocks = ch[c].blocks
          /\ OutputFrames(ch[c], m, TRUE).pending = ch[c].pending
      BY <3>2, OutputFramesType DEF TypeOK
    <3> QED
      BY <3>1, <3>2, <3>3 DEF TypeOK
  <2>2. CASE ~(c # 0 /\ ~ch[c].full)
    BY <1>1, <2>2
  <2> QED
    BY <2>1, <2>2
<1>3. UNCHANGED <<txChannels, nch>> /\ closed'
  BY DEF Close
<1>4. TxsPending'
  BY <1>2, <1>3 DEF TxsPending, TypeOK, TxId
<1>5. channelQueue' \subseteq channelQueue /\ currentChannel' \in channelQueue' \cup {0}
  BY <1>1 DEF RemovePendingChannels, Allocated
<1>6. Allocated'
  BY <1>2, <1>3, <1>5 DEF Allocated
<1> QED
  BY <1>3, <1>4, <1>6 DEF NoBlockLost

LEMMA ClearKeeps ==
    ASSUME IInv, NEW o, Clear(o)
    PROVE  TxsPending' /\ Allocated' /\ NoBlockLost'
<1>1. \A c \in ChannelId : ch'[c].blocks = <<>> /\ ch'[c].pending = {}
  BY NewChannelType DEF Clear, IInv
<1> QED
  BY <1>1 DEF Clear, TxsPending, Allocated, NoBlockLost

LEMMA IInvInit == Init => IInv
<1> SUFFICES ASSUME Init PROVE IInv
  OBVIOUS
<1>1. TypeOK
  BY TypeInit
<1>2. \A c \in ChannelId : ch[c].blocks = <<>> /\ ch[c].pending = {}
  BY <1>1, NewChannelType DEF Init
<1> QED
  BY <1>1, <1>2 DEF Init, IInv, TxsPending, Allocated, NoBlockLost

LEMMA IInvStep == IInv /\ [Next]_vars => IInv'
<1> SUFFICES ASSUME IInv, [Next]_vars PROVE TxsPending' /\ Allocated' /\ NoBlockLost'
  BY TypeStep DEF IInv
<1>1. CASE L1Advance \/ (\E blobs \in BOOLEAN : SwitchDAType(blobs)) \/ UNCHANGED vars
  <2>1. UNCHANGED <<ch, blocks, tip, base, closed, txChannels, channelQueue,
                    currentChannel, nch>>
    BY <1>1 DEF L1Advance, SwitchDAType, vars, mgrVars
  <2> QED
    BY <2>1, SameKeeps
<1>2. ASSUME NEW b \in Block, AddL2Block(b) PROVE TxsPending' /\ Allocated' /\ NoBlockLost'
  BY <1>2, AddL2BlockKeeps
<1>3. CASE TxData
  BY <1>3, TxDataPendingKeeps, TxDataNewKeeps DEF TxData
<1>4. ASSUME NEW r \in inflight, TxFailed(r) PROVE TxsPending' /\ Allocated' /\ NoBlockLost'
  BY <1>4, TxFailedKeeps
<1>5. ASSUME NEW r \in inflight, NEW n \in 1..MaxL1, TxConfirmed(r, n)
      PROVE  TxsPending' /\ Allocated' /\ NoBlockLost'
  BY <1>5, TxConfirmedKeeps
<1>6. CASE Close
  BY <1>6, CloseKeeps
<1>7. ASSUME NEW o \in 0..l1Head, Clear(o) PROVE TxsPending' /\ Allocated' /\ NoBlockLost'
  BY <1>7, ClearKeeps
<1> QED
  BY <1>1, <1>2, <1>3, <1>4, <1>5, <1>6, <1>7 DEF Next

\* No L2 block is lost by the channel manager, for every configuration and every order
\* of confirmations and failures: until it is closed, each block added since the last
\* Clear waits in s.blocks, is in a queued channel, or is in a channel whose frames
\* are all on L1 within the channel timeout.
THEOREM NoBlockLostTheorem == Spec => []NoBlockLost
<1>1. IInv => NoBlockLost
  BY DEF IInv
<1> QED
  BY IInvInit, IInvStep, <1>1, PTL DEF Spec

-----------------------------------------------------------------------------
(* Pending transactions. *)

\* A transaction that a queued channel waits for is registered and is in flight: its
\* result can still come, and will be taken for the channel.
IsSentOff(c, fs) ==
    /\ [ch |-> c, frames |-> fs] \in txChannels
    /\ \E r \in inflight : r.tx = [ch |-> c, frames |-> fs]
PendingInFlight == \A c \in channelQueue : \A fs \in ch[c].pending : IsSentOff(c, fs)

\* Steps that hand out at most one transaction, of channel c, whose state was x.
LEMMA EmitInFlight ==
    ASSUME TypeOK, PendingInFlight, NEW c \in ChannelId, NEW x \in Channel, Emit(c, x),
           x.pending = {} \/ (c \in channelQueue /\ x.pending = ch[c].pending),
           channelQueue' \subseteq channelQueue \cup {c}
    PROVE  PendingInFlight'
<1> DEFINE tx == [ch |-> c, frames |-> TxFrames(x)]
<1>1. /\ \A d \in ChannelId : d # c => ch'[d] = ch[d]
      /\ txChannels \subseteq txChannels' /\ inflight \subseteq inflight'
      /\ \/ ch'[c].pending = x.pending
         \/ /\ ch'[c].pending = x.pending \cup {TxFrames(x)}
            /\ tx \in txChannels' /\ [tx |-> tx, sent |-> l1Head] \in inflight'
  <2>1. CASE HandOut(c, x)
    BY <2>1, HandOutEffect DEF HandOut, RegisterTx
  <2>2. CASE ch' = [ch EXCEPT ![c] = x] /\ UNCHANGED <<txChannels, inflight>>
    BY <2>2 DEF TypeOK
  <2> QED
    BY <2>1, <2>2 DEF Emit
<1>2. \A d, fs : IsSentOff(d, fs) => IsSentOff(d, fs)'
  BY <1>1 DEF IsSentOff
<1>3. \A fs \in x.pending : IsSentOff(c, fs)'
  BY <1>2 DEF PendingInFlight
<1>4. TxFrames(x) \in ch'[c].pending => IsSentOff(c, TxFrames(x))' \/ TxFrames(x) \in x.pending
  <2>1. [tx |-> tx, sent |-> l1Head].tx = tx
    OBVIOUS
  <2> QED
    BY <1>1, <2>1 DEF IsSentOff
<1>5. \A fs \in ch'[c].pending : IsSentOff(c, fs)'
  BY <1>1, <1>3, <1>4
<1>6. ASSUME NEW d \in channelQueue', d # c, NEW fs \in ch'[d].pending PROVE IsSentOff(d, fs)'
  <2>1. d \in channelQueue /\ d \in ChannelId
    BY <1>6 DEF TypeOK
  <2>2. fs \in ch[d].pending
    BY <1>1, <1>6, <2>1
  <2> QED
    BY <1>2, <2>1, <2>2 DEF PendingInFlight
<1> QED
  BY <1>5, <1>6 DEF PendingInFlight

LEMMA TxDataInFlight ==
    ASSUME TypeOK, PendingInFlight, TxData
    PROVE  PendingInFlight'
<1>1. CASE TxDataPending
  <2>1. PICK c \in WithTxData : HandOut(c, ch[c])
    BY <1>1 DEF TxDataPending
  <2>2. c \in channelQueue /\ c \in ChannelId /\ ch[c] \in Channel /\ HasTxData(ch[c])
    BY <2>1 DEF TypeOK, WithTxData
  <2>3. Emit(c, ch[c]) /\ channelQueue' = channelQueue
    BY <1>1, <2>1, <2>2 DEF Emit, TxDataPending
  <2> QED
    BY <2>2, <2>3, EmitInFlight
<1>2. CASE TxDataNew
  <2>1. PICK c \in ChannelId, x \in Channel :
           /\ \/ /\ c = nch + 1 /\ x = NewChannel /\ nch' = nch + 1
                 /\ currentChannel' = c /\ channelQueue' = channelQueue \cup {c}
              \/ /\ c = currentChannel /\ x = ch[c]
                 /\ UNCHANGED <<nch, currentChannel, channelQueue>>
           /\ FillChannel(c, x)
           /\ ~closed /\ UNCHANGED <<l1Head, tip, closed, multiFrameTxs, base>>
    BY <1>2, TxDataNewEffect
  <2>2. PICK y \in Channel, n \in 0..Len(blocks) :
           /\ y.blocks = x.blocks \o SubSeq(blocks, 1, n) /\ y.pending = x.pending
           /\ Emit(c, y)
           /\ blocks' = RemainingBlocks(n)
    BY <2>1, FillChannelEffect
  <2>3. CASE x = NewChannel /\ channelQueue' = channelQueue \cup {c}
    <3>1. y.pending = {}
      BY <2>2, <2>3, NewChannelType
    <3> QED
      BY <2>2, <2>3, <3>1, EmitInFlight
  <2>4. CASE x = ch[c] /\ channelQueue' = channelQueue /\ c \in channelQueue
    BY <2>2, <2>4, EmitInFlight
  <2>5. CASE x = ch[c] /\ channelQueue' = channelQueue /\ c \notin channelQueue
    <3>1. \A d \in ChannelId : d # c => ch'[d] = ch[d]
      BY <2>2, EmitEffect
    <3>2. txChannels \subseteq txChannels' /\ inflight \subseteq inflight'
      BY <2>2 DEF Emit, HandOut, RegisterTx
    <3>3. \A d \in channelQueue' : d \in ChannelId /\ d \in channelQueue /\ ch'[d] = ch[d]
      BY <2>5, <3>1 DEF TypeOK
    <3> QED
      BY <3>2, <3>3 DEF PendingInFlight, IsSentOff
  <2> QED
    BY <2>1, <2>3, <2>4, <2>5
<1> QED
  BY <1>1, <1>2 DEF TxData

\* A result takes the transaction from its channel, from txChannels and from inflight.
LEMMA ResultInFlight ==
    ASSUME TypeOK, PendingInFlight, NEW r \in inflight,
           channelQueue' \subseteq channelQueue,
           inflight' = inflight \ {r}, txChannels' = txChannels \ {r.tx},
           \A d \in ChannelId : ch'[d].pending \subseteq ch[d].pending,
           r.tx \in txChannels => r.tx.frames \notin ch'[r.tx.ch].pending
    PROVE  PendingInFlight'
<1> SUFFICES ASSUME NEW c \in channelQueue', NEW fs \in ch'[c].pending
             PROVE  IsSentOff(c, fs)'
  BY DEF PendingInFlight
<1>1. c \in channelQueue /\ fs \in ch[c].pending
  BY DEF TypeOK
<1> DEFINE tx == [ch |-> c, frames |-> fs]
<1>2. tx \in txChannels /\ \E q \in inflight : q.tx = tx
  BY <1>1 DEF PendingInFlight, IsSentOff
<1>3. tx # r.tx
  <2>1. tx.ch = c /\ tx.frames = fs
    OBVIOUS
  <2> HIDE DEF tx
  <2> QED
    BY <1>2, <2>1
<1> HIDE DEF tx
<1>4. tx \in txChannels' /\ \E q \in inflight' : q.tx = tx
  BY <1>2, <1>3
<1> QED
  BY <1>4 DEF tx, IsSentOff

LEMMA TxFailedInFlight ==
    ASSUME TypeOK, PendingInFlight, NEW r \in inflight, TxFailed(r)
    PROVE  PendingInFlight'
<1>1. r.tx \in TxId /\ r.tx.ch \in ChannelId /\ r.tx.frames \in Seq(Nat)
  BY DEF TypeOK, TxId
<1> DEFINE y == Requeue(ch[r.tx.ch], r.tx.frames)
<1>2. y.pending = ch[r.tx.ch].pending \ {r.tx.frames}
  BY <1>1, RequeueType DEF TypeOK
<1>3. /\ inflight' = inflight \ {r} /\ txChannels' = txChannels \ {r.tx}
      /\ IF r.tx \in txChannels THEN ch' = [ch EXCEPT ![r.tx.ch] = y] ELSE UNCHANGED ch
  BY DEF TxFailed
<1>4. channelQueue' \subseteq channelQueue
  BY DEF TxFailed, RemovePendingChannels
<1> HIDE DEF y
<1>5. \A d \in ChannelId : ch'[d].pending \subseteq ch[d].pending
  BY <1>1, <1>2, <1>3 DEF TypeOK
<1>6. r.tx \in txChannels => r.tx.frames \notin ch'[r.tx.ch].pending
  BY <1>1, <1>2, <1>3 DEF TypeOK
<1> QED
  BY <1>3, <1>4, <1>5, <1>6, ResultInFlight

LEMMA TxConfirmedInFlight ==
    ASSUME TypeOK, PendingInFlight, NEW r \in inflight, NEW n \in 1..MaxL1,
           TxConfirmed(r, n)
    PROVE  PendingInFlight'
<1>1. r.tx \in TxId /\ r.tx.ch \in ChannelId /\ r.tx.frames \in Seq(Nat)
  BY DEF TypeOK, TxId
<1>2. inflight' = inflight \ {r} /\ txChannels' = txChannels \ {r.tx}
  BY DEF TxConfirmed
<1>3. CASE r.tx \in txChannels
  <2>1. PICK t \in {InclusionDeadline(n), ch[r.tx.ch].timeout} :
           /\ ch' = [ch EXCEPT ![r.tx.ch] = Confirm(ch[r.tx.ch], r.tx.frames, n, t)]
           /\ \E C : RemovePendingChannels(C)
    BY <1>3 DEF TxConfirmed
  <2> DEFINE y == Confirm(ch[r.tx.ch], r.tx.frames, n, t)
  <2>2. y.pending = ch[r.tx.ch].pending \ {r.tx.frames}
    <3>1. ch[r.tx.ch] \in Channel
      BY <1>1 DEF TypeOK
    <3> QED
      BY <3>1 DEF Confirm, Channel
  <2>3. ch' = [ch EXCEPT ![r.tx.ch] = y]
    BY <2>1
  <2>4. channelQueue' \subseteq channelQueue
    BY <2>1 DEF RemovePendingChannels
  <2> HIDE DEF y
  <2>5. \A d \in ChannelId : ch'[d].pending \subseteq ch[d].pending
    BY <1>1, <2>2, <2>3 DEF TypeOK
  <2>6. r.tx.frames \notin ch'[r.tx.ch].pending
    BY <1>1, <2>2, <2>3 DEF TypeOK
  <2> QED
    BY <1>2, <2>4, <2>5, <2>6, ResultInFlight
<1>4. CASE r.tx \notin txChannels
  <2>1. UNCHANGED <<ch, channelQueue>>
    BY <1>4 DEF TxConfirmed
  <2> QED
    BY <1>2, <1>4, <2>1, ResultInFlight
<1> QED
  BY <1>3, <1>4

LEMMA CloseInFlight ==
    ASSUME TypeOK, PendingInFlight, Close
    PROVE  PendingInFlight'
<1>1. PICK R \in SUBSET channelQueue :
        /\ RemovePendingChannels(R)
        /\ LET c == IF currentChannel \in R THEN 0 ELSE currentChannel
           IN  IF c # 0 /\ ~ch[c].full
               THEN \E m \in 1..MaxFrames, o \in 0..MaxL1 :
                    LET y == OutputFrames(ch[c], m, TRUE)
                    IN  /\ FramesReady(ch[c], m, TRUE)
                        /\ ch' = [ch EXCEPT ![c] = y]
                        /\ UpdatedOrigin(o, y) /\ l1OriginLastClosedChannel' = o
               ELSE UNCHANGED <<ch, l1OriginLastClosedChannel>>
  BY DEF Close
<1> DEFINE c == IF currentChannel \in R THEN 0 ELSE currentChannel
<1>2. \A d \in ChannelId : ch'[d].pending = ch[d].pending
  <2>1. CASE c # 0 /\ ~ch[c].full
    <3>1. PICK m \in 1..MaxFrames :
             ch' = [ch EXCEPT ![c] = OutputFrames(ch[c], m, TRUE)]
      BY <1>1, <2>1
    <3>2. c \in ChannelId /\ m \in Nat
      BY <2>1, ConfigAssumption DEF TypeOK, ChannelId
    <3>3. OutputFrames(ch[c], m, TRUE).pending = ch[c].pending
      BY <3>2, OutputFramesType DEF TypeOK
    <3> QED
      BY <3>1, <3>2, <3>3 DEF TypeOK
  <2>2. CASE ~(c # 0 /\ ~ch[c].full)
    BY <1>1, <2>2
  <2> QED
    BY <2>1, <2>2
<1>3. UNCHANGED <<txChannels, inflight>> /\ channelQueue' \subseteq channelQueue
  BY <1>1 DEF Close, RemovePendingChannels
<1> QED
  BY <1>2, <1>3 DEF TypeOK, PendingInFlight, IsSentOff

\* No step of the manager, whatever it does with late receipts, leaves a queued channel
\* waiting for a transaction that nobody will answer for.
LEMMA InFlightStep == TypeOK /\ PendingInFlight /\ [Next]_vars => PendingInFlight'
<1> SUFFICES ASSUME TypeOK, PendingInFlight, [Next]_vars PROVE PendingInFlight'
  OBVIOUS
<1>1. CASE \/ L1Advance \/ (\E blobs \in BOOLEAN : SwitchDAType(blobs)) \/ UNCHANGED vars
           \/ (\E b \in Block : AddL2Block(b))
  <2>1. UNCHANGED <<ch, channelQueue, txChannels, inflight>>
    BY <1>1 DEF L1Advance, SwitchDAType, AddL2Block, vars, mgrVars
  <2> QED
    BY <2>1 DEF PendingInFlight, IsSentOff
<1>2. CASE \E o \in 0..l1Head : Clear(o)
  <2>1. channelQueue' = {}
    BY <1>2 DEF Clear
  <2> QED
    BY <2>1 DEF PendingInFlight
<1> QED
  BY <1>1, <1>2, TxDataInFlight, TxFailedInFlight, TxConfirmedInFlight, CloseInFlight DEF Next

LEMMA PendingInFlightAlways == Spec => []PendingInFlight
<1>1. Init => PendingInFlight
  BY DEF Init, PendingInFlight
<1> QED
  BY <1>1, InFlightStep, TypeCorrect, PTL DEF Spec

-----------------------------------------------------------------------------
(* ChannelManager implements BlockDelivery. *)

\* Every block in s.blocks or in a channel was taken since the last Clear.
IsTaken(b) == tip # 0 /\ base <= b /\ b <= tip
IsTakenNext(b) == tip' # 0 /\ base' <= b /\ b <= tip'
InRange ==
    /\ \A i \in DOMAIN blocks : IsTaken(blocks[i])
    /\ \A c \in ChannelId : \A i \in DOMAIN ch[c].blocks : IsTaken(ch[c].blocks[i])

\* The invariant behind the refinement.  base and tip are 0 together.
DInv == IInv /\ InRange /\ base <= tip

-----------------------------------------------------------------------------
(* What the steps do to the blocks of a channel and to a delivered channel. *)

LEMMA TxDataPendingSame ==
    ASSUME IInv, TxDataPending, NEW d \in ChannelId
    PROVE  ch'[d].blocks = ch[d].blocks /\ (Delivered(d) => Delivered(d)')
<1>1. PICK c \in WithTxData : HandOut(c, ch[c])
  BY DEF TxDataPending
<1>2. c \in ChannelId /\ ch[c] \in Channel /\ HasTxData(ch[c])
  BY <1>1 DEF IInv, TypeOK, WithTxData
<1>3. /\ \A e \in ChannelId : e # c => ch'[e] = ch[e]
      /\ ch'[c].blocks = ch[c].blocks
  BY <1>1, <1>2, HandOutEffect DEF IInv
<1>4. ~Delivered(c)
  BY <1>2 DEF Delivered, HasTxData
<1> QED
  BY <1>3, <1>4 DEF Delivered

LEMMA TxFailedSame ==
    ASSUME IInv, NEW r \in inflight, TxFailed(r), NEW d \in ChannelId
    PROVE  ch'[d].blocks = ch[d].blocks /\ (Delivered(d) => Delivered(d)')
<1> DEFINE c == r.tx.ch
           y == Requeue(ch[c], r.tx.frames)
<1>1. r.tx \in TxId /\ c \in ChannelId /\ r.tx.frames \in Seq(Nat)
  BY DEF IInv, TypeOK, TxId
<1>2. CASE r.tx \notin txChannels
  BY <1>2 DEF TxFailed, Delivered
<1>3. CASE r.tx \in txChannels
  <2>1. ch' = [ch EXCEPT ![c] = y]
    BY <1>3 DEF TxFailed
  <2>2. r.tx.frames \in ch[c].pending
    BY <1>3 DEF IInv, TxsPending
  <2>3. y.blocks = ch[c].blocks
    BY <1>1, RequeueType DEF IInv, TypeOK
  <2> HIDE DEF y
  <2>4. ~Delivered(c)
    BY <2>2 DEF Delivered
  <2>5. ch'[d] = IF d = c THEN y ELSE ch[d]
    BY <2>1, <1>1 DEF IInv, TypeOK
  <2> HIDE DEF c
  <2> QED
    BY <2>3, <2>4, <2>5 DEF Delivered
<1> QED
  BY <1>2, <1>3

LEMMA TxConfirmedSame ==
    ASSUME IInv, NEW r \in inflight, NEW n \in 1..MaxL1, TxConfirmed(r, n),
           NEW d \in ChannelId
    PROVE  ch'[d].blocks = ch[d].blocks /\ (Delivered(d) => Delivered(d)')
<1> DEFINE c == r.tx.ch
           y(t) == Confirm(ch[c], r.tx.frames, n, t)
<1>1. r.tx \in TxId /\ c \in ChannelId /\ r.tx.frames \in Seq(Nat)
  BY DEF IInv, TypeOK, TxId
<1>2. CASE r.tx \notin txChannels
  BY <1>2 DEF TxConfirmed, Delivered
<1>3. CASE r.tx \in txChannels
  <2>1. PICK t \in {InclusionDeadline(n), ch[c].timeout} : ch' = [ch EXCEPT ![c] = y(t)]
    BY <1>3 DEF TxConfirmed
  <2>2. r.tx.frames \in ch[c].pending
    BY <1>3 DEF IInv, TxsPending
  <2>3. ch[c] \in Channel /\ t \in Nat /\ n \in Nat
    <3>1. ch[c] \in Channel
      BY <1>1 DEF IInv, TypeOK
    <3>2. ch[c].timeout \in Nat
      BY <3>1 DEF Channel
    <3>3. n \in Nat
      BY ConfigAssumption
    <3>4. InclusionDeadline(n) \in Nat
      BY <3>3, DeadlineType
    <3> QED
      BY <3>1, <3>2, <3>3, <3>4
  <2>4. y(t).blocks = ch[c].blocks
    BY <1>1, <2>3, ConfirmType
  <2> HIDE DEF y
  <2>5. ~Delivered(c)
    BY <2>2 DEF Delivered
  <2>6. ch'[d] = IF d = c THEN y(t) ELSE ch[d]
    BY <2>1, <1>1 DEF IInv, TypeOK
  <2> HIDE DEF c
  <2> QED
    BY <2>4, <2>5, <2>6 DEF Delivered
<1> QED
  BY <1>2, <1>3

\* Close ends the open channel with at least one more frame.
LEMMA CloseSame ==
    ASSUME IInv, Close, NEW d \in ChannelId
    PROVE  ch'[d].blocks = ch[d].blocks /\ (Delivered(d) <=> Delivered(d)')
<1>1. PICK R \in SUBSET channelQueue :
        LET c == IF currentChannel \in R THEN 0 ELSE currentChannel
        IN  IF c # 0 /\ ~ch[c].full
            THEN \E m \in 1..MaxFrames, o \in 0..MaxL1 :
                 LET y == OutputFrames(ch[c], m, TRUE)
                 IN  /\ FramesReady(ch[c], m, TRUE)
                     /\ ch' = [ch EXCEPT ![c] = y]
                     /\ UpdatedOrigin(o, y) /\ l1OriginLastClosedChannel' = o
            ELSE UNCHANGED <<ch, l1OriginLastClosedChannel>>
  BY DEF Close
<1> DEFINE c == IF currentChannel \in R THEN 0 ELSE currentChannel
<1>2. CASE c # 0 /\ ~ch[c].full
  <2>1. PICK m \in 1..MaxFrames : ch' = [ch EXCEPT ![c] = OutputFrames(ch[c], m, TRUE)]
    BY <1>1, <1>2
  <2>2. c \in ChannelId /\ m \in Nat /\ m > 0
    BY <1>2, ConfigAssumption DEF IInv, TypeOK, ChannelId
  <2>3. ch[c] \in Channel
    BY <2>2 DEF IInv, TypeOK
  <2> DEFINE y == OutputFrames(ch[c], m, TRUE)
  <2>4. y.blocks = ch[c].blocks
    BY <2>2, <2>3, OutputFramesType
  <2>5. y.frames # <<>>
    <3> DEFINE new == [i \in 1..m |-> ch[c].numFrames + i - 1]
    <3>1. ch[c].frames \in Seq(Nat) /\ ch[c].numFrames \in Nat
      BY <2>3 DEF Channel
    <3>2. new \in Seq(Nat) /\ Len(new) = m
      <4>1. \A i \in 1..m : ch[c].numFrames + i - 1 \in Nat
        BY <3>1
      <4> QED
        BY <4>1, <2>2
    <3> HIDE DEF new
    <3>3. Len(ch[c].frames \o new) = Len(ch[c].frames) + m
      BY <3>1, <3>2, ConcatProperties
    <3>4. ch[c].frames \o new # <<>>
      BY <3>1, <3>3, <2>2
    <3>5. y.frames = ch[c].frames \o new
      BY <2>3 DEF OutputFrames, Channel, new
    <3> QED
      BY <3>4, <3>5
  <2> HIDE DEF y, c
  <2>6. ch'[d] = IF d = c THEN y ELSE ch[d]
    BY <2>1, <2>2 DEF y, IInv, TypeOK
  <2> QED
    BY <1>2, <2>4, <2>5, <2>6 DEF Delivered
<1>3. CASE ~(c # 0 /\ ~ch[c].full)
  BY <1>1, <1>3 DEF Delivered
<1> QED
  BY <1>2, <1>3

\* TxDataNew works on a channel that is new or open, so on none that is delivered.
LEMMA TxDataNewSame ==
    ASSUME IInv, TxDataNew, NEW d \in ChannelId, Delivered(d), ch[d].blocks # <<>>
    PROVE  Delivered(d)' /\ ch'[d].blocks = ch[d].blocks
<1>1. CASE /\ nch < MaxChannels /\ FillChannel(nch + 1, NewChannel)
  <2>1. nch + 1 \in ChannelId /\ NewChannel \in Channel /\ nch + 1 > nch
    BY <1>1, NewChannelType, ConfigAssumption DEF IInv, TypeOK, ChannelId
  <2>2. d # nch + 1
    BY <2>1 DEF IInv, Allocated
  <2>3. PICK y \in Channel : Emit(nch + 1, y)
    BY <1>1, <2>1, FillChannelEffect DEF IInv
  <2>4. ch'[d] = ch[d]
    BY <2>1, <2>2, <2>3, EmitEffect DEF IInv
  <2> QED
    BY <2>4 DEF Delivered
<1>2. CASE HasSpace /\ FillChannel(currentChannel, ch[currentChannel])
  <2>1. currentChannel \in ChannelId /\ ch[currentChannel] \in Channel
    BY <1>2, ConfigAssumption DEF IInv, TypeOK, ChannelId, HasSpace
  <2>2. d # currentChannel
    BY <1>2 DEF HasSpace, Delivered
  <2>3. PICK y \in Channel : Emit(currentChannel, y)
    BY <1>2, <2>1, FillChannelEffect DEF IInv
  <2>4. ch'[d] = ch[d]
    BY <2>1, <2>2, <2>3, EmitEffect DEF IInv
  <2> QED
    BY <2>4 DEF Delivered
<1> QED
  BY <1>1, <1>2 DEF TxDataNew

-----------------------------------------------------------------------------
(* Every block in the manager is one it has taken. *)

\* The blocks of the channels do not change and those of s.blocks are taken ones.
LEMMA InRangeSame ==
    ASSUME DInv, UNCHANGED <<tip, base>>,
           \A d \in ChannelId : ch'[d].blocks = ch[d].blocks,
           \A i \in DOMAIN blocks' : IsTaken(blocks'[i])
    PROVE  InRange'
  BY DEF DInv, InRange, IsTaken

\* Elements of the concatenation of two sequences of blocks.
LEMMA ConcatElements ==
    ASSUME NEW s \in Seq(Block), NEW t \in Seq(Block), NEW k \in DOMAIN (s \o t)
    PROVE  (\E i \in DOMAIN s : (s \o t)[k] = s[i]) \/ (\E i \in DOMAIN t : (s \o t)[k] = t[i])
<1>1. /\ s \o t \in Seq(Block) /\ Len(s) \in Nat /\ Len(t) \in Nat
      /\ Len(s \o t) = Len(s) + Len(t)
      /\ \A i \in 1..(Len(s) + Len(t)) :
            (s \o t)[i] = IF i <= Len(s) THEN s[i] ELSE t[i - Len(s)]
  BY ConcatProperties
<1>2. k \in 1..(Len(s) + Len(t))
  BY <1>1
<1>3. CASE k <= Len(s)
  <2>1. k \in DOMAIN s
    BY <1>1, <1>2, <1>3
  <2> QED
    BY <1>1, <1>2, <1>3, <2>1
<1>4. CASE k > Len(s)
  <2>1. k - Len(s) \in DOMAIN t
    BY <1>1, <1>2, <1>4
  <2> QED
    BY <1>1, <1>2, <1>4, <2>1
<1> QED
  BY <1>1, <1>2, <1>3, <1>4

LEMMA AddL2BlockInRange ==
    ASSUME DInv, NEW b \in Block, AddL2Block(b)
    PROVE  InRange'
<1>1. /\ blocks \in Seq(Block) /\ Len(blocks) \in Nat /\ blocks' = Append(blocks, b)
      /\ b \in Nat /\ b > 0 /\ tip \in Nat /\ base \in Nat /\ tip' = b
      /\ tip = 0 \/ tip = b - 1
      /\ base' = IF tip = 0 THEN b ELSE base
      /\ ch' = ch
  BY ConfigAssumption DEF DInv, IInv, TypeOK, AddL2Block, Block
<1>2. \A a \in Block : IsTaken(a) => IsTakenNext(a)
  BY <1>1 DEF IsTaken, IsTakenNext, Block
<1>3. IsTakenNext(b)
  <2>1. CASE tip = 0
    BY <2>1, <1>1 DEF IsTakenNext
  <2>2. CASE tip # 0
    <3>1. base <= b
      BY <2>2, <1>1 DEF DInv
    <3> QED
      BY <3>1, <2>2, <1>1 DEF IsTakenNext
  <2> QED
    BY <2>1, <2>2
<1>4. ASSUME NEW i \in DOMAIN blocks' PROVE IsTakenNext(blocks'[i])
  <2>1. i \in 1..(Len(blocks) + 1)
    BY <1>1
  <2>2. CASE i = Len(blocks) + 1
    <3>1. blocks'[i] = b
      BY <2>2, <1>1
    <3> QED
      BY <3>1, <1>3
  <2>3. CASE i # Len(blocks) + 1
    <3>1. i \in DOMAIN blocks /\ blocks'[i] = blocks[i] /\ blocks[i] \in Block
      BY <2>1, <2>3, <1>1
    <3>2. IsTaken(blocks[i])
      BY <3>1 DEF DInv, InRange
    <3> QED
      BY <3>1, <3>2, <1>2
  <2> QED
    BY <2>2, <2>3
<1>5. ASSUME NEW c \in ChannelId, NEW i \in DOMAIN ch'[c].blocks
      PROVE  IsTakenNext(ch'[c].blocks[i])
  <2>1. ch[c].blocks \in Seq(Block) /\ ch'[c].blocks = ch[c].blocks
    BY <1>1 DEF DInv, IInv, TypeOK, Channel
  <2>2. ch[c].blocks[i] \in Block
    BY <2>1, <1>5
  <2>3. IsTaken(ch[c].blocks[i])
    BY <2>1, <1>5 DEF DInv, InRange
  <2> QED
    BY <2>1, <2>2, <2>3, <1>2
<1> QED
  BY <1>4, <1>5 DEF InRange, IsTaken, IsTakenNext

\* What TxDataNew leaves in s.blocks and adds to a channel comes from s.blocks.
LEMMA TxDataNewInRange ==
    ASSUME DInv, TxDataNew
    PROVE  InRange'
<1>1. PICK c \in ChannelId, x \in Channel :
         /\ \/ /\ c = nch + 1 /\ x = NewChannel /\ nch' = nch + 1
               /\ currentChannel' = c /\ channelQueue' = channelQueue \cup {c}
            \/ /\ c = currentChannel /\ x = ch[c]
               /\ UNCHANGED <<nch, currentChannel, channelQueue>>
         /\ FillChannel(c, x)
         /\ ~closed /\ UNCHANGED <<l1Head, tip, closed, multiFrameTxs, base>>
  BY TxDataNewEffect DEF DInv, IInv
<1>2. PICK y \in Channel, n \in 0..Len(blocks) :
         /\ y.blocks = x.blocks \o SubSeq(blocks, 1, n) /\ y.pending = x.pending
         /\ Emit(c, y)
         /\ blocks' = RemainingBlocks(n)
  BY <1>1, FillChannelEffect DEF DInv, IInv
<1>3. /\ \A d \in ChannelId : d # c => ch'[d] = ch[d]
      /\ ch'[c].blocks = x.blocks \o SubSeq(blocks, 1, n)
  BY <1>2, EmitEffect DEF DInv, IInv
<1>4. \A i \in DOMAIN x.blocks : IsTaken(x.blocks[i])
  <2>1. CASE x = NewChannel
    <3>1. x.blocks = <<>>
      BY <2>1, NewChannelType DEF DInv, IInv
    <3> QED
      BY <3>1
  <2>2. CASE x = ch[c]
    BY <2>2 DEF DInv, InRange
  <2> QED
    BY <1>1, <2>1, <2>2
<1>5. blocks \in Seq(Block) /\ Len(blocks) \in Nat
  BY DEF DInv, IInv, TypeOK
<1> DEFINE added == SubSeq(blocks, 1, n)
<1>6. /\ added \in Seq(Block) /\ Len(added) = n
      /\ \A i \in 1..n : added[i] = blocks[i]
      /\ blocks' \in Seq(Block) /\ Len(blocks') = Len(blocks) - n
      /\ \A i \in 1..(Len(blocks) - n) : blocks'[i] = blocks[n + i]
  BY <1>2, BlocksSplit DEF DInv, IInv
<1>7. ch'[c].blocks = x.blocks \o added /\ x.blocks \in Seq(Block)
  BY <1>3 DEF Channel
<1> HIDE DEF added
<1>8. ASSUME NEW i \in DOMAIN blocks' PROVE IsTaken(blocks'[i])
  <2>1. i \in 1..(Len(blocks) - n)
    BY <1>6, <1>8
  <2>2. blocks'[i] = blocks[n + i]
    BY <2>1, <1>6
  <2>3. n + i \in DOMAIN blocks
    BY <2>1, <1>5
  <2> QED
    BY <2>2, <2>3 DEF DInv, InRange
<1>9. ASSUME NEW k \in DOMAIN ch'[c].blocks PROVE IsTaken(ch'[c].blocks[k])
  <2>1. \/ \E i \in DOMAIN x.blocks : ch'[c].blocks[k] = x.blocks[i]
        \/ \E i \in DOMAIN added : ch'[c].blocks[k] = added[i]
    <3>1. k \in DOMAIN (x.blocks \o added)
      BY <1>7, <1>9
    <3>2. \/ \E i \in DOMAIN x.blocks : (x.blocks \o added)[k] = x.blocks[i]
          \/ \E i \in DOMAIN added : (x.blocks \o added)[k] = added[i]
      BY <1>6, <1>7, <3>1, ConcatElements
    <3> QED
      BY <1>7, <3>2
  <2>2. \A i \in DOMAIN added : i \in DOMAIN blocks /\ added[i] = blocks[i]
    BY <1>5, <1>6
  <2> QED
    BY <2>1, <2>2, <1>4 DEF DInv, InRange
<1>10. \A d \in ChannelId : \A i \in DOMAIN ch'[d].blocks : IsTaken(ch'[d].blocks[i])
  <2> SUFFICES ASSUME NEW d \in ChannelId, NEW i \in DOMAIN ch'[d].blocks
               PROVE  IsTaken(ch'[d].blocks[i])
    OBVIOUS
  <2>1. CASE d = c
    BY <2>1, <1>9
  <2>2. CASE d # c
    BY <2>2, <1>3 DEF DInv, InRange
  <2> QED
    BY <2>1, <2>2
<1> QED
  BY <1>1, <1>8, <1>10 DEF InRange, IsTaken

LEMMA ConfirmKeepsBlocks ==
    ASSUME NEW x \in Channel, NEW fs \in Seq(Nat), NEW n \in Nat, NEW t \in Nat
    PROVE  /\ Confirm(x, fs, n, t) \in Channel
           /\ Confirm(x, fs, n, t).blocks = x.blocks
<1>1. Confirm(x, fs, n, t) \in Channel
  BY ConfirmType
<1>2. Confirm(x, fs, n, t).blocks = x.blocks
  <2> DEFINE C == x.confirmed \cup {[frames |-> fs, at |-> n]}
  <2>1. Confirm(x, fs, n, t) =
          [x EXCEPT !.pending = x.pending \ {fs}, !.timeout = t, !.confirmed = C]
    BY DEF Confirm
  <2> HIDE DEF C
  <2> QED
    BY <2>1 DEF Channel
<1> QED
  BY <1>1, <1>2

\* What TxConfirmed puts back in front of s.blocks has been taken before: also what the
\* shared array may hold by then.
LEMMA TxConfirmedInRange ==
    ASSUME DInv, NEW r \in inflight, NEW n \in 1..MaxL1, TxConfirmed(r, n)
    PROVE  InRange'
<1> DEFINE c == r.tx.ch
           y(t) == Confirm(ch[c], r.tx.frames, n, t)
<1>1. r.tx \in TxId /\ c \in ChannelId /\ r.tx.frames \in Seq(Nat)
  BY DEF DInv, IInv, TypeOK, TxId
<1>2. UNCHANGED <<tip, base>>
  BY DEF TxConfirmed
<1>3. \A d \in ChannelId : ch'[d].blocks = ch[d].blocks
  BY TxConfirmedSame DEF DInv
<1>4. CASE r.tx \notin txChannels
  <2>1. blocks' = blocks
    BY <1>4 DEF TxConfirmed
  <2>2. \A i \in DOMAIN blocks' : IsTaken(blocks'[i])
    BY <2>1 DEF DInv, InRange
  <2> QED
    BY <1>2, <1>3, <2>2, InRangeSame
<1>5. CASE r.tx \in txChannels
  <2>1. PICK t \in {InclusionDeadline(n), ch[c].timeout} :
           \E q \in ReturnedBlocks(c, y(t)) : blocks' = q \o blocks
    BY <1>5 DEF TxConfirmed
  <2>2. ch[c] \in Channel /\ t \in Nat /\ n \in Nat
    <3>1. ch[c] \in Channel
      BY <1>1 DEF DInv, IInv, TypeOK
    <3>2. ch[c].timeout \in Nat
      BY <3>1 DEF Channel
    <3>3. n \in Nat
      BY ConfigAssumption
    <3>4. InclusionDeadline(n) \in Nat
      BY <3>3, DeadlineType
    <3> QED
      BY <3>1, <3>2, <3>3, <3>4
  <2>3. y(t) \in Channel /\ y(t).blocks = ch[c].blocks
    <3>2. ch[c] \in Channel /\ n \in Nat /\ t \in Nat /\ r.tx.frames \in Seq(Nat)
      BY <1>1, <2>2
    <3> HIDE DEF c
    <3>3. /\ Confirm(ch[c], r.tx.frames, n, t) \in Channel
          /\ Confirm(ch[c], r.tx.frames, n, t).blocks = ch[c].blocks
      BY <3>2, ConfirmKeepsBlocks
    <3> QED
      BY <3>3
  <2> HIDE DEF y
  <2>4. PICK q \in ReturnedBlocks(c, y(t)) : blocks' = q \o blocks
    BY <2>1
  <2>5. q \in Seq(Block) /\ blocks \in Seq(Block)
    BY <2>3, ReturnedType DEF DInv, IInv, TypeOK
  <2>6. \A i \in DOMAIN ch[c].blocks : IsTaken(ch[c].blocks[i])
    BY <1>1 DEF DInv, InRange
  <2>7. \A i \in DOMAIN q : IsTaken(q[i])
    <3>1. CASE q = <<>>
      BY <3>1
    <3>2. CASE q = ch[c].blocks
      BY <3>2, <2>6
    <3>3. CASE q \in Overwritten(ch[c].blocks)
      <4> SUFFICES ASSUME NEW i \in DOMAIN q PROVE IsTaken(q[i])
        OBVIOUS
      <4>1. DOMAIN q = DOMAIN ch[c].blocks
        BY <3>3 DEF Overwritten
      <4>2. \/ q[i] = ch[c].blocks[i]
            \/ q[i] <= tip /\ ch[c].blocks[i] < q[i]
        BY <3>3, <4>1 DEF Overwritten
      <4>3. IsTaken(ch[c].blocks[i])
        BY <2>6, <4>1
      <4>4. q[i] \in Nat /\ ch[c].blocks[i] \in Nat /\ base \in Nat
        <5>1. ch[c].blocks \in Seq(Block)
          BY <2>2 DEF Channel
        <5>2. q[i] \in Block /\ ch[c].blocks[i] \in Block
          BY <5>1, <4>1, <2>5
        <5> QED
          BY <5>2, ConfigAssumption DEF Block, DInv, IInv, TypeOK
      <4> QED
        BY <4>2, <4>3, <4>4 DEF IsTaken
    <3>4. q = <<>> \/ q = ch[c].blocks \/ q \in Overwritten(ch[c].blocks)
      BY <2>3, Zenon DEF ReturnedBlocks
    <3> QED
      BY <3>1, <3>2, <3>3, <3>4
  <2>8. \A i \in DOMAIN blocks : IsTaken(blocks[i])
    BY DEF DInv, InRange
  <2>9. \A k \in DOMAIN blocks' : IsTaken(blocks'[k])
    <3> SUFFICES ASSUME NEW k \in DOMAIN blocks' PROVE IsTaken(blocks'[k])
      OBVIOUS
    <3>1. \/ \E i \in DOMAIN q : blocks'[k] = q[i]
          \/ \E i \in DOMAIN blocks : blocks'[k] = blocks[i]
      BY <2>4, <2>5, ConcatElements
    <3> QED
      BY <3>1, <2>7, <2>8
  <2> QED
    BY <1>2, <1>3, <2>9, InRangeSame
<1> QED
  BY <1>4, <1>5

LEMMA DInvInit == Init => DInv
<1> SUFFICES ASSUME Init PROVE InRange /\ base <= tip
  BY IInvInit DEF DInv
<1>1. \A c \in ChannelId : ch[c].blocks = <<>>
  BY TypeInit, NewChannelType DEF Init
<1> QED
  BY <1>1 DEF Init, InRange

LEMMA DInvStep == DInv /\ [Next]_vars => DInv'
<1> SUFFICES ASSUME DInv, [Next]_vars PROVE InRange' /\ base' <= tip'
  BY IInvStep DEF DInv
<1>t. base \in Nat /\ tip \in Nat /\ base <= tip
  BY ConfigAssumption DEF DInv, IInv, TypeOK
<1>b. \A i \in DOMAIN blocks : IsTaken(blocks[i])
  BY DEF DInv, InRange
<1>1. CASE L1Advance \/ (\E blobs \in BOOLEAN : SwitchDAType(blobs)) \/ UNCHANGED vars
  <2>1. UNCHANGED <<ch, blocks, tip, base>>
    BY <1>1 DEF L1Advance, SwitchDAType, vars, mgrVars
  <2> QED
    BY <2>1, <1>t, <1>b, InRangeSame
<1>2. ASSUME NEW b \in Block, AddL2Block(b) PROVE InRange' /\ base' <= tip'
  <2>1. base' <= tip'
    BY <1>2, <1>t, ConfigAssumption DEF AddL2Block, Block
  <2> QED
    BY <1>2, <2>1, AddL2BlockInRange
<1>3. CASE TxDataPending
  <2>1. UNCHANGED <<blocks, tip, base>>
    BY <1>3 DEF TxDataPending
  <2>2. \A d \in ChannelId : ch'[d].blocks = ch[d].blocks
    BY <1>3, TxDataPendingSame DEF DInv
  <2> QED
    BY <2>1, <2>2, <1>t, <1>b, InRangeSame
<1>4. CASE TxDataNew
  <2>1. UNCHANGED <<tip, base>>
    BY <1>4 DEF TxDataNew
  <2> QED
    BY <1>4, <2>1, <1>t, TxDataNewInRange
<1>5. ASSUME NEW r \in inflight, TxFailed(r) PROVE InRange' /\ base' <= tip'
  <2>1. UNCHANGED <<blocks, tip, base>>
    BY <1>5 DEF TxFailed
  <2>2. \A d \in ChannelId : ch'[d].blocks = ch[d].blocks
    BY <1>5, TxFailedSame DEF DInv
  <2> QED
    BY <2>1, <2>2, <1>t, <1>b, InRangeSame
<1>6. ASSUME NEW r \in inflight, NEW n \in 1..MaxL1, TxConfirmed(r, n)
      PROVE  InRange' /\ base' <= tip'
  <2>1. UNCHANGED <<tip, base>>
    BY <1>6 DEF TxConfirmed
  <2> QED
    BY <1>6, <2>1, <1>t, TxConfirmedInRange
<1>7. CASE Close
  <2>1. UNCHANGED <<blocks, tip, base>>
    BY <1>7 DEF Close
  <2>2. \A d \in ChannelId : ch'[d].blocks = ch[d].blocks
    BY <1>7, CloseSame DEF DInv
  <2> QED
    BY <2>1, <2>2, <1>t, <1>b, InRangeSame
<1>8. ASSUME NEW o \in 0..l1Head, Clear(o) PROVE InRange' /\ base' <= tip'
  <2>1. \A c \in ChannelId : ch'[c].blocks = <<>>
    BY <1>8, NewChannelType DEF Clear, DInv, IInv
  <2> QED
    BY <1>8, <2>1 DEF Clear, InRange
<1> QED
  BY <1>1, <1>2, <1>3, <1>4, <1>5, <1>6, <1>7, <1>8 DEF Next, TxData

-----------------------------------------------------------------------------
(* The refinement. *)

LEMMA HeldMember ==
    /\ \A b : b \in Held <=>
          \/ \E i \in DOMAIN blocks : blocks[i] = b
          \/ \E c \in channelQueue : \E i \in DOMAIN ch[c].blocks : ch[c].blocks[i] = b
    /\ \A b : b \in Held' <=>
          \/ \E i \in DOMAIN blocks' : blocks'[i] = b
          \/ \E c \in channelQueue' : \E i \in DOMAIN ch'[c].blocks : ch'[c].blocks[i] = b
  BY DEF Held, Range

LEMMA OnL1Member ==
    /\ \A b : b \in OnL1 <=>
          \E c \in ChannelId : Delivered(c) /\ \E i \in DOMAIN ch[c].blocks : ch[c].blocks[i] = b
    /\ \A b : b \in OnL1' <=>
          \E c \in ChannelId : /\ Delivered(c)'
                               /\ \E i \in DOMAIN ch'[c].blocks : ch'[c].blocks[i] = b
  BY DEF OnL1, Range

\* A step that is neither AddL2Block nor Close nor Clear is one of Work: what is delivered
\* stays so, and the rest follows from the invariants before and after it.
LEMMA WorkStep ==
    ASSUME DInv, DInv', UNCHANGED <<closed, tip, base>>,
           \A d \in ChannelId : Delivered(d) /\ ch[d].blocks # <<>> =>
                Delivered(d)' /\ ch'[d].blocks = ch[d].blocks
    PROVE  Delivery!Work
<1> DEFINE taken == IF tip = 0 THEN {} ELSE base..tip
<1>t. base \in Nat /\ tip \in Nat
  BY ConfigAssumption DEF DInv, IInv, TypeOK
<1>c. /\ \A i \in DOMAIN blocks : blocks[i] \in Int
      /\ \A i \in DOMAIN blocks' : blocks'[i] \in Int
      /\ \A c \in ChannelId : \A i \in DOMAIN ch[c].blocks : ch[c].blocks[i] \in Int
      /\ \A c \in ChannelId : \A i \in DOMAIN ch'[c].blocks : ch'[c].blocks[i] \in Int
  <2>1. blocks \in Seq(Block) /\ blocks' \in Seq(Block)
    BY DEF DInv, IInv, TypeOK
  <2>2. \A c \in ChannelId : ch[c].blocks \in Seq(Block) /\ ch'[c].blocks \in Seq(Block)
    BY DEF DInv, IInv, TypeOK, Channel
  <2> QED
    BY <2>1, <2>2, ConfigAssumption DEF Block
<1>1. Held' \subseteq taken
  <2> SUFFICES ASSUME NEW b \in Held' PROVE b \in taken
    OBVIOUS
  <2>1. channelQueue' \subseteq ChannelId
    BY DEF DInv, IInv, TypeOK
  <2>2. tip' # 0 /\ base' <= b /\ b <= tip' /\ b \in Int
    BY <2>1, <1>c, HeldMember DEF DInv, InRange, IsTaken
  <2> QED
    BY <2>2, <1>t
<1>2. OnL1' \subseteq taken
  <2> SUFFICES ASSUME NEW b \in OnL1' PROVE b \in taken
    OBVIOUS
  <2>1. tip' # 0 /\ base' <= b /\ b <= tip' /\ b \in Int
    BY <1>c, OnL1Member DEF DInv, InRange, IsTaken
  <2> QED
    BY <2>1, <1>t
<1>3. OnL1 \subseteq OnL1'
  <2> SUFFICES ASSUME NEW b \in OnL1 PROVE b \in OnL1'
    OBVIOUS
  <2>1. PICK c \in ChannelId : Delivered(c) /\ \E i \in DOMAIN ch[c].blocks : ch[c].blocks[i] = b
    BY OnL1Member
  <2>2. ch[c].blocks # <<>>
    BY <2>1
  <2> QED
    BY <2>1, <2>2, OnL1Member
<1>4. ~closed => Held \subseteq Held' \cup OnL1'
  <2> SUFFICES ASSUME ~closed, NEW b \in Held PROVE b \in Held' \cup OnL1'
    OBVIOUS
  <2>1. channelQueue \subseteq ChannelId
    BY DEF DInv, IInv, TypeOK
  <2>2. tip # 0 /\ base <= b /\ b <= tip /\ b \in Int
    BY <2>1, <1>c, HeldMember DEF DInv, InRange, IsTaken
  <2>3. ~closed' /\ tip' # 0 /\ b \in base'..tip'
    BY <2>2, <1>t
  <2>4. Kept(b)'
    BY <2>3 DEF DInv, IInv, NoBlockLost
  <2> QED
    BY <2>4, HeldMember, OnL1Member DEF Kept
<1> QED
  BY <1>1, <1>2, <1>3, <1>4 DEF Delivery!Work, Delivery!Taken

LEMMA TakeStep ==
    ASSUME DInv, ~closed, NEW b \in Block, AddL2Block(b)
    PROVE  \E a \in 1..MaxBlock : Delivery!Take(a)
<1>1. /\ blocks \in Seq(Block) /\ blocks' = Append(blocks, b) /\ tip' = b
      /\ tip \in {0, b - 1} /\ base' = IF tip = 0 THEN b ELSE base
      /\ UNCHANGED <<ch, channelQueue, closed>>
  BY DEF DInv, IInv, TypeOK, AddL2Block
<1>2. Held' = Held \cup {b}
  <2>1. \A a : (\E i \in DOMAIN blocks' : blocks'[i] = a)
                 <=> a = b \/ \E i \in DOMAIN blocks : blocks[i] = a
    <3>1. /\ Len(blocks) \in Nat /\ DOMAIN blocks = 1..Len(blocks)
          /\ DOMAIN blocks' = 1..(Len(blocks) + 1)
          /\ \A i \in 1..Len(blocks) : blocks'[i] = blocks[i]
          /\ blocks'[Len(blocks) + 1] = b
      BY <1>1
    <3> QED
      BY <3>1
  <2> QED
    BY <1>1, <2>1, HeldMember
<1>3. OnL1' = OnL1
  <2>1. ch' = ch
    BY <1>1
  <2>2. \A d \in ChannelId : ch'[d].blocks = ch[d].blocks /\ (Delivered(d) <=> Delivered(d)')
    BY <2>1 DEF Delivered
  <2> QED
    BY <2>2, OnL1Member
<1> QED
  BY <1>1, <1>2, <1>3 DEF Delivery!Take, Block

LEMMA CloseStep ==
    ASSUME DInv, Close
    PROVE  Delivery!Close
<1>1. \A d \in ChannelId : ch'[d].blocks = ch[d].blocks /\ (Delivered(d) <=> Delivered(d)')
  BY CloseSame DEF DInv
<1>2. channelQueue' \subseteq channelQueue /\ channelQueue \subseteq ChannelId
  BY DEF Close, RemovePendingChannels, DInv, IInv, TypeOK
<1>3. ~closed /\ closed' /\ UNCHANGED <<blocks, tip, base>>
  BY DEF Close
<1>4. Held' \subseteq Held
  BY <1>1, <1>2, <1>3, HeldMember
<1>5. OnL1' = OnL1
  BY <1>1, OnL1Member
<1>6. closed' \in BOOLEAN
  BY DEF Close
<1> QED
  BY <1>3, <1>4, <1>5, <1>6 DEF Delivery!Close

LEMMA ClearStep ==
    ASSUME DInv, NEW o, Clear(o)
    PROVE  Delivery!Reset
<1>1. \A c \in ChannelId : ch'[c].full = FALSE
  BY DEF Clear, Unborn
<1>2. OnL1' = {}
  BY <1>1, OnL1Member DEF Delivered
<1>3. Held' = {}
  BY HeldMember DEF Clear
<1> QED
  BY <1>2, <1>3 DEF Clear, Delivery!Reset

LEMMA DeliveryInit == Init => Delivery!Init
<1> SUFFICES ASSUME Init PROVE Delivery!Init
  OBVIOUS
<1>1. \A c \in ChannelId : ch[c].full = FALSE
  BY DEF Init, Unborn
<1>2. OnL1 = {}
  BY <1>1, OnL1Member DEF Delivered
<1>3. Held = {}
  BY HeldMember DEF Init
<1> QED
  BY <1>2, <1>3 DEF Init, Delivery!Init

LEMMA DeliveryStep ==
    DInv /\ DInv' /\ [Next]_vars => [Delivery!Next]_(Delivery!vars)
<1> SUFFICES ASSUME DInv, DInv', [Next]_vars PROVE Delivery!Next \/ UNCHANGED Delivery!vars
  OBVIOUS
<1>1. CASE L1Advance \/ (\E blobs \in BOOLEAN : SwitchDAType(blobs))
  <2>1. UNCHANGED <<ch, closed, tip, base>>
    BY <1>1 DEF L1Advance, SwitchDAType, mgrVars
  <2>2. Delivery!Work
    BY <2>1, WorkStep DEF Delivered
  <2> QED
    BY <2>2 DEF Delivery!Next
<1>2. ASSUME NEW b \in Block, ~closed, AddL2Block(b) PROVE Delivery!Next
  BY <1>2, TakeStep DEF Delivery!Next
<1>3. CASE TxDataPending
  <2>1. UNCHANGED <<closed, tip, base>>
    BY <1>3 DEF TxDataPending
  <2>2. Delivery!Work
    BY <1>3, <2>1, TxDataPendingSame, WorkStep DEF DInv
  <2> QED
    BY <2>2 DEF Delivery!Next
<1>4. CASE TxDataNew
  <2>1. UNCHANGED <<closed, tip, base>>
    BY <1>4 DEF TxDataNew
  <2>2. Delivery!Work
    BY <1>4, <2>1, TxDataNewSame, WorkStep DEF DInv
  <2> QED
    BY <2>2 DEF Delivery!Next
<1>5. ASSUME NEW r \in inflight, TxFailed(r) PROVE Delivery!Next
  <2>1. UNCHANGED <<closed, tip, base>>
    BY <1>5 DEF TxFailed
  <2>2. Delivery!Work
    BY <1>5, <2>1, TxFailedSame, WorkStep DEF DInv
  <2> QED
    BY <2>2 DEF Delivery!Next
<1>6. ASSUME NEW r \in inflight, NEW n \in 1..MaxL1, TxConfirmed(r, n) PROVE Delivery!Next
  <2>1. UNCHANGED <<closed, tip, base>>
    BY <1>6 DEF TxConfirmed
  <2>2. Delivery!Work
    BY <1>6, <2>1, TxConfirmedSame, WorkStep DEF DInv
  <2> QED
    BY <2>2 DEF Delivery!Next
<1>7. CASE Close
  BY <1>7, CloseStep DEF Delivery!Next
<1>8. ASSUME NEW o \in 0..l1Head, Clear(o) PROVE Delivery!Next
  BY <1>8, ClearStep DEF Delivery!Next
<1>9. CASE UNCHANGED vars
  BY <1>9 DEF vars, mgrVars, Delivery!vars, Held, OnL1, Delivered, Range
<1> QED
  BY <1>1, <1>2, <1>3, <1>4, <1>5, <1>6, <1>7, <1>8, <1>9 DEF Next, TxData

\* The channel manager implements BlockDelivery for every configuration and every order of
\* calls: blocks are taken in order, none is let go before it is on L1 as long as the
\* manager is open, and none is taken back from L1.
THEOREM BlocksDeliveredTheorem == Spec => BlocksDelivered
  BY DInvInit, DInvStep, DeliveryInit, DeliveryStep, PTL
     DEF Spec, BlocksDelivered, Delivery!Spec

-----------------------------------------------------------------------------
(* Moving frames between places. *)

\* The frames of place q are the k frames of a and then the l frames of b.
IsJoin(q, a, b, k, l) ==
    /\ DOMAIN q.frames = 1..(k + l) /\ DOMAIN a.frames = 1..k /\ DOMAIN b.frames = 1..l
    /\ \A i \in 1..k : q.frames[i] = a.frames[i]
    /\ \A i \in 1..l : q.frames[k + i] = b.frames[i]

\* The frames of q are split between a and b.
LEMMA SplitOnce ==
    ASSUME NEW P, NEW n \in Nat, EachOnce(P, n), NEW q \in P, NEW a, NEW b,
           NEW k \in Nat, NEW l \in Nat, IsJoin(q, a, b, k, l)
    PROVE  EachOnce((P \ {q}) \cup {a, b}, n)
<1> USE DEF IsJoin
<1> DEFINE N == (P \ {q}) \cup {a, b}
<1>2. \A i \in DOMAIN a.frames : i \in DOMAIN q.frames /\ a.frames[i] = q.frames[i]
  OBVIOUS
<1>3. \A i \in DOMAIN b.frames : k + i \in DOMAIN q.frames /\ b.frames[i] = q.frames[k + i]
  OBVIOUS
<1>4. \A i \in DOMAIN q.frames :
         \/ i \in DOMAIN a.frames
         \/ i - k \in DOMAIN b.frames /\ q.frames[i] = b.frames[i - k]
  <2> SUFFICES ASSUME NEW i \in DOMAIN q.frames, i \notin DOMAIN a.frames
               PROVE  i - k \in DOMAIN b.frames /\ q.frames[i] = b.frames[i - k]
    OBVIOUS
  <2>1. i - k \in 1..l /\ k + (i - k) = i
    OBVIOUS
  <2> QED
    BY <2>1
<1>5. ASSUME NEW f \in 0..(n - 1)
      PROVE  \E p \in N : \E i \in DOMAIN p.frames : p.frames[i] = f
  <2>1. PICK p \in P : \E i \in DOMAIN p.frames : p.frames[i] = f
    BY DEF EachOnce
  <2>2. CASE p # q
    BY <2>1, <2>2
  <2>3. CASE p = q
    <3>1. PICK i \in DOMAIN q.frames : q.frames[i] = f
      BY <2>1, <2>3
    <3> QED
      BY <3>1, <1>2, <1>4
  <2> QED
    BY <2>2, <2>3
\* Each frame in a new place was in one of the old ones.
<1>6. ASSUME NEW p \in N, NEW i \in DOMAIN p.frames
      PROVE  \E o \in P : \E g \in DOMAIN o.frames :
                /\ o.frames[g] = p.frames[i]
                /\ \/ p \in P \ {q} /\ o = p /\ g = i
                   \/ p = a /\ o = q /\ g = i /\ i <= k
                   \/ p = b /\ o = q /\ g = k + i /\ i >= 1
  <2>1. CASE p \in P \ {q}
    BY <2>1
  <2>2. CASE p = a
    <3>1. i \in DOMAIN q.frames /\ q.frames[i] = p.frames[i] /\ i <= k
      BY <2>2, <1>2
    <3> QED
      BY <2>2, <3>1
  <2>3. CASE p = b
    <3>1. k + i \in DOMAIN q.frames /\ q.frames[k + i] = p.frames[i] /\ i >= 1
      BY <2>3, <1>3
    <3> QED
      BY <2>3, <3>1
  <2> QED
    BY <2>1, <2>2, <2>3
<1>7. ASSUME NEW p \in N, NEW i \in DOMAIN p.frames PROVE p.frames[i] < n
  BY <1>6 DEF EachOnce
<1>8. ASSUME NEW p \in N, NEW i \in DOMAIN p.frames,
             NEW u \in N, NEW j \in DOMAIN u.frames, u.frames[j] = p.frames[i]
      PROVE  u = p /\ j = i
  <2>1. PICK o \in P : \E g \in DOMAIN o.frames :
                /\ o.frames[g] = p.frames[i]
                /\ \/ p \in P \ {q} /\ o = p /\ g = i
                   \/ p = a /\ o = q /\ g = i /\ i <= k
                   \/ p = b /\ o = q /\ g = k + i /\ i >= 1
    BY <1>6
  <2>2. PICK g \in DOMAIN o.frames :
                /\ o.frames[g] = p.frames[i]
                /\ \/ p \in P \ {q} /\ o = p /\ g = i
                   \/ p = a /\ o = q /\ g = i /\ i <= k
                   \/ p = b /\ o = q /\ g = k + i /\ i >= 1
    BY <2>1
  <2>3. PICK v \in P : \E m \in DOMAIN v.frames :
                /\ v.frames[m] = u.frames[j]
                /\ \/ u \in P \ {q} /\ v = u /\ m = j
                   \/ u = a /\ v = q /\ m = j /\ j <= k
                   \/ u = b /\ v = q /\ m = k + j /\ j >= 1
    BY <1>6
  <2>4. PICK m \in DOMAIN v.frames :
                /\ v.frames[m] = u.frames[j]
                /\ \/ u \in P \ {q} /\ v = u /\ m = j
                   \/ u = a /\ v = q /\ m = j /\ j <= k
                   \/ u = b /\ v = q /\ m = k + j /\ j >= 1
    BY <2>3
  <2>5. v = o /\ m = g
    BY <2>2, <2>4, <1>8 DEF EachOnce
  <2>6. (p = a => i \in 1..k) /\ (p = b => i \in 1..l)
         /\ (u = a => j \in 1..k) /\ (u = b => j \in 1..l)
    OBVIOUS
  <2> QED
    BY <2>2, <2>4, <2>5, <2>6
<1> HIDE DEF N
<1>9. EachOnce(N, n)
  BY <1>5, <1>7, <1>8 DEF EachOnce
<1> QED
  BY <1>9 DEF N

\* The frames of p are put behind those of q, in b.
LEMMA MergeOnce ==
    ASSUME NEW P, NEW n \in Nat, EachOnce(P, n), NEW q \in P, NEW p \in P, p # q, NEW b,
           NEW k \in Nat, NEW l \in Nat, IsJoin(b, q, p, k, l)
    PROVE  EachOnce((P \ {q, p}) \cup {b}, n)
<1> USE DEF IsJoin
<1> DEFINE N == (P \ {q, p}) \cup {b}
<1>2. \A i \in DOMAIN q.frames : i \in DOMAIN b.frames /\ b.frames[i] = q.frames[i]
  OBVIOUS
<1>3. \A i \in DOMAIN p.frames : k + i \in DOMAIN b.frames /\ b.frames[k + i] = p.frames[i]
  OBVIOUS
<1>4. \A i \in DOMAIN b.frames :
         \/ i \in DOMAIN q.frames /\ b.frames[i] = q.frames[i] /\ i <= k
         \/ i - k \in DOMAIN p.frames /\ b.frames[i] = p.frames[i - k] /\ i > k
  <2> SUFFICES ASSUME NEW i \in DOMAIN b.frames, i \notin DOMAIN q.frames
               PROVE  i - k \in DOMAIN p.frames /\ b.frames[i] = p.frames[i - k] /\ i > k
    BY <1>2
  <2>1. i > k /\ i - k \in 1..l /\ k + (i - k) = i
    OBVIOUS
  <2>2. b.frames[k + (i - k)] = p.frames[i - k]
    BY <2>1
  <2> QED
    BY <2>1, <2>2
<1>5. ASSUME NEW f \in 0..(n - 1)
      PROVE  \E o \in N : \E i \in DOMAIN o.frames : o.frames[i] = f
  <2>1. PICK o \in P : \E i \in DOMAIN o.frames : o.frames[i] = f
    BY DEF EachOnce
  <2>2. CASE o \notin {q, p}
    BY <2>1, <2>2
  <2>3. CASE o = q
    BY <2>1, <2>3, <1>2
  <2>4. CASE o = p
    <3>1. PICK i \in DOMAIN p.frames : p.frames[i] = f
      BY <2>1, <2>4
    <3>2. k + i \in DOMAIN b.frames /\ b.frames[k + i] = f
      BY <3>1, <1>3
    <3> QED
      BY <3>2
  <2> QED
    BY <2>2, <2>3, <2>4
\* Each frame in a new place was in one of the old ones.
<1>6. ASSUME NEW u \in N, NEW i \in DOMAIN u.frames
      PROVE  \E o \in P : \E g \in DOMAIN o.frames :
                /\ o.frames[g] = u.frames[i]
                /\ \/ u \in P \ {q, p} /\ o = u /\ g = i
                   \/ u = b /\ o = q /\ g = i
                   \/ u = b /\ o = p /\ g = i - k
  <2>1. CASE u \in P \ {q, p}
    BY <2>1
  <2>2. CASE u = b
    BY <2>2, <1>4
  <2> QED
    BY <2>1, <2>2
<1>7. ASSUME NEW u \in N, NEW i \in DOMAIN u.frames PROVE u.frames[i] < n
  BY <1>6 DEF EachOnce
<1>8. ASSUME NEW u \in N, NEW i \in DOMAIN u.frames,
             NEW v \in N, NEW j \in DOMAIN v.frames, v.frames[j] = u.frames[i]
      PROVE  v = u /\ j = i
  <2>1. PICK o \in P : \E g \in DOMAIN o.frames :
                /\ o.frames[g] = u.frames[i]
                /\ \/ u \in P \ {q, p} /\ o = u /\ g = i
                   \/ u = b /\ o = q /\ g = i
                   \/ u = b /\ o = p /\ g = i - k
    BY <1>6
  <2>2. PICK g \in DOMAIN o.frames :
                /\ o.frames[g] = u.frames[i]
                /\ \/ u \in P \ {q, p} /\ o = u /\ g = i
                   \/ u = b /\ o = q /\ g = i
                   \/ u = b /\ o = p /\ g = i - k
    BY <2>1
  <2>3. PICK w \in P : \E m \in DOMAIN w.frames :
                /\ w.frames[m] = v.frames[j]
                /\ \/ v \in P \ {q, p} /\ w = v /\ m = j
                   \/ v = b /\ w = q /\ m = j
                   \/ v = b /\ w = p /\ m = j - k
    BY <1>6
  <2>4. PICK m \in DOMAIN w.frames :
                /\ w.frames[m] = v.frames[j]
                /\ \/ v \in P \ {q, p} /\ w = v /\ m = j
                   \/ v = b /\ w = q /\ m = j
                   \/ v = b /\ w = p /\ m = j - k
    BY <2>3
  <2>5. w = o /\ m = g
    BY <2>2, <2>4, <1>8 DEF EachOnce
  <2>6. (u = b => i \in Nat) /\ (v = b => j \in Nat)
    OBVIOUS
  <2> QED
    BY <2>2, <2>4, <2>5, <2>6
<1> HIDE DEF N
<1>9. EachOnce(N, n)
  BY <1>5, <1>7, <1>8 DEF EachOnce
<1> QED
  BY <1>9 DEF N

\* The frames of p move to b.
LEMMA MoveOnce ==
    ASSUME NEW P, NEW n \in Nat, EachOnce(P, n), NEW p \in P, NEW b, b.frames = p.frames
    PROVE  EachOnce((P \ {p}) \cup {b}, n)
  BY DEF EachOnce

\* m more frames go behind those of q, in b.
FramesNat(P) == \A p \in P : \A i \in DOMAIN p.frames : p.frames[i] \in Nat
Extends(b, q, n, k, m) ==
    /\ DOMAIN q.frames = 1..k /\ DOMAIN b.frames = 1..(k + m)
    /\ \A i \in 1..k : b.frames[i] = q.frames[i]
    /\ \A i \in 1..m : b.frames[k + i] = n + i - 1

\* The place of a frame in b tells its number.
LEMMA PlaceOfNumber ==
    ASSUME NEW k \in Nat, NEW n \in Nat, NEW i \in Nat, NEW j \in Nat, NEW f, NEW D,
           (i \in D /\ f < n) \/ (i > k /\ f = n + (i - k) - 1),
           (j \in D /\ f < n) \/ (j > k /\ f = n + (j - k) - 1),
           ~(i \in D /\ j \in D)
    PROVE  i = j
  OBVIOUS

LEMMA ExtendOnce ==
    ASSUME NEW P, NEW n \in Nat, EachOnce(P, n), FramesNat(P), NEW q \in P, NEW b,
           NEW k \in Nat, NEW m \in Nat, Extends(b, q, n, k, m)
    PROVE  EachOnce((P \ {q}) \cup {b}, n + m)
<1> DEFINE N == (P \ {q}) \cup {b}
<1>2. \A i \in DOMAIN q.frames : i \in DOMAIN b.frames /\ b.frames[i] = q.frames[i]
  BY DEF Extends
<1>3. \A i \in DOMAIN b.frames :
         \/ i \in DOMAIN q.frames /\ b.frames[i] = q.frames[i] /\ b.frames[i] < n
         \/ i > k /\ b.frames[i] = n + (i - k) - 1 /\ i - k \in 1..m
  <2> SUFFICES ASSUME NEW i \in DOMAIN b.frames, i \notin DOMAIN q.frames
               PROVE  i > k /\ b.frames[i] = n + (i - k) - 1 /\ i - k \in 1..m
    BY <1>2 DEF EachOnce
  <2>1. i \in Nat /\ i > k /\ i - k \in 1..m /\ k + (i - k) = i
    BY DEF Extends
  <2>2. b.frames[k + (i - k)] = n + (i - k) - 1
    BY <2>1 DEF Extends
  <2> QED
    BY <2>1, <2>2
<1>4. ASSUME NEW f \in 0..((n + m) - 1)
      PROVE  \E o \in N : \E i \in DOMAIN o.frames : o.frames[i] = f
  <2>1. CASE f \in 0..(n - 1)
    <3>1. PICK o \in P : \E i \in DOMAIN o.frames : o.frames[i] = f
      BY <2>1 DEF EachOnce
    <3> QED
      BY <3>1, <1>2
  <2>2. CASE f \notin 0..(n - 1)
    <3> DEFINE i == f - n + 1
    <3>1. i \in 1..m /\ k + i \in DOMAIN b.frames /\ n + i - 1 = f
      BY <2>2 DEF Extends
    <3> HIDE DEF i
    <3>2. b.frames[k + i] = f
      BY <3>1 DEF Extends
    <3> QED
      BY <3>1, <3>2
  <2> QED
    BY <2>1, <2>2
<1>5. ASSUME NEW u \in N, NEW i \in DOMAIN u.frames PROVE u.frames[i] < n + m
  <2>1. CASE u \in P
    <3>1. u.frames[i] < n /\ u.frames[i] \in Nat
      BY <2>1 DEF EachOnce, FramesNat
    <3> QED
      BY <3>1
  <2>2. CASE u = b
    <3>1. CASE i \in DOMAIN q.frames /\ b.frames[i] = q.frames[i]
      BY <2>2, <3>1 DEF EachOnce, FramesNat
    <3>2. CASE i > k /\ b.frames[i] = n + (i - k) - 1 /\ i - k \in 1..m
      BY <2>2, <3>2
    <3> QED
      BY <2>2, <3>1, <3>2, <1>3
  <2> QED
    BY <2>1, <2>2
<1>6. ASSUME NEW u \in N, NEW i \in DOMAIN u.frames,
             NEW v \in N, NEW j \in DOMAIN v.frames, v.frames[j] = u.frames[i]
      PROVE  v = u /\ j = i
  <2>1. (u = b => i \in Nat) /\ (v = b => j \in Nat)
    BY DEF Extends
  <2>2. CASE u \in P \ {q} /\ v \in P \ {q}
    BY <1>6, <2>2 DEF EachOnce
  <2>3. ASSUME NEW o \in P \ {q}, NEW g \in DOMAIN o.frames, NEW l \in DOMAIN b.frames
        PROVE  o.frames[g] # b.frames[l]
    <3>1. o.frames[g] < n /\ o.frames[g] \in Nat /\ l \in Nat
      BY DEF EachOnce, FramesNat, Extends
    <3>2. CASE l \in DOMAIN q.frames /\ b.frames[l] = q.frames[l]
      BY <3>2 DEF EachOnce
    <3>3. CASE l > k /\ b.frames[l] = n + (l - k) - 1
      BY <3>1, <3>3, <2>1
    <3> QED
      BY <3>2, <3>3, <1>3
  <2>4. CASE u = b /\ v = b
    <3>1. /\ \/ i \in DOMAIN q.frames /\ b.frames[i] = q.frames[i] /\ b.frames[i] < n
             \/ i > k /\ b.frames[i] = n + (i - k) - 1
          /\ \/ j \in DOMAIN q.frames /\ b.frames[j] = q.frames[j] /\ b.frames[j] < n
             \/ j > k /\ b.frames[j] = n + (j - k) - 1
      BY <2>4, <1>3
    <3>2. CASE i \in DOMAIN q.frames /\ j \in DOMAIN q.frames
      BY <3>1, <3>2, <1>2, <1>6, <2>4 DEF EachOnce
    <3>3. CASE ~(i \in DOMAIN q.frames /\ j \in DOMAIN q.frames)
      <4>1. i \in Nat /\ j \in Nat
        BY <2>1, <2>4
      <4>2. b.frames[i] = b.frames[j]
        BY <1>6, <2>4
      <4>3. /\ \/ i \in DOMAIN q.frames /\ b.frames[i] < n
               \/ i > k /\ b.frames[i] = n + (i - k) - 1
            /\ \/ j \in DOMAIN q.frames /\ b.frames[i] < n
               \/ j > k /\ b.frames[i] = n + (j - k) - 1
        BY <3>1, <4>2
      <4>4. i = j
        BY <3>3, <4>1, <4>3, PlaceOfNumber
      <4> QED
        BY <2>4, <4>4
    <3> QED
      BY <3>2, <3>3
  <2> QED
    BY <1>6, <2>2, <2>3, <2>4
<1> HIDE DEF N
<1>7. EachOnce(N, n + m)
  BY <1>4, <1>5, <1>6 DEF EachOnce
<1> QED
  BY <1>7 DEF N
-----------------------------------------------------------------------------
(* The operations on a channel object keep its frames accounted for. *)

\* Places of different kinds differ, and a place tells its frames.
LEMMA PlaceFacts ==
    ASSUME NEW fs, NEW gs, NEW r
    PROVE  /\ InQueue(fs).frames = fs /\ InPending(fs).frames = fs
           /\ InConfirmed(r).frames = r.frames
           /\ InQueue(fs) # InPending(gs)
           /\ InQueue(fs) # InConfirmed(r)
           /\ InPending(fs) # InConfirmed(r)
<1>1. /\ InQueue(fs).kind = "queue" /\ InPending(gs).kind = "pending"
      /\ InPending(fs).kind = "pending" /\ InConfirmed(r).kind = "confirmed"
  BY DEF InQueue, InPending, InConfirmed
<1>2. "queue" # "pending" /\ "queue" # "confirmed" /\ "pending" # "confirmed"
  OBVIOUS
<1> QED
  BY <1>1, <1>2 DEF InQueue, InPending, InConfirmed

LEMMA QueueNotPending == \A fs, gs : InQueue(fs) # InPending(gs)
  BY PlaceFacts

LEMMA ConfirmedElsewhere ==
    \A r, fs : InConfirmed(r) # InQueue(fs) /\ InConfirmed(r) # InPending(fs)
  BY PlaceFacts

LEMMA PendingDiffer == \A fs, gs : InPending(fs) = InPending(gs) => fs = gs
<1> SUFFICES ASSUME NEW fs, NEW gs, InPending(fs) = InPending(gs) PROVE fs = gs
  OBVIOUS
<1>1. InPending(fs).frames = fs /\ InPending(gs).frames = gs
  BY PlaceFacts
<1> QED
  BY <1>1

LEMMA PlaceMember ==
    ASSUME NEW x, NEW p
    PROVE  p \in Places(x) <=>
              \/ p = InQueue(x.frames)
              \/ \E fs \in x.pending : p = InPending(fs)
              \/ \E r \in x.confirmed : p = InConfirmed(r)
  BY DEF Places

LEMMA PlaceType ==
    ASSUME NEW x \in Channel, NEW p \in Places(x)
    PROVE  p.frames \in Seq(Nat)
<1>1. /\ x.frames \in Seq(Nat)
      /\ \A fs \in x.pending : fs \in Seq(Nat)
      /\ \A r \in x.confirmed : r.frames \in Seq(Nat)
  BY DEF Channel
<1>2. CASE p = InQueue(x.frames)
  BY <1>1, <1>2, PlaceFacts
<1>3. CASE \E fs \in x.pending : p = InPending(fs)
  BY <1>1, <1>3, PlaceFacts
<1>4. CASE \E r \in x.confirmed : p = InConfirmed(r)
  BY <1>1, <1>4, PlaceFacts
<1> QED
  BY <1>2, <1>3, <1>4, PlaceMember

LEMMA ConcatParts ==
    ASSUME NEW S, NEW s \in Seq(S), NEW u \in Seq(S)
    PROVE  /\ s \o u \in Seq(S) /\ Len(s \o u) = Len(s) + Len(u)
           /\ DOMAIN (s \o u) = 1..(Len(s) + Len(u))
           /\ \A i \in 1..Len(s) : (s \o u)[i] = s[i]
           /\ \A i \in 1..Len(u) : (s \o u)[Len(s) + i] = u[i]
<1>1. /\ s \o u \in Seq(S) /\ Len(s \o u) = Len(s) + Len(u)
      /\ \A i \in 1..(Len(s) + Len(u)) :
            (s \o u)[i] = IF i <= Len(s) THEN s[i] ELSE u[i - Len(s)]
  BY ConcatProperties
<1>2. Len(s) \in Nat /\ Len(u) \in Nat
  OBVIOUS
<1>3. DOMAIN (s \o u) = 1..(Len(s) + Len(u))
  BY <1>1
<1>4. ASSUME NEW i \in 1..Len(s) PROVE (s \o u)[i] = s[i]
  <2>1. i \in 1..(Len(s) + Len(u)) /\ i <= Len(s)
    BY <1>2
  <2> QED
    BY <1>1, <2>1
<1>5. ASSUME NEW i \in 1..Len(u) PROVE (s \o u)[Len(s) + i] = u[i]
  <2>1. /\ Len(s) + i \in 1..(Len(s) + Len(u)) /\ ~(Len(s) + i <= Len(s))
        /\ (Len(s) + i) - Len(s) = i
    BY <1>2
  <2> QED
    BY <1>1, <2>1
<1> QED
  BY <1>1, <1>3, <1>4, <1>5

LEMMA SeqDomain ==
    ASSUME NEW s \in Seq(Nat)
    PROVE  Len(s) \in Nat /\ DOMAIN s = 1..Len(s) /\ \A i \in DOMAIN s : s[i] \in Nat
  OBVIOUS

\* The places of a channel y that x becomes by one operation.
LEMMA PlacesSent ==
    ASSUME NEW x, NEW y, NEW a,
           y.pending = x.pending \cup {a}, y.confirmed = x.confirmed
    PROVE  Places(y) =
             (Places(x) \ {InQueue(x.frames)}) \cup {InPending(a), InQueue(y.frames)}
  BY QueueNotPending, ConfirmedElsewhere DEF Places

LEMMA PlacesRequeued ==
    ASSUME NEW x, NEW y, NEW fs,
           y.pending = x.pending \ {fs}, y.confirmed = x.confirmed
    PROVE  Places(y) =
             (Places(x) \ {InQueue(x.frames), InPending(fs)}) \cup {InQueue(y.frames)}
  BY QueueNotPending, ConfirmedElsewhere, PendingDiffer DEF Places

Confirms(x, y, fs, r) ==
    y.frames = x.frames /\ y.pending = x.pending \ {fs} /\ y.confirmed = x.confirmed \cup {r}

LEMMA PlacesConfirmed ==
    ASSUME NEW x, NEW y, NEW fs, NEW r, Confirms(x, y, fs, r)
    PROVE  Places(y) = (Places(x) \ {InPending(fs)}) \cup {InConfirmed(r)}
  BY QueueNotPending, ConfirmedElsewhere, PendingDiffer DEF Places, Confirms

LEMMA PlacesOutput ==
    ASSUME NEW x, NEW y, y.pending = x.pending, y.confirmed = x.confirmed
    PROVE  Places(y) = (Places(x) \ {InQueue(x.frames)}) \cup {InQueue(y.frames)}
  BY QueueNotPending, ConfirmedElsewhere DEF Places

\* The frames of a channel are accounted for.
FramesGood(x) == EachOnce(Places(x), x.numFrames)

LEMMA NextTxDataFrames ==
    ASSUME NEW x \in Channel, FramesGood(x)
    PROVE  FramesGood(NextTxData(x))
<1> DEFINE k == IF Len(x.frames) < MaxFramesPerTx(x) THEN Len(x.frames)
                ELSE MaxFramesPerTx(x)
           a == TxFrames(x)
           b == SubSeq(x.frames, Len(TxFrames(x)) + 1, Len(x.frames))
           l == Len(x.frames) - k
<1>1. x.frames \in Seq(Nat) /\ Len(x.frames) \in Nat /\ DOMAIN x.frames = 1..Len(x.frames)
  BY DEF Channel
<1>2. MaxFramesPerTx(x) \in Nat
  BY ConfigAssumption DEF MaxFramesPerTx
<1>3. k \in 0..Len(x.frames) /\ l \in Nat /\ Len(x.frames) = k + l
  BY <1>1, <1>2
<1>4. Len(a) = k /\ DOMAIN a = 1..k /\ \A i \in 1..k : a[i] = x.frames[i]
  <2>1. \A i \in 1..k : x.frames[i] \in Nat
    <3> HIDE DEF k
    <3> QED
      BY <1>1, <1>3
  <2>2. a = SubSeq(x.frames, 1, k)
    BY DEF TxFrames
  <2> HIDE DEF a, k
  <2>7. k \in Int /\ \A i \in 1..k : x.frames[i] \in Nat
    BY <1>1, <1>3, <2>1
  <2>8. /\ a \in Seq(Nat)
        /\ Len(a) = IF 1 <= k THEN k - 1 + 1 ELSE 0
        /\ \A i \in 1..(k - 1 + 1) : a[i] = x.frames[1 + i - 1]
    BY <2>7, <2>2, SubSeqProperties
  <2>3. Len(a) = k
    BY <2>8, <1>1, <1>3
  <2>4. DOMAIN a = 1..k
    BY <2>8, <2>3
  <2>5. ASSUME NEW i \in 1..k PROVE a[i] = x.frames[i]
    <3>1. i \in 1..(k - 1 + 1) /\ 1 + i - 1 = i
      BY <1>1, <1>3
    <3> QED
      BY <2>8, <3>1
  <2> QED
    BY <2>3, <2>4, <2>5
<1>5. Len(b) = l /\ DOMAIN b = 1..l /\ \A i \in 1..l : b[i] = x.frames[k + i]
  <2>1. \A i \in (k + 1)..Len(x.frames) : x.frames[i] \in Nat
    BY <1>1, <1>3
  <2>2. b = SubSeq(x.frames, k + 1, Len(x.frames))
    BY <1>4
  <2> HIDE DEF a, b, k, l
  <2>3. /\ b \in Seq(Nat)
        /\ Len(b) = IF k + 1 <= Len(x.frames) THEN Len(x.frames) - (k + 1) + 1 ELSE 0
        /\ \A i \in 1..(Len(x.frames) - (k + 1) + 1) : b[i] = x.frames[(k + 1) + i - 1]
    <3>1. k + 1 \in Int /\ Len(x.frames) \in Int
      BY <1>1, <1>3
    <3> QED
      BY <2>1, <2>2, <3>1, SubSeqProperties
  <2>4. Len(b) = l
    BY <2>3, <1>1, <1>3
  <2>5. DOMAIN b = 1..l
    BY <2>3, <2>4
  <2>6. ASSUME NEW i \in 1..l PROVE b[i] = x.frames[k + i]
    <3>1. i \in 1..(Len(x.frames) - (k + 1) + 1) /\ (k + 1) + i - 1 = k + i
      BY <1>1, <1>3
    <3> QED
      BY <2>3, <3>1
  <2> QED
    BY <2>4, <2>5, <2>6
<1>6. /\ NextTxData(x).frames = b
      /\ NextTxData(x).pending = x.pending \cup {a}
      /\ NextTxData(x).confirmed = x.confirmed /\ NextTxData(x).numFrames = x.numFrames
  BY DEF NextTxData, Channel
<1> HIDE DEF a, b, k, l
<1>7. Places(NextTxData(x)) = (Places(x) \ {InQueue(x.frames)}) \cup {InPending(a), InQueue(b)}
  BY <1>6, PlacesSent
<1>8. InQueue(x.frames) \in Places(x)
  BY PlaceMember
<1>9. x.numFrames \in Nat
  BY DEF Channel
<1>10. k \in Nat
  BY <1>1, <1>3
<1>11. EachOnce((Places(x) \ {InQueue(x.frames)}) \cup {InPending(a), InQueue(b)}, x.numFrames)
  <2> DEFINE q == InQueue(x.frames)
             u == InPending(a)
             v == InQueue(b)
  <2>1. q.frames = x.frames /\ u.frames = a /\ v.frames = b
    BY PlaceFacts
  <2>2. q \in Places(x)
    BY <1>8
  <2> HIDE DEF q, u, v
  <2>3. IsJoin(q, u, v, k, l)
    BY <2>1, <1>1, <1>3, <1>4, <1>5 DEF IsJoin
  <2>5. EachOnce(Places(x), x.numFrames)
    BY DEF FramesGood
  <2>6. EachOnce((Places(x) \ {q}) \cup {u, v}, x.numFrames)
    <3> DEFINE P == Places(x)
               n == x.numFrames
    <3>1. EachOnce(P, n) /\ n \in Nat /\ q \in P /\ k \in Nat /\ l \in Nat
      BY <1>3, <1>9, <1>10, <2>2, <2>5
    <3> HIDE DEF P, n
    <3>2. EachOnce((P \ {q}) \cup {u, v}, n)
      BY <2>3, <3>1, SplitOnce
    <3> QED
      BY <3>2 DEF P, n
  <2> QED
    BY <2>6 DEF q, u, v
<1> QED
  BY <1>6, <1>7, <1>11 DEF FramesGood

LEMMA RequeueFrames ==
    ASSUME NEW x \in Channel, FramesGood(x), NEW fs \in x.pending
    PROVE  FramesGood(Requeue(x, fs))
<1> DEFINE b == x.frames \o fs
<1>1. /\ x.frames \in Seq(Nat) /\ Len(x.frames) \in Nat /\ DOMAIN x.frames = 1..Len(x.frames)
      /\ fs \in Seq(Nat) /\ Len(fs) \in Nat /\ DOMAIN fs = 1..Len(fs)
      /\ x.numFrames \in Nat
  BY DEF Channel
<1>2. /\ b \in Seq(Nat) /\ Len(b) = Len(x.frames) + Len(fs)
      /\ DOMAIN b = 1..(Len(x.frames) + Len(fs))
      /\ \A i \in 1..Len(x.frames) : b[i] = x.frames[i]
      /\ \A i \in 1..Len(fs) : b[Len(x.frames) + i] = fs[i]
  BY <1>1, ConcatParts
<1>3. /\ Requeue(x, fs).frames = b
      /\ Requeue(x, fs).pending = x.pending \ {fs}
      /\ Requeue(x, fs).confirmed = x.confirmed /\ Requeue(x, fs).numFrames = x.numFrames
  <2>1. Requeue(x, fs) = [x EXCEPT !.frames = b, !.pending = x.pending \ {fs}]
    BY DEF Requeue
  <2> HIDE DEF b
  <2> QED
    BY <2>1 DEF Channel
<1> HIDE DEF b
<1>4. InQueue(x.frames) \in Places(x) /\ InPending(fs) \in Places(x)
  BY PlaceMember
<1>5. Places(Requeue(x, fs)) = (Places(x) \ {InQueue(x.frames), InPending(fs)}) \cup {InQueue(b)}
  BY <1>3, PlacesRequeued
<1>6. EachOnce((Places(x) \ {InQueue(x.frames), InPending(fs)}) \cup {InQueue(b)}, x.numFrames)
  <2> DEFINE q == InQueue(x.frames)
             p == InPending(fs)
             v == InQueue(b)
             k == Len(x.frames)
             l == Len(fs)
  <2>1. q.frames = x.frames /\ p.frames = fs /\ v.frames = b /\ p # q
    BY PlaceFacts
  <2>2. q \in Places(x) /\ p \in Places(x)
    BY <1>4
  <2>3. k \in Nat /\ l \in Nat
    BY <1>1
  <2> HIDE DEF q, p, v
  <2>4. IsJoin(v, q, p, k, l)
    BY <2>1, <1>1, <1>2 DEF IsJoin
  <2>6. EachOnce(Places(x), x.numFrames)
    BY DEF FramesGood
  <2> HIDE DEF k, l
  <2>7. EachOnce((Places(x) \ {q, p}) \cup {v}, x.numFrames)
    <3> DEFINE P == Places(x)
               n == x.numFrames
    <3>1. /\ EachOnce(P, n) /\ n \in Nat /\ q \in P /\ p \in P /\ p # q
          /\ k \in Nat /\ l \in Nat
      BY <1>1, <2>1, <2>2, <2>3, <2>6
    <3> HIDE DEF P, n
    <3>2. EachOnce((P \ {q, p}) \cup {v}, n)
      BY <2>4, <3>1, MergeOnce
    <3> QED
      BY <3>2 DEF P, n
  <2> QED
    BY <2>7 DEF q, p, v
<1> QED
  BY <1>3, <1>5, <1>6 DEF FramesGood

LEMMA ConfirmFrames ==
    ASSUME NEW x \in Channel, FramesGood(x), NEW fs \in x.pending, NEW n, NEW t
    PROVE  FramesGood(Confirm(x, fs, n, t))
<1> DEFINE r == [frames |-> fs, at |-> n]
<1>1. r.frames = fs
  OBVIOUS
<1>2. /\ Confirm(x, fs, n, t).frames = x.frames
      /\ Confirm(x, fs, n, t).pending = x.pending \ {fs}
      /\ Confirm(x, fs, n, t).confirmed = x.confirmed \cup {r}
      /\ Confirm(x, fs, n, t).numFrames = x.numFrames /\ x.numFrames \in Nat
  <2> DEFINE C == x.confirmed \cup {r}
  <2>1. Confirm(x, fs, n, t) =
          [x EXCEPT !.pending = x.pending \ {fs}, !.timeout = t, !.confirmed = C]
    BY DEF Confirm
  <2> HIDE DEF C, r
  <2>2. /\ Confirm(x, fs, n, t).frames = x.frames
        /\ Confirm(x, fs, n, t).pending = x.pending \ {fs}
        /\ Confirm(x, fs, n, t).confirmed = C
        /\ Confirm(x, fs, n, t).numFrames = x.numFrames /\ x.numFrames \in Nat
    BY <2>1 DEF Channel
  <2> QED
    BY <2>2 DEF C
<1> HIDE DEF r
<1>3. InPending(fs) \in Places(x)
  BY PlaceMember
<1>4. Places(Confirm(x, fs, n, t)) = (Places(x) \ {InPending(fs)}) \cup {InConfirmed(r)}
  <2> DEFINE y == Confirm(x, fs, n, t)
  <2>1. Confirms(x, y, fs, r)
    BY <1>2 DEF Confirms
  <2> HIDE DEF y
  <2>2. Places(y) = (Places(x) \ {InPending(fs)}) \cup {InConfirmed(r)}
    BY <2>1, PlacesConfirmed
  <2> QED
    BY <2>2 DEF y
<1>5. EachOnce((Places(x) \ {InPending(fs)}) \cup {InConfirmed(r)}, x.numFrames)
  <2> DEFINE p == InPending(fs)
             v == InConfirmed(r)
  <2>1. v.frames = p.frames /\ p \in Places(x)
    BY <1>1, <1>3, PlaceFacts
  <2>2. EachOnce(Places(x), x.numFrames) /\ x.numFrames \in Nat
    BY <1>2 DEF FramesGood
  <2> HIDE DEF p, v
  <2>3. EachOnce((Places(x) \ {p}) \cup {v}, x.numFrames)
    BY <2>1, <2>2, MoveOnce
  <2> QED
    BY <2>3 DEF p, v
<1> QED
  BY <1>2, <1>4, <1>5 DEF FramesGood

LEMMA OutputFramesFrames ==
    ASSUME NEW x \in Channel, FramesGood(x), NEW m \in Nat, NEW full
    PROVE  FramesGood(OutputFrames(x, m, full))
<1> DEFINE b == x.frames \o [i \in 1..m |-> x.numFrames + i - 1]
<1>1. /\ x.frames \in Seq(Nat) /\ Len(x.frames) \in Nat /\ DOMAIN x.frames = 1..Len(x.frames)
      /\ x.numFrames \in Nat
  BY DEF Channel
<1>2. /\ [i \in 1..m |-> x.numFrames + i - 1] \in Seq(Nat)
      /\ Len([i \in 1..m |-> x.numFrames + i - 1]) = m
      /\ \A i \in 1..m : [j \in 1..m |-> x.numFrames + j - 1][i] = x.numFrames + i - 1
  <2>1. \A i \in 1..m : x.numFrames + i - 1 \in Nat
    BY <1>1
  <2> QED
    BY <2>1
<1>3. /\ DOMAIN b = 1..(Len(x.frames) + m)
      /\ \A i \in 1..Len(x.frames) : b[i] = x.frames[i]
      /\ \A i \in 1..m : b[Len(x.frames) + i] = x.numFrames + i - 1
  <2> DEFINE g == [i \in 1..m |-> x.numFrames + i - 1]
  <2>1. g \in Seq(Nat) /\ Len(g) = m /\ \A i \in 1..m : g[i] = x.numFrames + i - 1
    BY <1>2
  <2>2. b = x.frames \o g
    OBVIOUS
  <2> HIDE DEF g, b
  <2>3. /\ DOMAIN b = 1..(Len(x.frames) + m)
        /\ \A i \in 1..Len(x.frames) : b[i] = x.frames[i]
        /\ \A i \in 1..m : b[Len(x.frames) + i] = g[i]
    <3> DEFINE u == x.frames
    <3>1. /\ u \in Seq(Nat) /\ Len(u) \in Nat /\ DOMAIN u = 1..Len(u)
          /\ g \in Seq(Nat) /\ Len(g) \in Nat /\ DOMAIN g = 1..Len(g)
      BY <1>1, <2>1
    <3>2. b = u \o g
      BY <2>2
    <3> HIDE DEF u
    <3>3. /\ DOMAIN (u \o g) = 1..(Len(u) + Len(g))
          /\ \A i \in 1..Len(u) : (u \o g)[i] = u[i]
          /\ \A i \in 1..Len(g) : (u \o g)[Len(u) + i] = g[i]
      BY <3>1, ConcatParts
    <3>4. /\ DOMAIN b = 1..(Len(u) + m)
          /\ \A i \in 1..Len(u) : b[i] = u[i]
          /\ \A i \in 1..m : b[Len(u) + i] = g[i]
      BY <2>1, <3>2, <3>3
    <3> QED
      BY <3>4 DEF u
  <2> QED
    BY <2>1, <2>3
<1>4. /\ OutputFrames(x, m, full).frames = b
      /\ OutputFrames(x, m, full).pending = x.pending
      /\ OutputFrames(x, m, full).confirmed = x.confirmed
      /\ OutputFrames(x, m, full).numFrames = x.numFrames + m
  <2>1. OutputFrames(x, m, full) =
          [x EXCEPT !.full = full, !.numFrames = x.numFrames + m, !.frames = b]
    BY DEF OutputFrames
  <2> HIDE DEF b
  <2> QED
    BY <2>1 DEF Channel
<1> HIDE DEF b
<1>5. InQueue(x.frames) \in Places(x)
  BY PlaceMember
<1>6. FramesNat(Places(x))
  BY PlaceType, SeqDomain DEF FramesNat
<1>7. Places(OutputFrames(x, m, full)) = (Places(x) \ {InQueue(x.frames)}) \cup {InQueue(b)}
  BY <1>4, PlacesOutput
<1>8. EachOnce((Places(x) \ {InQueue(x.frames)}) \cup {InQueue(b)}, x.numFrames + m)
  <2> DEFINE q == InQueue(x.frames)
             v == InQueue(b)
             k == Len(x.frames)
  <2>1. q.frames = x.frames /\ v.frames = b /\ q \in Places(x)
    BY <1>5, PlaceFacts
  <2>2. EachOnce(Places(x), x.numFrames) /\ x.numFrames \in Nat /\ k \in Nat
    BY <1>1 DEF FramesGood
  <2> HIDE DEF q, v
  <2>3. DOMAIN q.frames = 1..k /\ DOMAIN v.frames = 1..(k + m)
    BY <2>1, <1>1, <1>3
  <2>4. /\ \A i \in 1..k : v.frames[i] = q.frames[i]
        /\ \A i \in 1..m : v.frames[k + i] = x.numFrames + i - 1
    BY <2>1, <1>3
  <2> HIDE DEF k
  <2>5. Extends(v, q, x.numFrames, k, m)
    BY <2>3, <2>4 DEF Extends
  <2>6. EachOnce((Places(x) \ {q}) \cup {v}, x.numFrames + m)
    BY <1>6, <2>1, <2>2, <2>5, ExtendOnce
  <2> QED
    BY <2>6 DEF q, v
<1> QED
  BY <1>4, <1>7, <1>8 DEF FramesGood

\* A new channel and one cleared have no frames.
LEMMA NewFrames ==
    ASSUME NEW x, x.frames = <<>>, x.pending = {}, x.confirmed = {}, x.numFrames = 0
    PROVE  FramesGood(x)
<1>1. Places(x) = {InQueue(<<>>)}
  BY DEF Places
<1>2. InQueue(<<>>).frames = <<>> /\ DOMAIN <<>> = {}
  BY PlaceFacts
<1>3. \A p \in Places(x) : DOMAIN p.frames = {}
  BY <1>1, <1>2
<1>4. EachOnce(Places(x), 0)
  BY <1>3 DEF EachOnce
<1> QED
  BY <1>4 DEF FramesGood
-----------------------------------------------------------------------------
(* The operations on a channel object keep its deadlines. *)

\* The timeout of channel x respects the deadlines x has met.
DeadlinesKept(x) ==
    /\ \A i \in DOMAIN x.blocks :
          x.timeout # 0 /\ x.timeout <= SeqWindowDeadline(x.blocks[i])
    /\ \A r \in x.confirmed :
          x.timeout # 0 /\ x.timeout <= r.at + ChannelTimeout - SubSafetyMargin

ChannelGood(x) == FramesGood(x) /\ DeadlinesKept(x)

\* No deadline is 0, which would stand for none.
LEMMA DeadlinePositive ==
    /\ \A n \in Nat \ {0} : InclusionDeadline(n) \in Nat \ {0}
    /\ \A b \in Block : SeqWindowDeadline(b) \in Nat \ {0}
  BY ConfigAssumption DEF InclusionDeadline, SeqWindowDeadline, Block

LEMMA UpdatedTimeoutFirst ==
    ASSUME NEW x \in Channel, NEW D \in SUBSET (Nat \ {0}), NEW t, UpdatedTimeout(t, x, D)
    PROVE  /\ t \in Nat
           /\ \A d \in D : t # 0 /\ t <= d
           /\ x.timeout # 0 => t # 0 /\ t <= x.timeout
<1> DEFINE E == D \cup (IF x.timeout = 0 THEN {} ELSE {x.timeout})
<1>1. x.timeout \in Nat
  BY DEF Channel
<1>2. IF E = {} THEN t = 0 ELSE t \in E /\ \A d \in E : t <= d
  BY DEF UpdatedTimeout
<1>3. E \subseteq Nat \ {0} /\ D \subseteq E /\ (x.timeout # 0 => x.timeout \in E)
  BY <1>1
<1> HIDE DEF E
<1>4. CASE E = {}
  BY <1>1, <1>2, <1>3, <1>4
<1>5. CASE E # {}
  <2>1. t \in E /\ \A d \in E : t <= d
    BY <1>2, <1>5
  <2> QED
    BY <1>3, <2>1
<1> QED
  BY <1>4, <1>5

\* An operation that leaves blocks, timeout and inclusions alone keeps the deadlines.
LEMMA SameDeadlines ==
    ASSUME NEW x, NEW y, DeadlinesKept(x),
           y.blocks = x.blocks, y.timeout = x.timeout, y.confirmed = x.confirmed
    PROVE  DeadlinesKept(y)
  BY DEF DeadlinesKept

LEMMA NextTxDataGood ==
    ASSUME NEW x \in Channel, ChannelGood(x)
    PROVE  ChannelGood(NextTxData(x))
<1>1. /\ NextTxData(x).blocks = x.blocks /\ NextTxData(x).timeout = x.timeout
      /\ NextTxData(x).confirmed = x.confirmed
  <2> DEFINE f == SubSeq(x.frames, Len(TxFrames(x)) + 1, Len(x.frames))
             p == x.pending \cup {TxFrames(x)}
  <2>1. NextTxData(x) = [x EXCEPT !.frames = f, !.pending = p]
    BY DEF NextTxData
  <2> HIDE DEF f, p
  <2> QED
    BY <2>1 DEF Channel
<1> QED
  BY <1>1, NextTxDataFrames, SameDeadlines DEF ChannelGood

LEMMA RequeueGood ==
    ASSUME NEW x \in Channel, ChannelGood(x), NEW fs \in x.pending
    PROVE  ChannelGood(Requeue(x, fs))
<1>1. /\ Requeue(x, fs).blocks = x.blocks /\ Requeue(x, fs).timeout = x.timeout
      /\ Requeue(x, fs).confirmed = x.confirmed
  <2> DEFINE f == x.frames \o fs
  <2>1. Requeue(x, fs) = [x EXCEPT !.frames = f, !.pending = x.pending \ {fs}]
    BY DEF Requeue
  <2> HIDE DEF f
  <2> QED
    BY <2>1 DEF Channel
<1> QED
  BY <1>1, RequeueFrames, SameDeadlines DEF ChannelGood

LEMMA OutputFramesGood ==
    ASSUME NEW x \in Channel, ChannelGood(x), NEW m \in Nat, NEW full
    PROVE  ChannelGood(OutputFrames(x, m, full))
<1>1. /\ OutputFrames(x, m, full).blocks = x.blocks
      /\ OutputFrames(x, m, full).timeout = x.timeout
      /\ OutputFrames(x, m, full).confirmed = x.confirmed
  <2> DEFINE f == x.frames \o [i \in 1..m |-> x.numFrames + i - 1]
  <2>1. OutputFrames(x, m, full) =
          [x EXCEPT !.full = full, !.numFrames = x.numFrames + m, !.frames = f]
    BY DEF OutputFrames
  <2> HIDE DEF f
  <2> QED
    BY <2>1 DEF Channel
<1> QED
  BY <1>1, OutputFramesFrames, SameDeadlines DEF ChannelGood

LEMMA ConfirmGood ==
    ASSUME NEW x \in Channel, ChannelGood(x), NEW fs \in x.pending,
           NEW n \in Nat \ {0}, NEW t, UpdatedTimeout(t, x, {InclusionDeadline(n)})
    PROVE  ChannelGood(Confirm(x, fs, n, t))
<1> DEFINE y == Confirm(x, fs, n, t)
<1>1. /\ t \in Nat /\ t # 0 /\ t <= InclusionDeadline(n)
      /\ x.timeout # 0 => t <= x.timeout
  BY DeadlinePositive, UpdatedTimeoutFirst
<1>2. /\ y.blocks = x.blocks /\ y.timeout = t
      /\ \A r \in y.confirmed : r \in x.confirmed \/ r.at = n
  <2> DEFINE C == x.confirmed \cup {[frames |-> fs, at |-> n]}
  <2>1. y = [x EXCEPT !.pending = x.pending \ {fs}, !.timeout = t, !.confirmed = C]
    BY DEF Confirm
  <2>2. \A r \in C : r \in x.confirmed \/ r.at = n
    OBVIOUS
  <2> HIDE DEF C, y
  <2> QED
    BY <2>1, <2>2 DEF Channel
<1>3. FramesGood(y)
  BY ConfirmFrames DEF ChannelGood
<1>4. /\ x.timeout \in Nat
      /\ \A i \in DOMAIN x.blocks : SeqWindowDeadline(x.blocks[i]) \in Nat
      /\ \A r \in x.confirmed : r.at \in Nat
  BY DeadlinePositive DEF Channel
<1> HIDE DEF y
<1>5. ASSUME NEW i \in DOMAIN y.blocks
      PROVE  y.timeout # 0 /\ y.timeout <= SeqWindowDeadline(y.blocks[i])
  BY <1>1, <1>2, <1>4 DEF ChannelGood, DeadlinesKept
<1>6. ASSUME NEW r \in y.confirmed
      PROVE  y.timeout # 0 /\ y.timeout <= r.at + ChannelTimeout - SubSafetyMargin
  <2>1. CASE r \in x.confirmed
    <3>1. x.timeout # 0 /\ x.timeout <= r.at + ChannelTimeout - SubSafetyMargin
      BY <2>1 DEF ChannelGood, DeadlinesKept
    <3>2. r.at + ChannelTimeout - SubSafetyMargin \in Int
      BY <1>4, <2>1, ConfigAssumption
    <3> QED
      BY <1>1, <1>2, <1>4, <3>1, <3>2
  <2>2. CASE r.at = n
    BY <1>1, <1>2, <2>2 DEF InclusionDeadline
  <2> QED
    BY <1>2, <2>1, <2>2
<1> QED
  BY <1>3, <1>5, <1>6 DEF ChannelGood, DeadlinesKept, y

LEMMA FilledGood ==
    ASSUME TypeOK, NEW x \in Channel, ChannelGood(x), NEW n \in 0..Len(blocks),
           NEW t, NEW m \in Nat, NEW full,
           UpdatedTimeout(t, x, {SeqWindowDeadline(blocks[i]) : i \in 1..n})
    PROVE  ChannelGood(Filled(x, n, t, m, full))
<1> DEFINE D == {SeqWindowDeadline(blocks[i]) : i \in 1..n}
           bs == x.blocks \o SubSeq(blocks, 1, n)
           z == [x EXCEPT !.blocks = bs, !.timeout = t]
<1>1. D \subseteq Nat \ {0}
  <2>1. \A i \in 1..n : blocks[i] \in Block
    BY DEF TypeOK
  <2> QED
    BY <2>1, DeadlinePositive
<1>2. /\ t \in Nat
      /\ \A i \in 1..n : t # 0 /\ t <= SeqWindowDeadline(blocks[i])
      /\ x.timeout # 0 => t # 0 /\ t <= x.timeout
  <2> HIDE DEF D
  <2>1. UpdatedTimeout(t, x, D)
    BY DEF D
  <2>2. /\ t \in Nat /\ \A d \in D : t # 0 /\ t <= d
        /\ x.timeout # 0 => t # 0 /\ t <= x.timeout
    BY <1>1, <2>1, UpdatedTimeoutFirst
  <2> QED
    BY <2>2 DEF D
<1>3. bs \in Seq(Block) /\ \A i \in DOMAIN bs :
         \/ \E j \in DOMAIN x.blocks : bs[i] = x.blocks[j]
         \/ \E j \in 1..n : bs[i] = blocks[j]
  <2> DEFINE s == SubSeq(blocks, 1, n)
             k == Len(x.blocks)
  <2>1. /\ s \in Seq(Block) /\ Len(s) = n /\ \A i \in 1..n : s[i] = blocks[i]
    BY BlocksSplit
  <2>2. x.blocks \in Seq(Block) /\ k \in Nat /\ DOMAIN x.blocks = 1..k
    BY DEF Channel
  <2> HIDE DEF s
  <2>3. /\ x.blocks \o s \in Seq(Block) /\ Len(x.blocks \o s) = k + n
        /\ \A i \in 1..k : (x.blocks \o s)[i] = x.blocks[i]
        /\ \A i \in 1..n : (x.blocks \o s)[k + i] = s[i]
    <3> DEFINE u == x.blocks
    <3>1. /\ u \in Seq(Block) /\ Len(u) \in Nat /\ DOMAIN u = 1..Len(u) /\ k = Len(u)
          /\ s \in Seq(Block) /\ Len(s) \in Nat /\ DOMAIN s = 1..Len(s)
      BY <2>1, <2>2
    <3> HIDE DEF u, k
    <3>2. /\ u \o s \in Seq(Block) /\ Len(u \o s) = Len(u) + Len(s)
          /\ \A i \in 1..Len(u) : (u \o s)[i] = u[i]
          /\ \A i \in 1..Len(s) : (u \o s)[Len(u) + i] = s[i]
      BY <3>1, ConcatParts
    <3> QED
      BY <2>1, <3>1, <3>2 DEF u
  <2>4. bs = x.blocks \o s
    BY DEF s
  <2> HIDE DEF bs, k
  <2>5. bs \in Seq(Block) /\ DOMAIN bs = 1..(k + n)
    BY <2>2, <2>3, <2>4
  <2>6. ASSUME NEW i \in DOMAIN bs, i \notin 1..k
        PROVE  \E j \in 1..n : bs[i] = blocks[j]
    <3>1. i - k \in 1..n /\ k + (i - k) = i
      BY <2>2, <2>5, <2>6
    <3>2. bs[i] = s[i - k] /\ s[i - k] = blocks[i - k]
      BY <2>1, <2>3, <2>4, <3>1
    <3> QED
      BY <3>1, <3>2
  <2>7. ASSUME NEW i \in 1..k PROVE \E j \in DOMAIN x.blocks : bs[i] = x.blocks[j]
    BY <2>2, <2>3, <2>4
  <2> QED
    BY <2>5, <2>6, <2>7
<1> HIDE DEF bs
<1>4. /\ z \in Channel /\ z.blocks = bs /\ z.timeout = t
      /\ z.frames = x.frames /\ z.pending = x.pending
      /\ z.confirmed = x.confirmed /\ z.numFrames = x.numFrames
  BY <1>2, <1>3 DEF Channel
<1> HIDE DEF z
<1>5. FramesGood(z)
  BY <1>4 DEF ChannelGood, FramesGood, Places
<1>6. /\ x.timeout \in Nat /\ \A r \in x.confirmed : r.at \in Nat
      /\ \A i \in DOMAIN x.blocks : SeqWindowDeadline(x.blocks[i]) \in Nat
  BY DeadlinePositive DEF Channel
<1>7. ASSUME NEW i \in DOMAIN bs PROVE t # 0 /\ t <= SeqWindowDeadline(bs[i])
  <2>1. CASE \E j \in 1..n : bs[i] = blocks[j]
    BY <1>2, <2>1
  <2>2. CASE \E j \in DOMAIN x.blocks : bs[i] = x.blocks[j]
    <3>1. PICK j \in DOMAIN x.blocks : bs[i] = x.blocks[j]
      BY <2>2
    <3>2. x.timeout # 0 /\ x.timeout <= SeqWindowDeadline(x.blocks[j])
      BY DEF ChannelGood, DeadlinesKept
    <3> QED
      BY <1>2, <1>6, <3>1, <3>2
  <2> QED
    BY <1>3, <2>1, <2>2
<1>8. ASSUME NEW r \in x.confirmed
      PROVE  t # 0 /\ t <= r.at + ChannelTimeout - SubSafetyMargin
  <2>1. x.timeout # 0 /\ x.timeout <= r.at + ChannelTimeout - SubSafetyMargin
    BY DEF ChannelGood, DeadlinesKept
  <2>2. r.at + ChannelTimeout - SubSafetyMargin \in Int
    BY <1>6, ConfigAssumption
  <2> QED
    BY <1>2, <1>6, <2>1, <2>2
<1>9. ChannelGood(z)
  BY <1>4, <1>5, <1>7, <1>8 DEF ChannelGood, DeadlinesKept
<1> QED
  BY <1>4, <1>9, OutputFramesGood DEF Filled, z, bs

\* A new channel and one cleared have neither frames nor deadlines.
LEMMA NewChannelGood ==
    ASSUME TypeOK
    PROVE  ChannelGood(NewChannel) /\ ChannelGood(Unborn)
<1>1. ASSUME NEW x, x.frames = <<>>, x.pending = {}, x.confirmed = {}, x.numFrames = 0,
             x.blocks = <<>>
      PROVE  ChannelGood(x)
  BY <1>1, NewFrames DEF ChannelGood, DeadlinesKept
<1>2. /\ NewChannel.frames = <<>> /\ NewChannel.pending = {}
      /\ NewChannel.confirmed = {} /\ NewChannel.numFrames = 0 /\ NewChannel.blocks = <<>>
  BY DEF NewChannel
<1>3. /\ Unborn.frames = <<>> /\ Unborn.pending = {}
      /\ Unborn.confirmed = {} /\ Unborn.numFrames = 0 /\ Unborn.blocks = <<>>
  BY DEF Unborn
<1> QED
  BY <1>1, <1>2, <1>3

-----------------------------------------------------------------------------
(* Every step keeps every channel, in the queue or not. *)

ChannelsGood == \A c \in ChannelId : ChannelGood(ch[c])
CInv == IInv /\ ChannelsGood

LEMMA EmitGood ==
    ASSUME TypeOK, ChannelsGood, NEW c \in ChannelId, NEW x \in Channel, ChannelGood(x),
           Emit(c, x)
    PROVE  ChannelsGood'
<1>1. PICK y : ChannelGood(y) /\ ch' = [ch EXCEPT ![c] = y]
  <2>1. CASE HandOut(c, x)
    BY <2>1, NextTxDataGood DEF HandOut
  <2>2. CASE ch' = [ch EXCEPT ![c] = x]
    BY <2>2
  <2> QED
    BY <2>1, <2>2 DEF Emit
<1> QED
  BY <1>1 DEF TypeOK, ChannelsGood

LEMMA FillChannelGood ==
    ASSUME TypeOK, ChannelsGood, NEW c \in ChannelId, NEW x \in Channel, ChannelGood(x),
           FillChannel(c, x)
    PROVE  ChannelsGood'
<1>1. PICK n \in 0..Len(blocks), stop \in {"exhausted", "full", "fork"} :
         \E t \in {SeqWindowDeadline(blocks[i]) : i \in 1..n} \cup {x.timeout},
            m \in 0..MaxFrames, full \in BOOLEAN, o \in 0..MaxL1 :
            /\ UpdatedTimeout(t, x, {SeqWindowDeadline(blocks[i]) : i \in 1..n})
            /\ full = (stop # "exhausted" \/ (t # 0 /\ l1Head >= t))
            /\ FramesReady(x, m, full)
            /\ UpdatedOrigin(o, Filled(x, n, t, m, full)) /\ l1OriginLastClosedChannel' = o
            /\ Emit(c, Filled(x, n, t, m, full))
  BY DEF FillChannel
<1>2. PICK t \in {SeqWindowDeadline(blocks[i]) : i \in 1..n} \cup {x.timeout},
           m \in 0..MaxFrames, full \in BOOLEAN, o \in 0..MaxL1 :
            /\ UpdatedTimeout(t, x, {SeqWindowDeadline(blocks[i]) : i \in 1..n})
            /\ Emit(c, Filled(x, n, t, m, full))
  BY <1>1
<1>3. m \in Nat
  BY ConfigAssumption
<1>4. t \in Nat
  <2>1. \A i \in 1..n : blocks[i] \in Block
    BY DEF TypeOK
  <2>2. x.timeout \in Nat
    BY DEF Channel
  <2> QED
    BY <2>1, <2>2, DeadlineType
<1>5. Filled(x, n, t, m, full) \in Channel
  BY <1>3, <1>4, FilledType
<1>6. ChannelGood(Filled(x, n, t, m, full))
  BY <1>2, <1>3, FilledGood
<1> QED
  BY <1>2, <1>5, <1>6, EmitGood

LEMMA TxDataGood ==
    ASSUME TypeOK, ChannelsGood, TxData
    PROVE  ChannelsGood'
<1>1. CASE TxDataPending
  <2>1. PICK c \in WithTxData : HandOut(c, ch[c])
    BY <1>1 DEF TxDataPending
  <2>2. c \in ChannelId /\ ch[c] \in Channel /\ HasTxData(ch[c])
    BY <2>1 DEF TypeOK, WithTxData
  <2>3. Emit(c, ch[c]) /\ ChannelGood(ch[c])
    BY <2>1, <2>2 DEF Emit, ChannelsGood
  <2> QED
    BY <2>2, <2>3, EmitGood
<1>2. CASE TxDataNew
  <2>1. PICK c \in ChannelId, x \in Channel :
           (x = NewChannel \/ x = ch[c]) /\ FillChannel(c, x)
    BY <1>2, TxDataNewEffect
  <2>2. ChannelGood(x)
    BY <2>1, NewChannelGood DEF ChannelsGood
  <2> QED
    BY <2>1, <2>2, FillChannelGood
<1> QED
  BY <1>1, <1>2 DEF TxData

LEMMA TxFailedGood ==
    ASSUME CInv, NEW r \in inflight, TxFailed(r)
    PROVE  ChannelsGood'
<1>1. r.tx.ch \in ChannelId /\ ch[r.tx.ch] \in Channel
  BY DEF CInv, IInv, TypeOK, TxId
<1>2. CASE r.tx \in txChannels
  <2>1. r.tx.frames \in ch[r.tx.ch].pending /\ ChannelGood(ch[r.tx.ch])
    BY <1>1, <1>2 DEF CInv, IInv, TxsPending, ChannelsGood
  <2>2. ChannelGood(Requeue(ch[r.tx.ch], r.tx.frames))
    BY <1>1, <2>1, RequeueGood
  <2>3. ch' = [ch EXCEPT ![r.tx.ch] = Requeue(ch[r.tx.ch], r.tx.frames)]
    BY <1>2 DEF TxFailed
  <2> QED
    BY <2>2, <2>3 DEF CInv, IInv, TypeOK, ChannelsGood
<1>3. CASE r.tx \notin txChannels
  BY <1>3 DEF TxFailed, CInv, ChannelsGood
<1> QED
  BY <1>2, <1>3

LEMMA TxConfirmedGood ==
    ASSUME CInv, NEW r \in inflight, NEW n \in 1..MaxL1, TxConfirmed(r, n)
    PROVE  ChannelsGood'
<1>1. r.tx.ch \in ChannelId /\ ch[r.tx.ch] \in Channel /\ n \in Nat \ {0}
  BY DEF CInv, IInv, TypeOK, TxId
<1>2. CASE r.tx \in txChannels
  <2>1. r.tx.frames \in ch[r.tx.ch].pending /\ ChannelGood(ch[r.tx.ch])
    BY <1>1, <1>2 DEF CInv, IInv, TxsPending, ChannelsGood
  <2>2. PICK t : /\ UpdatedTimeout(t, ch[r.tx.ch], {InclusionDeadline(n)})
                 /\ ch' = [ch EXCEPT ![r.tx.ch] = Confirm(ch[r.tx.ch], r.tx.frames, n, t)]
    BY <1>2 DEF TxConfirmed
  <2>3. ChannelGood(Confirm(ch[r.tx.ch], r.tx.frames, n, t))
    BY <1>1, <2>1, <2>2, ConfirmGood
  <2> QED
    BY <2>2, <2>3 DEF CInv, IInv, TypeOK, ChannelsGood
<1>3. CASE r.tx \notin txChannels
  BY <1>3 DEF TxConfirmed, CInv, ChannelsGood
<1> QED
  BY <1>2, <1>3

LEMMA CloseGood ==
    ASSUME CInv, Close
    PROVE  ChannelsGood'
<1>1. PICK R \in SUBSET channelQueue :
         LET c == IF currentChannel \in R THEN 0 ELSE currentChannel
         IN  IF c # 0 /\ ~ch[c].full
             THEN \E m \in 1..MaxFrames : ch' = [ch EXCEPT ![c] = OutputFrames(ch[c], m, TRUE)]
             ELSE UNCHANGED ch
  BY DEF Close
<1> DEFINE c == IF currentChannel \in R THEN 0 ELSE currentChannel
<1>2. CASE c # 0 /\ ~ch[c].full
  <2>1. PICK m \in 1..MaxFrames : ch' = [ch EXCEPT ![c] = OutputFrames(ch[c], m, TRUE)]
    BY <1>1, <1>2
  <2>2. c \in ChannelId /\ m \in Nat
    BY <1>2, ConfigAssumption DEF CInv, IInv, TypeOK, ChannelId
  <2>3. ch[c] \in Channel /\ ChannelGood(ch[c])
    BY <2>2 DEF CInv, IInv, TypeOK, ChannelsGood
  <2>4. ChannelGood(OutputFrames(ch[c], m, TRUE))
    BY <2>2, <2>3, OutputFramesGood
  <2> HIDE DEF c
  <2> QED
    BY <2>1, <2>2, <2>4 DEF CInv, IInv, TypeOK, ChannelsGood
<1>3. CASE ~(c # 0 /\ ~ch[c].full)
  BY <1>1, <1>3 DEF CInv, ChannelsGood
<1> QED
  BY <1>2, <1>3

LEMMA CInvInit == Init => CInv
<1> SUFFICES ASSUME Init PROVE CInv
  OBVIOUS
<1>1. IInv
  BY IInvInit
<1>2. \A c \in ChannelId : ChannelGood(ch[c])
  BY <1>1, NewChannelGood DEF IInv, Init
<1> QED
  BY <1>1, <1>2 DEF CInv, ChannelsGood

LEMMA CInvStep == CInv /\ [Next]_vars => CInv'
<1> SUFFICES ASSUME CInv, [Next]_vars PROVE ChannelsGood'
  BY IInvStep DEF CInv
<1> USE DEF CInv, IInv
<1>1. CASE L1Advance \/ (\E b \in Block : AddL2Block(b))
           \/ (\E blobs \in BOOLEAN : SwitchDAType(blobs)) \/ UNCHANGED vars
  <2>1. UNCHANGED ch
    BY <1>1 DEF L1Advance, AddL2Block, SwitchDAType, vars, mgrVars
  <2> QED
    BY <2>1 DEF ChannelsGood
<1>2. CASE TxData
  BY <1>2, TxDataGood
<1>3. ASSUME NEW r \in inflight, TxFailed(r) PROVE ChannelsGood'
  BY <1>3, TxFailedGood
<1>4. ASSUME NEW r \in inflight, NEW n \in 1..MaxL1, TxConfirmed(r, n) PROVE ChannelsGood'
  BY <1>4, TxConfirmedGood
<1>5. CASE Close
  BY <1>5, CloseGood
<1>6. ASSUME NEW o \in 0..l1Head, Clear(o) PROVE ChannelsGood'
  BY <1>6, NewChannelGood DEF Clear, ChannelsGood
<1> QED
  BY <1>1, <1>2, <1>3, <1>4, <1>5, <1>6 DEF Next

\* Every frame that channel.OutputFrames put out is in exactly one place, the frames
\* queue, one pending or one confirmed transaction, in every queued channel and for every
\* configuration: NextTxData, TxFailed and TxConfirmed neither drop nor duplicate one.
THEOREM FramesOnceTheorem == Spec => []FramesOnce
<1>1. CInv => FramesOnce
  BY DEF CInv, IInv, TypeOK, ChannelsGood, ChannelGood, FramesGood, FramesOnce
<1> QED
  BY CInvInit, CInvStep, <1>1, PTL DEF Spec

\* updateTimeout keeps the earliest deadline: the timeout of a queued channel is at most
\* the end of the sequencing window of each of its blocks and of the channel timeout from
\* each of its inclusions, less the safety margin.
THEOREM TimeoutEarliestTheorem == Spec => []TimeoutEarliest
<1>1. CInv => TimeoutEarliest
  BY DEF CInv, IInv, TypeOK, ChannelsGood, ChannelGood, DeadlinesKept, TimeoutEarliest
<1> QED
  BY CInvInit, CInvStep, <1>1, PTL DEF Spec
-----------------------------------------------------------------------------
(* Why a channel leaves the queue. *)

\* A manager that has had no block since the last Clear is empty.
EmptyManager == tip = 0 => blocks = <<>> /\ channelQueue = {} /\ txChannels = {}
EInv == TypeOK /\ EmptyManager

LEMMA EInvStep == EInv /\ [Next]_vars => EInv'
<1> SUFFICES ASSUME EInv, [Next]_vars, tip' = 0
             PROVE  blocks' = <<>> /\ channelQueue' = {} /\ txChannels' = {}
  BY TypeStep DEF EInv, EmptyManager
<1> USE DEF EInv, EmptyManager
<1>1. CASE L1Advance \/ (\E blobs \in BOOLEAN : SwitchDAType(blobs)) \/ UNCHANGED vars
  BY <1>1 DEF L1Advance, SwitchDAType, vars, mgrVars
<1>2. ASSUME NEW b \in Block, AddL2Block(b) PROVE FALSE
  BY <1>2 DEF AddL2Block, Block
<1>3. CASE TxData
  BY <1>3 DEF TxData, TxDataPending, TxDataNew, WithTxData, CanAddBlocks
<1>4. ASSUME NEW r \in inflight, TxFailed(r)
      PROVE  blocks' = <<>> /\ channelQueue' = {} /\ txChannels' = {}
  BY <1>4 DEF TxFailed
<1>5. ASSUME NEW r \in inflight, NEW n \in 1..MaxL1, TxConfirmed(r, n)
      PROVE  blocks' = <<>> /\ channelQueue' = {} /\ txChannels' = {}
  BY <1>5 DEF TxConfirmed
<1>6. CASE Close
  BY <1>6 DEF Close, RemovePendingChannels
<1>7. ASSUME NEW o \in 0..l1Head, Clear(o)
      PROVE  blocks' = <<>> /\ channelQueue' = {} /\ txChannels' = {}
  BY <1>7 DEF Clear
<1> QED
  BY <1>1, <1>2, <1>3, <1>4, <1>5, <1>6, <1>7 DEF Next

\* The four reasons of RemovalJustified.
Unsent(c) == closed' /\ NoneSubmitted(ch'[c])
Removable(c) == Delivered(c)' \/ IsTimedOut(ch'[c]) \/ Unsent(c) \/ (closed /\ ~closed')

LEMMA TxFailedRemoves ==
    ASSUME TypeOK, NEW r \in inflight, TxFailed(r), NEW c \in channelQueue \ channelQueue'
    PROVE  Removable(c)
<1> DEFINE y == Requeue(ch[r.tx.ch], r.tx.frames)
<1>1. CASE r.tx \in txChannels
  <2>1. /\ ch' = [ch EXCEPT ![r.tx.ch] = y] /\ closed' = closed
        /\ channelQueue' =
             channelQueue \ (IF closed /\ NoneSubmitted(y) THEN {r.tx.ch} ELSE {})
    BY <1>1 DEF TxFailed, RemovePendingChannels
  <2> HIDE DEF y
  <2>2. c = r.tx.ch /\ closed /\ NoneSubmitted(y)
    BY <2>1
  <2>3. ch'[c] = y
    BY <2>1, <2>2 DEF TypeOK
  <2> QED
    <3>1. closed'
      BY <2>1, <2>2
    <3>2. NoneSubmitted(ch'[c])
      BY <2>2, <2>3
    <3> QED
      BY <3>1, <3>2 DEF Unsent, Removable
<1>2. CASE r.tx \notin txChannels
  BY <1>2 DEF TxFailed
<1> QED
  BY <1>1, <1>2

LEMMA TxConfirmedRemoves ==
    ASSUME TypeOK, NEW r \in inflight, NEW n \in 1..MaxL1, TxConfirmed(r, n),
           NEW c \in channelQueue \ channelQueue'
    PROVE  Removable(c)
<1> DEFINE y(t) == Confirm(ch[r.tx.ch], r.tx.frames, n, t)
<1>1. CASE r.tx \in txChannels
  <2>1. PICK t \in {InclusionDeadline(n), ch[r.tx.ch].timeout} :
           /\ ch' = [ch EXCEPT ![r.tx.ch] = y(t)]
           /\ channelQueue' = channelQueue \
                (IF IsTimedOut(y(t)) \/ IsFullySubmitted(y(t)) THEN {r.tx.ch} ELSE {})
    BY <1>1 DEF TxConfirmed, RemovePendingChannels
  <2>2. c = r.tx.ch /\ (IsTimedOut(y(t)) \/ IsFullySubmitted(y(t)))
    BY <2>1
  <2>3. ch'[c] = y(t)
    BY <2>1, <2>2 DEF TypeOK
  <2>4. CASE IsTimedOut(y(t))
    BY <2>3, <2>4 DEF Removable
  <2>5. CASE IsFullySubmitted(y(t)) /\ ~IsTimedOut(y(t))
    <3>1. y(t) \in Channel /\ y(t).confirmed # {}
      <4>1. ch[r.tx.ch] \in Channel /\ r.tx.frames \in Seq(Nat) /\ n \in Nat
        BY DEF TypeOK, TxId
      <4>2. t \in Nat
        BY <4>1, DeadlineType DEF Channel
      <4>3. /\ y(t) \in Channel
            /\ y(t).confirmed =
                 ch[r.tx.ch].confirmed \cup {[frames |-> r.tx.frames, at |-> n]}
        BY <4>1, <4>2, ConfirmType
      <4> HIDE DEF y
      <4> QED
        BY <4>3
    <3>2. \A p, q \in y(t).confirmed : p.at - q.at < ChannelTimeout
      <4>1. \A p \in y(t).confirmed : p.at \in Nat
        BY <3>1 DEF Channel
      <4>2. \A p, q \in y(t).confirmed : ~(p.at - q.at >= ChannelTimeout)
        BY <2>5 DEF IsTimedOut
      <4> QED
        BY <4>1, <4>2, ConfigAssumption
    <3>3. y(t).full /\ y(t).pending = {} /\ y(t).frames = <<>>
      BY <2>5 DEF IsFullySubmitted
    <3> HIDE DEF y
    <3>4. Delivered(c)'
      BY <2>3, <3>1, <3>2, <3>3 DEF Delivered
    <3> QED
      BY <3>4 DEF Removable
  <2> QED
    BY <2>2, <2>4, <2>5
<1>2. CASE r.tx \notin txChannels
  BY <1>2 DEF TxConfirmed
<1> QED
  BY <1>1, <1>2

LEMMA CloseRemoves ==
    ASSUME TypeOK, Close, NEW c \in channelQueue \ channelQueue'
    PROVE  Removable(c)
<1>1. PICK R \in SUBSET channelQueue :
         /\ Swept(R, channelQueue, {d \in channelQueue : NoneSubmitted(ch[d])})
         /\ channelQueue' = channelQueue \ R
         /\ LET d == IF currentChannel \in R THEN 0 ELSE currentChannel
            IN  IF d # 0 /\ ~ch[d].full
                THEN \E m \in 1..MaxFrames : ch' = [ch EXCEPT ![d] = OutputFrames(ch[d], m, TRUE)]
                ELSE UNCHANGED ch
  BY DEF Close, RemovePendingChannels
<1>2. c \in R /\ NoneSubmitted(ch[c])
  BY <1>1 DEF Swept
<1>3. ch'[c] = ch[c]
  <2> DEFINE d == IF currentChannel \in R THEN 0 ELSE currentChannel
  <2>1. CASE d # 0 /\ ~ch[d].full
    <3>1. PICK m \in 1..MaxFrames : ch' = [ch EXCEPT ![d] = OutputFrames(ch[d], m, TRUE)]
      BY <1>1, <2>1
    <3>2. c # d
      BY <1>2, <2>1
    <3> HIDE DEF d
    <3> QED
      BY <3>1, <3>2 DEF TypeOK
  <2>2. CASE ~(d # 0 /\ ~ch[d].full)
    BY <1>1, <2>2
  <2> QED
    BY <2>1, <2>2
<1>4. closed'
  BY DEF Close
<1>5. NoneSubmitted(ch'[c])
  BY <1>2, <1>3
<1> QED
  BY <1>4, <1>5 DEF Unsent, Removable

LEMMA RemovalStep ==
    ASSUME EInv, [Next]_vars, NEW c \in channelQueue \ channelQueue'
    PROVE  Removable(c)
<1> USE DEF EInv
<1>1. CASE L1Advance \/ (\E b \in Block : AddL2Block(b))
           \/ (\E blobs \in BOOLEAN : SwitchDAType(blobs)) \/ UNCHANGED vars
  BY <1>1 DEF L1Advance, AddL2Block, SwitchDAType, vars, mgrVars
<1>2. CASE TxData
  BY <1>2 DEF TxData, TxDataPending, TxDataNew
<1>3. ASSUME NEW r \in inflight, TxFailed(r) PROVE Removable(c)
  BY <1>3, TxFailedRemoves
<1>4. ASSUME NEW r \in inflight, NEW n \in 1..MaxL1, TxConfirmed(r, n) PROVE Removable(c)
  BY <1>4, TxConfirmedRemoves
<1>5. CASE Close
  BY <1>5, CloseRemoves
<1>6. ASSUME NEW o \in 0..l1Head, Clear(o), Clearable PROVE Removable(c)
  BY <1>6 DEF Clear, Clearable, EmptyManager, Removable
<1> QED
  BY <1>1, <1>2, <1>3, <1>4, <1>5, <1>6 DEF Next

\* removePendingChannel is called for the right channels only, in every configuration: a
\* channel leaves the queue when all its frames are on L1 in time, when its inclusions
\* span the channel timeout, when a closed manager has nothing of it submitted, or in a Clear
\* of a closed manager.
THEOREM RemovalJustifiedTheorem == Spec => RemovalJustified
<1>1. Init => EInv
  BY TypeInit DEF Init, EInv, EmptyManager
<1>2. EInv /\ [Next]_vars =>
        [\A c \in channelQueue \ channelQueue' :
            \/ Delivered(c)'
            \/ IsTimedOut(ch'[c])
            \/ closed' /\ NoneSubmitted(ch'[c])
            \/ closed /\ ~closed']_vars
  BY RemovalStep DEF Removable, Unsent
<1> QED
  BY <1>1, <1>2, EInvStep, PTL DEF Spec, RemovalJustified
-----------------------------------------------------------------------------
(* The loop of Close.  The slice a[1..m] of an array of n cells is what is left of the
   queue q when i cells have been read. *)

\* Channel c is in the slice a[1..m].
Left(a, m, c) == \E k \in 1..m : a[k] = c

\* After i steps, n - m channels having been removed: the slice holds channels of the queue
\* in order, from the i-th cell on those that follow the last one removed, and the other
\* cells hold the last channel of the queue.
Slice(a, m, i, q, n) ==
    /\ DOMAIN a = 1..n /\ m \in 0..n /\ n - m <= i
    /\ \A k \in 1..m : \E j \in 1..n : a[k] = q[j]
    /\ \A k, l \in 1..m : k < l => a[k] < a[l]
    /\ \A k \in 1..m : k >= i => a[k] = q[k + (n - m)]
    /\ \A k \in 1..n : k > m /\ k > i => a[k] = q[n]
\* Of the channels passed, those are gone that have nothing submitted and follow none
\* that is gone; the last channel is decided at the last step.
Decided(a, m, i, q, n, N) ==
    /\ \A j \in 1..(n - 1) : j <= i + (n - m) =>
          (~Left(a, m, q[j]) <=> q[j] \in N /\ (j = 1 \/ Left(a, m, q[j - 1])))
    /\ ~Left(a, m, q[n]) => i > m /\ q[n] \in N
    /\ i = n /\ q[n] \in N => ~Left(a, m, q[n])
LoopInv(a, m, i, q, n, N) == Slice(a, m, i, q, n) /\ Decided(a, m, i, q, n, N)

\* The channels of the queue, in the order in which they were opened.
Queue(q, n) ==
    /\ DOMAIN q = 1..n /\ \A j \in 1..n : q[j] \in Nat
    /\ \A j, k \in 1..n : j < k => q[j] < q[k]
Members(q, n) == {q[j] : j \in 1..n}
Enumerates(q, Q) == Queue(q, Len(q)) /\ Q = Members(q, Len(q))

LEMMA QueueDistinct ==
    ASSUME NEW n \in Nat, NEW q, Queue(q, n)
    PROVE  /\ \A j, k \in 1..n : q[j] = q[k] => j = k
           /\ \A j \in 1..n : q[j] <= q[n]
<1>1. ASSUME NEW j \in 1..n, NEW k \in 1..n, j < k PROVE q[j] < q[k] /\ q[j] \in Nat /\ q[k] \in Nat
  BY <1>1 DEF Queue
<1>2. ASSUME NEW j \in 1..n, NEW k \in 1..n, q[j] = q[k] PROVE j = k
  <2>1. ~(j < k)
    BY <1>1, <1>2
  <2>2. ~(k < j)
    BY <1>1, <1>2
  <2> QED
    BY <2>1, <2>2
<1>3. ASSUME NEW j \in 1..n PROVE q[j] <= q[n]
  <2>1. CASE j < n
    <3>1. n \in 1..n
      OBVIOUS
    <3> QED
      BY <1>1, <2>1, <3>1
  <2>2. CASE j = n
    BY <2>2 DEF Queue
  <2> QED
    BY <2>1, <2>2
<1> QED
  BY <1>2, <1>3

LEMMA LoopInvStart ==
    ASSUME NEW n \in Nat \ {0}, NEW q, Queue(q, n), NEW N
    PROVE  LoopInv(q, n, 0, q, n, N)
<1>1. \A j \in 1..n : Left(q, n, q[j])
  BY DEF Left
<1>2. Slice(q, n, 0, q, n)
  BY DEF Slice, Queue
<1>3. Decided(q, n, 0, q, n, N)
  <2>1. \A j \in 1..(n - 1) : ~(j <= 0 + (n - n))
    OBVIOUS
  <2>2. n \in 1..n /\ 0 # n
    OBVIOUS
  <2> QED
    BY <1>1, <2>1, <2>2 DEF Decided
<1> QED
  BY <1>2, <1>3 DEF LoopInv

\* A step that removes nothing, the channel read being needed or gone already.
LEMMA LoopInvKept ==
    ASSUME NEW n \in Nat \ {0}, NEW q, Queue(q, n), NEW N, NEW i \in Nat, i + 1 <= n,
           NEW a, NEW m, LoopInv(a, m, i, q, n, N),
           a[i + 1] \notin N \/ ~Left(a, m, a[i + 1])
    PROVE  LoopInv(a, m, i + 1, q, n, N)
<1>1. /\ DOMAIN a = 1..n /\ m \in 0..n /\ n - m <= i
      /\ \A k \in 1..m : \E j \in 1..n : a[k] = q[j]
      /\ \A k, l \in 1..m : k < l => a[k] < a[l]
      /\ \A k \in 1..m : k >= i => a[k] = q[k + (n - m)]
      /\ \A k \in 1..n : k > m /\ k > i => a[k] = q[n]
  BY DEF LoopInv, Slice
<1>2. Slice(a, m, i + 1, q, n)
  <2>1. n - m <= i + 1
    BY <1>1
  <2>2. \A k \in 1..m : k >= i + 1 => a[k] = q[k + (n - m)]
    BY <1>1
  <2>3. \A k \in 1..n : k > m /\ k > i + 1 => a[k] = q[n]
    BY <1>1
  <2> QED
    BY <1>1, <2>1, <2>2, <2>3 DEF Slice
<1>3. ~Left(a, m, q[n]) => i + 1 > m /\ q[n] \in N
  <2>1. i > m => i + 1 > m
    BY <1>1
  <2> QED
    BY <2>1 DEF LoopInv, Decided
<1>4. CASE i + 1 <= m
  <2>1. i + 1 \in 1..m /\ i + 1 + (n - m) \in 1..n
    BY <1>1, <1>4
  <2>2. Left(a, m, a[i + 1]) /\ a[i + 1] = q[i + 1 + (n - m)]
    BY <1>1, <2>1 DEF Left
  <2>3. Left(a, m, q[i + 1 + (n - m)]) /\ q[i + 1 + (n - m)] \notin N
    BY <2>2
  <2>4. ASSUME NEW j \in 1..(n - 1), j <= i + 1 + (n - m)
        PROVE  ~Left(a, m, q[j]) <=> q[j] \in N /\ (j = 1 \/ Left(a, m, q[j - 1]))
    <3>1. j <= i + (n - m) \/ j = i + 1 + (n - m)
      BY <1>1, <2>4
    <3> QED
      BY <2>3, <3>1 DEF LoopInv, Decided
  <2>5. i + 1 = n => q[n] \notin N
    <3>1. i + 1 = n => i + 1 + (n - m) = n
      BY <1>1, <1>4
    <3> QED
      BY <2>3, <3>1
  <2> QED
    BY <1>2, <1>3, <2>4, <2>5 DEF LoopInv, Decided
<1>5. CASE i + 1 > m
  <2>1. i + 1 \in 1..n /\ i + 1 > i
    OBVIOUS
  <2>2. a[i + 1] = q[n]
    BY <1>1, <1>5, <2>1
  <2>3. \A j \in 1..(n - 1) : j <= i + (n - m)
    BY <1>1, <1>5
  <2>4. q[n] \in N => ~Left(a, m, q[n])
    BY <2>2
  <2> QED
    BY <1>2, <1>3, <2>3, <2>4 DEF LoopInv, Decided
<1> QED
  BY <1>1, <1>4, <1>5

\* Cell p is taken out of the slice a[1..m].
Shifted(a, m, p) == [k \in DOMAIN a |-> IF p <= k /\ k < m THEN a[k + 1] ELSE a[k]]

\* The slice is in order.
Rising(a, m, n) ==
    /\ DOMAIN a = 1..n /\ \A k \in 1..m : a[k] \in Nat
    /\ \A k, l \in 1..m : k < l => a[k] < a[l]

\* What array b is when cell p has been taken out.
IsShift(b, a, m, p, n) ==
    /\ DOMAIN b = 1..n
    /\ \A k \in 1..n : b[k] = IF p <= k /\ k < m THEN a[k + 1] ELSE a[k]
    /\ \A k, l \in 1..(m - 1) : k < l => b[k] < b[l]
    /\ \A x : Left(b, m - 1, x) <=> Left(a, m, x) /\ x # a[p]

LEMMA ShiftedFacts ==
    ASSUME NEW n \in Nat, NEW m \in 1..n, NEW p \in 1..m, NEW a, Rising(a, m, n)
    PROVE  IsShift(Shifted(a, m, p), a, m, p, n)
<1> DEFINE b == Shifted(a, m, p)
<1>0. /\ DOMAIN a = 1..n /\ \A k \in 1..m : a[k] \in Nat
      /\ \A k, l \in 1..m : k < l => a[k] < a[l]
  BY DEF Rising
<1>1. DOMAIN b = 1..n /\ \A k \in 1..n : b[k] = IF p <= k /\ k < m THEN a[k + 1] ELSE a[k]
  BY <1>0 DEF Shifted
<1> HIDE DEF b
<1>2. ASSUME NEW k \in 1..(m - 1), NEW l \in 1..(m - 1), k < l PROVE b[k] < b[l]
  <2>1. k \in 1..m /\ k + 1 \in 1..m /\ l \in 1..m /\ l + 1 \in 1..m /\ k \in 1..n /\ l \in 1..n
    OBVIOUS
  <2>2. b[k] = (IF p <= k THEN a[k + 1] ELSE a[k]) /\ b[l] = (IF p <= l THEN a[l + 1] ELSE a[l])
    BY <1>1, <2>1
  <2>3. a[k] < a[l] /\ a[k] < a[l + 1] /\ a[k + 1] < a[l + 1]
    BY <1>0, <1>2, <2>1
  <2>4. p <= k => p <= l
    BY <1>2
  <2> QED
    BY <2>2, <2>3, <2>4
<1>3. ASSUME NEW x, Left(b, m - 1, x) PROVE Left(a, m, x) /\ x # a[p]
  <2>1. PICK k \in 1..(m - 1) : b[k] = x
    BY <1>3 DEF Left
  <2>2. k \in 1..m /\ k + 1 \in 1..m /\ k \in 1..n
    OBVIOUS
  <2>3. CASE p <= k
    <3>1. x = a[k + 1] /\ a[p] < a[k + 1] /\ a[p] \in Nat /\ a[k + 1] \in Nat
      BY <1>0, <1>1, <2>1, <2>2, <2>3
    <3> QED
      BY <2>2, <3>1 DEF Left
  <2>4. CASE k < p
    <3>1. x = a[k] /\ a[k] < a[p] /\ a[p] \in Nat /\ a[k] \in Nat
      BY <1>0, <1>1, <2>1, <2>2, <2>4
    <3> QED
      BY <2>2, <3>1 DEF Left
  <2> QED
    BY <2>3, <2>4
<1>4. ASSUME NEW x, Left(a, m, x), x # a[p] PROVE Left(b, m - 1, x)
  <2>1. PICK k \in 1..m : a[k] = x
    BY <1>4 DEF Left
  <2>2. k # p
    BY <1>4, <2>1
  <2>3. CASE k < p
    <3>1. k \in 1..(m - 1) /\ k \in 1..n /\ ~(p <= k)
      BY <2>3
    <3>2. b[k] = x
      BY <1>1, <2>1, <3>1
    <3> QED
      BY <3>1, <3>2 DEF Left
  <2>4. CASE k > p
    <3>1. k - 1 \in 1..(m - 1) /\ k - 1 \in 1..n /\ p <= k - 1 /\ k - 1 < m /\ (k - 1) + 1 = k
      BY <2>4
    <3>2. b[k - 1] = x
      BY <1>1, <2>1, <3>1
    <3> QED
      BY <3>1, <3>2 DEF Left
  <2> QED
    BY <2>2, <2>3, <2>4
<1>5. \A x : Left(b, m - 1, x) <=> Left(a, m, x) /\ x # a[p]
  BY <1>3, <1>4
<1>6. IsShift(b, a, m, p, n)
  BY <1>1, <1>2, <1>5 DEF IsShift
<1> QED
  BY <1>6 DEF b

\* A step that removes the channel read, the slice still reaching beyond cell i.
LEMMA LoopInvRemoved ==
    ASSUME NEW n \in Nat \ {0}, NEW q, Queue(q, n), NEW N, NEW i \in Nat, i + 1 <= n,
           NEW a, NEW m, LoopInv(a, m, i, q, n, N), i + 1 <= m, a[i + 1] \in N,
           NEW b, b = Shifted(a, m, i + 1)
    PROVE  LoopInv(b, m - 1, i + 1, q, n, N)
<1>1. /\ DOMAIN a = 1..n /\ m \in 0..n /\ n - m <= i
      /\ \A k \in 1..m : \E j \in 1..n : a[k] = q[j]
      /\ \A k, l \in 1..m : k < l => a[k] < a[l]
      /\ \A k \in 1..m : k >= i => a[k] = q[k + (n - m)]
      /\ \A k \in 1..n : k > m /\ k > i => a[k] = q[n]
  BY DEF LoopInv, Slice
<1>2. m \in 1..n /\ i + 1 \in 1..m /\ \A k \in 1..m : a[k] \in Nat
  BY <1>1 DEF Queue
<1>3. /\ DOMAIN b = 1..n
      /\ \A k \in 1..n : b[k] = IF i + 1 <= k /\ k < m THEN a[k + 1] ELSE a[k]
      /\ \A k, l \in 1..(m - 1) : k < l => b[k] < b[l]
      /\ \A x : Left(b, m - 1, x) <=> Left(a, m, x) /\ x # a[i + 1]
  <2>1. Rising(a, m, n)
    BY <1>1, <1>2 DEF Rising
  <2>2. IsShift(b, a, m, i + 1, n)
    BY <1>2, <2>1, ShiftedFacts
  <2> QED
    BY <2>2 DEF IsShift
<1> DEFINE v == i + 1 + (n - m)
<1>4. v \in 1..n /\ a[i + 1] = q[v]
  BY <1>1, <1>2
<1>5. \A j \in 1..n : q[j] = q[v] => j = v
  BY <1>4, QueueDistinct
<1>6. Slice(b, m - 1, i + 1, q, n)
  <2>1. n - (m - 1) <= i + 1 /\ m - 1 \in 0..n
    BY <1>1, <1>2
  <2>2. \A k \in 1..(m - 1) : \E j \in 1..n : b[k] = q[j]
    <3>1. \A k \in 1..(m - 1) : k \in 1..n /\ k \in 1..m /\ k + 1 \in 1..m
      BY <1>2
    <3>2. \A k \in 1..(m - 1) : b[k] = a[k] \/ b[k] = a[k + 1]
      BY <1>3, <3>1
    <3> QED
      BY <1>1, <3>1, <3>2
  <2>3. ASSUME NEW k \in 1..(m - 1), k >= i + 1 PROVE b[k] = q[k + (n - (m - 1))]
    <3>1. k \in 1..n /\ k + 1 \in 1..m /\ i + 1 <= k /\ k < m /\ k + 1 >= i
      BY <1>2, <2>3
    <3>2. b[k] = a[k + 1] /\ a[k + 1] = q[k + 1 + (n - m)]
      BY <1>1, <1>3, <3>1
    <3>3. k + 1 + (n - m) = k + (n - (m - 1))
      BY <1>2
    <3> QED
      BY <3>2, <3>3
  <2>4. ASSUME NEW k \in 1..n, k > m - 1, k > i + 1 PROVE b[k] = q[n]
    <3>1. ~(k < m) /\ b[k] = a[k]
      BY <1>2, <1>3, <2>4
    <3>2. CASE k = m
      <4>1. k \in 1..m /\ k >= i /\ k + (n - m) = n
        BY <1>2, <2>4, <3>2
      <4> QED
        BY <1>1, <3>1, <4>1
    <3>3. CASE k > m
      BY <1>1, <2>4, <3>1, <3>3
    <3> QED
      BY <1>2, <3>1, <3>2, <3>3
  <2> QED
    BY <1>3, <2>1, <2>2, <2>3, <2>4 DEF Slice
<1>7. \A j \in 1..n : j # v => (Left(b, m - 1, q[j]) <=> Left(a, m, q[j]))
  BY <1>3, <1>4, <1>5
<1>8. ~Left(b, m - 1, q[v]) /\ q[v] \in N
  BY <1>3, <1>4
<1>9. ASSUME NEW j \in 1..(n - 1), j <= (i + 1) + (n - (m - 1))
      PROVE  ~Left(b, m - 1, q[j]) <=> q[j] \in N /\ (j = 1 \/ Left(b, m - 1, q[j - 1]))
  <2>1. j < v \/ j = v \/ j = v + 1
    BY <1>2, <1>9
  <2>2. CASE j < v
    <3>1. j <= i + (n - m) /\ j \in 1..n /\ j # v
      BY <1>2, <2>2
    <3>2. j # 1 => j - 1 \in 1..n /\ j - 1 # v
      BY <1>2, <2>2
    <3>3. ~Left(a, m, q[j]) <=> q[j] \in N /\ (j = 1 \/ Left(a, m, q[j - 1]))
      BY <3>1 DEF LoopInv, Decided
    <3> HIDE DEF v
    <3> QED
      BY <1>7, <3>1, <3>2, <3>3
  <2>3. CASE j = v
    <3>1. CASE i = 0
      <4>1. v = 1
        BY <1>1, <1>2, <3>1
      <4> QED
        BY <1>8, <2>3, <4>1
    <3>2. CASE i # 0
      <4>1. i \in 1..m /\ i >= i /\ i + (n - m) = v - 1 /\ v - 1 \in 1..n /\ v - 1 # v
        BY <1>2, <3>2
      <4>2. a[i] = q[v - 1]
        BY <1>1, <4>1
      <4>3. Left(a, m, q[v - 1])
        BY <4>1, <4>2 DEF Left
      <4> HIDE DEF v
      <4>4. Left(b, m - 1, q[v - 1])
        BY <1>7, <4>1, <4>3
      <4> QED
        BY <1>8, <2>3, <4>4
    <3> QED
      BY <3>1, <3>2
  <2>4. CASE j = v + 1
    <3>1. j - 1 = v /\ j # v /\ j \in 1..n /\ j # 1
      BY <1>4, <2>4
    <3>2. i + 2 \in 1..m /\ i + 2 >= i /\ i + 2 + (n - m) = j
      BY <1>2, <1>9, <2>4
    <3>3. a[i + 2] = q[j]
      BY <1>1, <3>2
    <3>4. Left(a, m, q[j])
      BY <3>2, <3>3 DEF Left
    <3> HIDE DEF v
    <3>5. Left(b, m - 1, q[j])
      BY <1>7, <3>1, <3>4
    <3> QED
      BY <1>8, <3>1, <3>5
  <2> QED
    BY <2>1, <2>2, <2>3, <2>4
<1>10. ~Left(b, m - 1, q[n]) => i + 1 > m - 1 /\ q[n] \in N
  <2> SUFFICES ASSUME ~Left(b, m - 1, q[n]) PROVE i + 1 > m - 1 /\ q[n] \in N
    OBVIOUS
  <2>1. ~Left(a, m, q[n]) => i > m
    BY DEF LoopInv, Decided
  <2>2. Left(a, m, q[n])
    BY <1>2, <2>1
  <2>3. n \in 1..n
    OBVIOUS
  <2>4. v = n
    BY <1>7, <2>2, <2>3
  <2>5. i + 1 = m
    BY <1>2, <2>4
  <2>6. i + 1 > m - 1
    BY <1>2, <2>5
  <2> QED
    BY <1>8, <2>4, <2>6
<1>11. i + 1 = n /\ q[n] \in N => ~Left(b, m - 1, q[n])
  <2>1. i + 1 = n => v = n
    BY <1>2
  <2> HIDE DEF v
  <2> QED
    BY <1>8, <2>1
<1> QED
  BY <1>6, <1>9, <1>10, <1>11 DEF LoopInv, Decided

\* A step that reads the last channel from a cell beyond the slice, and removes it.
LEMMA LoopInvLast ==
    ASSUME NEW n \in Nat \ {0}, NEW q, Queue(q, n), NEW N, NEW i \in Nat, i + 1 <= n,
           NEW a, NEW m, LoopInv(a, m, i, q, n, N), ~(i + 1 <= m), a[i + 1] \in N,
           NEW p \in 1..m, a[p] = a[i + 1],
           NEW b, b = Shifted(a, m, p)
    PROVE  LoopInv(b, m - 1, i + 1, q, n, N)
<1>1. /\ DOMAIN a = 1..n /\ m \in 0..n /\ n - m <= i
      /\ \A k \in 1..m : \E j \in 1..n : a[k] = q[j]
      /\ \A k, l \in 1..m : k < l => a[k] < a[l]
      /\ \A k \in 1..m : k >= i => a[k] = q[k + (n - m)]
      /\ \A k \in 1..n : k > m /\ k > i => a[k] = q[n]
  BY DEF LoopInv, Slice
<1>2. m \in 1..n /\ i >= m /\ \A k \in 1..m : a[k] \in Nat
  <2>1. m \in 1..n /\ i >= m
    BY <1>1
  <2> QED
    BY <1>1, <2>1 DEF Queue
<1>3. /\ DOMAIN b = 1..n
      /\ \A k \in 1..n : b[k] = IF p <= k /\ k < m THEN a[k + 1] ELSE a[k]
      /\ \A k, l \in 1..(m - 1) : k < l => b[k] < b[l]
      /\ \A x : Left(b, m - 1, x) <=> Left(a, m, x) /\ x # a[p]
  <2>1. Rising(a, m, n)
    BY <1>1, <1>2 DEF Rising
  <2>2. IsShift(b, a, m, p, n)
    BY <1>2, <2>1, ShiftedFacts
  <2> QED
    BY <2>2 DEF IsShift
<1>4. a[i + 1] = q[n] /\ a[p] = q[n]
  <2>1. i + 1 \in 1..n /\ i + 1 > m /\ i + 1 > i
    BY <1>2
  <2> QED
    BY <1>1, <2>1
<1>5. p = m
  <2>1. m \in 1..m
    BY <1>2
  <2>2. PICK j \in 1..n : a[m] = q[j]
    BY <1>1, <2>1
  <2>3. a[m] <= q[n]
    BY <2>2, QueueDistinct
  <2>4. ~(p < m)
    <3>1. p < m => a[p] < a[m]
      BY <1>1, <2>1
    <3>2. a[p] \in Nat /\ a[m] \in Nat
      BY <1>2, <2>1
    <3> QED
      BY <1>4, <2>3, <3>1, <3>2
  <2> QED
    BY <1>2, <2>4
<1>6. \A k \in 1..n : b[k] = a[k]
  BY <1>2, <1>3, <1>5
<1>7. Slice(b, m - 1, i + 1, q, n)
  <2>1. n - (m - 1) <= i + 1 /\ m - 1 \in 0..n
    BY <1>1, <1>2
  <2>2. \A k \in 1..(m - 1) : \E j \in 1..n : b[k] = q[j]
    <3>1. \A k \in 1..(m - 1) : k \in 1..n /\ k \in 1..m
      BY <1>2
    <3> QED
      BY <1>1, <1>6, <3>1
  <2>3. \A k \in 1..(m - 1) : ~(k >= i + 1)
    BY <1>2
  <2>4. ASSUME NEW k \in 1..n, k > i + 1 PROVE b[k] = q[n]
    <3>1. k > m /\ k > i
      BY <1>2, <2>4
    <3> QED
      BY <1>1, <1>6, <3>1
  <2> QED
    BY <1>3, <2>1, <2>2, <2>3, <2>4 DEF Slice
<1>8. \A j \in 1..(n - 1) : Left(b, m - 1, q[j]) <=> Left(a, m, q[j])
  <2>1. \A j \in 1..(n - 1) : q[j] # q[n]
    <3>1. \A j \in 1..(n - 1) : j \in 1..n /\ n \in 1..n /\ j # n
      OBVIOUS
    <3> QED
      BY <3>1, QueueDistinct
  <2> QED
    BY <1>3, <1>4, <2>1
<1>9. ASSUME NEW j \in 1..(n - 1)
      PROVE  ~Left(b, m - 1, q[j]) <=> q[j] \in N /\ (j = 1 \/ Left(b, m - 1, q[j - 1]))
  <2>1. j <= i + (n - m)
    BY <1>2
  <2>2. ~Left(a, m, q[j]) <=> q[j] \in N /\ (j = 1 \/ Left(a, m, q[j - 1]))
    BY <2>1 DEF LoopInv, Decided
  <2>3. j # 1 => j - 1 \in 1..(n - 1)
    OBVIOUS
  <2> QED
    BY <1>8, <2>2, <2>3
<1>10. ~Left(b, m - 1, q[n]) /\ q[n] \in N /\ i + 1 > m - 1
  BY <1>2, <1>3, <1>4
<1> QED
  BY <1>7, <1>9, <1>10 DEF LoopInv, Decided

LEMMA LoopInvStep ==
    ASSUME NEW n \in Nat \ {0}, NEW q, Queue(q, n), NEW N, NEW i \in Nat, i + 1 <= n,
           NEW s, LoopInv(s.a, s.m, i, q, n, N),
           NEW t, t = LoopStep(s, i + 1, N)
    PROVE  LoopInv(t.a, t.m, i + 1, q, n, N)
<1> DEFINE a == s.a
           m == s.m
           c == a[i + 1]
<1>1. CASE c \notin N \/ ~Left(a, m, c)
  <2>1. t = s
    BY <1>1 DEF LoopStep, RemoveFromArray, Left
  <2>2. LoopInv(a, m, i + 1, q, n, N)
    BY <1>1, LoopInvKept
  <2> QED
    BY <2>1, <2>2
<1>2. CASE c \in N /\ Left(a, m, c)
  <2> DEFINE p == CHOOSE k \in 1..m : a[k] = c
             b == Shifted(a, m, p)
  <2>1. p \in 1..m /\ a[p] = c
    BY <1>2 DEF Left
  <2>2. t = [a |-> b, m |-> m - 1]
    <3>1. t = RemoveFromArray(s, c) /\ ~\A k \in 1..m : a[k] # c
      BY <1>2 DEF LoopStep, Left
    <3> QED
      BY <3>1 DEF RemoveFromArray, Shifted
  <2>3. t.a = b /\ t.m = m - 1
    BY <2>2
  <2> HIDE DEF p, a, m
  <2>4. CASE ~(i + 1 <= m)
    <3>1. LoopInv(a, m, i, q, n, N)
      BY DEF a, m
    <3>2. LoopInv(b, m - 1, i + 1, q, n, N)
      BY <1>2, <2>1, <2>4, <3>1, LoopInvLast
    <3> QED
      BY <2>3, <3>2
  <2>5. CASE i + 1 <= m
    <3>1. LoopInv(a, m, i, q, n, N)
      BY DEF a, m
    <3>2. m \in 0..n /\ \A k \in 1..m : \E j \in 1..n : a[k] = q[j]
      BY <3>1 DEF LoopInv, Slice
    <3>3. \A k, l \in 1..m : k < l => a[k] < a[l]
      BY <3>1 DEF LoopInv, Slice
    <3>4. a[p] \in Nat
      BY <2>1, <3>2 DEF Queue
    <3>5. i + 1 \in 1..m
      BY <2>5, <3>2
    <3>6. ~(p < i + 1) /\ ~(i + 1 < p)
      BY <2>1, <3>3, <3>4, <3>5
    <3>7. p = i + 1
      BY <2>1, <3>2, <3>6
    <3>8. b = Shifted(a, m, i + 1)
      BY <3>7
    <3> HIDE DEF b, c
    <3>9. a[i + 1] \in N
      BY <1>2 DEF c
    <3>10. LoopInv(b, m - 1, i + 1, q, n, N)
      BY <2>5, <3>1, <3>8, <3>9, LoopInvRemoved
    <3> QED
      BY <2>3, <3>10
  <2>6. m \in Int
    BY DEF m, LoopInv, Slice
  <2> QED
    BY <2>4, <2>5
<1> QED
  BY <1>1, <1>2

-----------------------------------------------------------------------------
(* The loop as a whole. *)

\* g gives the array before the first step and after each of n steps.
IsScan(g, s, n, N) ==
    g = [i \in 0..n |-> IF i = 0 THEN s ELSE LoopStep(g[i - 1], i, N)]

LEMMA ScanExists ==
    ASSUME NEW s, NEW N, NEW n \in Nat
    PROVE  \E g : IsScan(g, s, n, N)
<1> DEFINE G == {k \in Nat : \E g : IsScan(g, s, k, N)}
<1>1. 0 \in G
  <2> DEFINE g == [i \in 0..0 |-> s]
  <2>1. \A i \in 0..0 : i = 0
    OBVIOUS
  <2>2. g = [i \in 0..0 |-> IF i = 0 THEN s ELSE LoopStep(g[i - 1], i, N)]
    BY <2>1
  <2> QED
    BY <2>2 DEF IsScan
<1>2. ASSUME NEW k \in Nat, k \in G PROVE k + 1 \in G
  <2>1. PICK g : IsScan(g, s, k, N)
    BY <1>2
  <2> DEFINE h == [i \in 0..(k + 1) |-> IF i = k + 1 THEN LoopStep(g[k], k + 1, N) ELSE g[i]]
  <2>2. \A i \in 0..k : /\ h[i] = g[i]
                        /\ g[i] = IF i = 0 THEN s ELSE LoopStep(g[i - 1], i, N)
    <3>1. \A i \in 0..k : i \in 0..(k + 1) /\ i # k + 1
      OBVIOUS
    <3>2. \A i \in 0..k : g[i] = IF i = 0 THEN s ELSE LoopStep(g[i - 1], i, N)
      BY <2>1 DEF IsScan
    <3> QED
      BY <3>1, <3>2
  <2>3. h[k + 1] = LoopStep(g[k], k + 1, N) /\ (k + 1) - 1 = k /\ h[k] = g[k] /\ k + 1 # 0
    BY <2>2
  <2>4. ASSUME NEW i \in 0..(k + 1)
        PROVE  h[i] = IF i = 0 THEN s ELSE LoopStep(h[i - 1], i, N)
    <3>1. CASE i = k + 1
      BY <2>3, <3>1
    <3>2. CASE i \in 0..k
      <4>1. i # 0 => i - 1 \in 0..k
        BY <3>2
      <4> HIDE DEF h
      <4> QED
        BY <2>2, <3>2, <4>1
    <3> QED
      BY <3>1, <3>2
  <2>5. IsScan(h, s, k + 1, N)
    <3>1. h = [i \in 0..(k + 1) |-> h[i]]
      OBVIOUS
    <3> HIDE DEF h
    <3>2. [i \in 0..(k + 1) |-> h[i]]
            = [i \in 0..(k + 1) |-> IF i = 0 THEN s ELSE LoopStep(h[i - 1], i, N)]
      BY <2>4
    <3> QED
      BY <3>1, <3>2 DEF IsScan
  <2> HIDE DEF h
  <2>6. k + 1 \in Nat
    OBVIOUS
  <2> QED
    BY <2>5, <2>6
<1> HIDE DEF G
<1>3. n \in G
  BY <1>1, <1>2, SetInduction
<1> QED
  BY <1>3 DEF G

\* What the loop leaves, and which channels of the queue that are.
LEMMA LoopResult ==
    ASSUME NEW q \in Seq(Nat), Len(q) # 0, Queue(q, Len(q)), NEW N
    PROVE  /\ \A x \in LeftByLoop(q, N) : \E j \in 1..Len(q) : x = q[j]
           /\ \A j \in 1..Len(q) :
                 q[j] \notin LeftByLoop(q, N)
                    <=> q[j] \in N /\ (j = Len(q) \/ j = 1 \/ q[j - 1] \in LeftByLoop(q, N))
<1> DEFINE n == Len(q)
           s == [a |-> q, m |-> n]
           scan == CHOOSE g : IsScan(g, s, n, N)
<1>0. n \in Nat \ {0}
  OBVIOUS
<1>1. IsScan(scan, s, n, N)
  <2> HIDE DEF n, s
  <2> QED
    BY <1>0, ScanExists
<1>2. LeftByLoop(q, N) = {scan[n].a[k] : k \in 1..scan[n].m}
  BY DEF LeftByLoop, IsScan
<1> DEFINE G == {i \in Nat : i <= n => LoopInv(scan[i].a, scan[i].m, i, q, n, N)}
<1>3. s.a = q /\ s.m = n /\ Queue(q, n)
  OBVIOUS
<1> HIDE DEF n, s, scan
<1>4. 0 \in G
  <2>1. scan[0] = s
    BY <1>0, <1>1 DEF IsScan
  <2>2. LoopInv(q, n, 0, q, n, N)
    BY <1>0, <1>3, LoopInvStart
  <2> QED
    BY <1>3, <2>1, <2>2
<1>5. ASSUME NEW i \in Nat, i \in G PROVE i + 1 \in G
  <2> SUFFICES ASSUME i + 1 <= n
               PROVE  LoopInv(scan[i + 1].a, scan[i + 1].m, i + 1, q, n, N)
    OBVIOUS
  <2>1. LoopInv(scan[i].a, scan[i].m, i, q, n, N)
    <3>1. i <= n
      BY <1>0
    <3> QED
      BY <1>5, <3>1
  <2>2. scan[i + 1] = LoopStep(scan[i], i + 1, N)
    <3>1. i + 1 \in 0..n /\ i + 1 # 0 /\ (i + 1) - 1 = i
      BY <1>0
    <3> QED
      BY <1>1, <3>1 DEF IsScan
  <2> QED
    BY <1>0, <1>3, <2>1, <2>2, LoopInvStep
<1> HIDE DEF G
<1>6. n \in G
  BY <1>0, <1>4, <1>5, SetInduction
<1> DEFINE a == scan[n].a
           m == scan[n].m
<1>7. LoopInv(a, m, n, q, n, N)
  BY <1>0, <1>6 DEF G
<1>8. \A x : Left(a, m, x) <=> x \in LeftByLoop(q, N)
  BY <1>2 DEF Left
<1> HIDE DEF a, m
<1>9. \A k \in 1..m : \E j \in 1..n : a[k] = q[j]
  BY <1>7 DEF LoopInv, Slice
<1>10. ASSUME NEW j \in 1..n
       PROVE  ~Left(a, m, q[j]) <=> q[j] \in N /\ (j = n \/ j = 1 \/ Left(a, m, q[j - 1]))
  <2>1. CASE j = n
    BY <1>7, <2>1 DEF LoopInv, Decided
  <2>2. CASE j # n
    <3>1. m \in 0..n
      BY <1>7 DEF LoopInv, Slice
    <3>2. j \in 1..(n - 1) /\ j <= n + (n - m)
      BY <1>0, <2>2, <3>1
    <3> QED
      BY <1>7, <2>2, <3>2 DEF LoopInv, Decided
  <2> QED
    BY <2>1, <2>2
<1>11. ASSUME NEW x \in LeftByLoop(q, N) PROVE \E j \in 1..n : x = q[j]
  <2>1. PICK k \in 1..m : a[k] = x
    BY <1>8 DEF Left
  <2> QED
    BY <1>9, <2>1
<1>12. \A j \in 1..n : q[j] \notin LeftByLoop(q, N)
                         <=> q[j] \in N /\ (j = n \/ j = 1 \/ q[j - 1] \in LeftByLoop(q, N))
  BY <1>8, <1>10
<1> QED
  BY <1>11, <1>12 DEF n

-----------------------------------------------------------------------------
(* The set that Swept describes is the one the loop removes. *)

\* Swept, by positions in the queue.
Rule(R, q, n, N, j) == q[j] \in R <=> q[j] \in N /\ (j = n \/ j = 1 \/ q[j - 1] \notin R)

LEMMA SweptAt ==
    ASSUME NEW n \in Nat \ {0}, NEW q, Queue(q, n), NEW N, NEW R \in SUBSET Members(q, n)
    PROVE  Swept(R, Members(q, n), N) <=> \A j \in 1..n : Rule(R, q, n, N, j)
<1> DEFINE Q == Members(q, n)
<1>0. Q = {q[j] : j \in 1..n} /\ R \in SUBSET Q
  BY DEF Members
<1> HIDE DEF Q
<1>1. \A j, k \in 1..n : q[j] < q[k] <=> j < k
  <2> SUFFICES ASSUME NEW j \in 1..n, NEW k \in 1..n PROVE q[j] < q[k] <=> j < k
    OBVIOUS
  <2>1. q[j] \in Nat /\ q[k] \in Nat /\ (j < k => q[j] < q[k]) /\ (k < j => q[k] < q[j])
    BY DEF Queue
  <2>2. j < k \/ k < j \/ j = k
    OBVIOUS
  <2> QED
    BY <2>1, <2>2
<1>2. ASSUME NEW j \in 1..n PROVE (\A d \in Q : d <= q[j]) <=> j = n
  <2>1. n \in 1..n /\ q[n] \in Q /\ q[j] \in Nat /\ q[n] \in Nat
    BY <1>0 DEF Queue
  <2>2. j = n => \A d \in Q : d <= q[j]
    BY <1>0, QueueDistinct
  <2>3. j # n => q[j] < q[n]
    <3>1. j # n => j < n
      OBVIOUS
    <3> QED
      BY <1>1, <2>1, <3>1
  <2> QED
    BY <2>1, <2>2, <2>3
<1>3. ASSUME NEW j \in 1..n
      PROVE  (~\E p \in R : p < q[j] /\ ~\E d \in Q : p < d /\ d < q[j])
                <=> j = 1 \/ q[j - 1] \notin R
  <2>1. ASSUME NEW p \in R, p < q[j], ~\E d \in Q : p < d /\ d < q[j]
        PROVE  j # 1 /\ q[j - 1] \in R
    <3>1. PICK k \in 1..n : p = q[k]
      BY <1>0
    <3>2. k < j
      BY <1>1, <2>1, <3>1
    <3>3. j - 1 \in 1..n /\ j - 1 < j /\ j # 1
      BY <3>2
    <3>4. q[j - 1] \in Q /\ q[j - 1] < q[j]
      BY <1>0, <1>1, <3>3
    <3>5. ~(k < j - 1)
      <4>1. k < j - 1 => q[k] < q[j - 1]
        BY <1>1, <3>3
      <4> QED
        BY <2>1, <3>1, <3>4, <4>1
    <3>6. k = j - 1
      BY <3>2, <3>3, <3>5
    <3> QED
      BY <2>1, <3>1, <3>3, <3>6
  <2>2. ASSUME j # 1, q[j - 1] \in R
        PROVE  \E p \in R : p < q[j] /\ ~\E d \in Q : p < d /\ d < q[j]
    <3>1. j - 1 \in 1..n /\ j - 1 < j
      BY <2>2
    <3>2. q[j - 1] < q[j]
      BY <1>1, <3>1
    <3>3. ASSUME NEW k \in 1..n, q[j - 1] < q[k], q[k] < q[j] PROVE FALSE
      <4>1. j - 1 < k /\ k < j
        BY <1>1, <3>1, <3>3
      <4> QED
        BY <4>1
    <3>4. ~\E d \in Q : q[j - 1] < d /\ d < q[j]
      BY <1>0, <3>3
    <3> QED
      BY <2>2, <3>2, <3>4
  <2> QED
    BY <2>1, <2>2
<1>4. ASSUME NEW j \in 1..n
      PROVE  Rule(R, q, n, N, j) <=>
                (q[j] \in R <=>
                    /\ q[j] \in N
                    /\ \/ \A d \in Q : d <= q[j]
                       \/ ~\E p \in R : p < q[j] /\ ~\E d \in Q : p < d /\ d < q[j])
  BY <1>2, <1>3 DEF Rule
<1>5. Swept(R, Q, N) <=> \A j \in 1..n : Rule(R, q, n, N, j)
  BY <1>0, <1>4 DEF Swept
<1> QED
  BY <1>5 DEF Q

LEMMA LeftSubset ==
    ASSUME NEW q \in Seq(Nat), NEW Q, Enumerates(q, Q), NEW N
    PROVE  LeftByLoop(q, N) \subseteq Q
<1>1. CASE Len(q) # 0
  <2>1. \A x \in LeftByLoop(q, N) : \E j \in 1..Len(q) : x = q[j]
    BY <1>1, LoopResult DEF Enumerates
  <2>2. \A j \in 1..Len(q) : q[j] \in Q
    BY DEF Enumerates, Members
  <2> QED
    BY <2>1, <2>2
<1>2. CASE Len(q) = 0
  <2> DEFINE s == [a |-> q, m |-> Len(q)]
             scan == CHOOSE g : IsScan(g, s, Len(q), N)
  <2>1. IsScan(scan, s, Len(q), N)
    <3> HIDE DEF s
    <3> QED
      BY ScanExists
  <2>2. LeftByLoop(q, N) = {scan[Len(q)].a[k] : k \in 1..scan[Len(q)].m}
    BY DEF LeftByLoop, IsScan
  <2> HIDE DEF scan
  <2>3. scan[0] = s
    BY <1>2, <2>1 DEF IsScan
  <2>4. scan[Len(q)].m = 0
    BY <1>2, <2>3
  <2> QED
    BY <2>2, <2>4
<1> QED
  BY <1>1, <1>2

\* Of every queue and every set of channels with nothing submitted, Swept describes exactly
\* one part: what the loop of channelManager.Close takes out.
THEOREM SweptIsLoop ==
    ASSUME NEW q \in Seq(Nat), NEW Q, Enumerates(q, Q), NEW N, NEW R \in SUBSET Q
    PROVE  Swept(R, Q, N) <=> R = Q \ LeftByLoop(q, N)
<1> DEFINE n == Len(q)
           L == LeftByLoop(q, N)
<1>1. n \in Nat /\ Queue(q, n) /\ Q = Members(q, n)
  <2>1. n \in Nat
    OBVIOUS
  <2>2. Queue(q, n) /\ Q = Members(q, n)
    BY DEF Enumerates
  <2> HIDE DEF n
  <2> QED
    BY <2>1, <2>2
<1> HIDE DEF n, L
<1>2. CASE n = 0
  <2>1. Q = {}
    BY <1>1, <1>2 DEF Members
  <2>2. Swept(R, Q, N)
    BY <2>1 DEF Swept
  <2>3. R = Q \ L
    BY <2>1
  <2> QED
    BY <2>2, <2>3 DEF L
<1>3. CASE n # 0
  <2>1. \A j \in 1..n : q[j] \notin L <=> q[j] \in N /\ (j = n \/ j = 1 \/ q[j - 1] \in L)
    <3>1. \A j \in 1..Len(q) :
             q[j] \notin LeftByLoop(q, N)
                <=> q[j] \in N /\ (j = Len(q) \/ j = 1 \/ q[j - 1] \in LeftByLoop(q, N))
      <4>1. Len(q) # 0 /\ Queue(q, Len(q))
        BY <1>1, <1>3 DEF n
      <4> QED
        BY <4>1, LoopResult
    <3> QED
      BY <3>1 DEF n, L
  <2>2. Swept(R, Q, N) <=> \A j \in 1..n : Rule(R, q, n, N, j)
    BY <1>1, <1>3, SweptAt
  <2>3. \A j \in 1..n : q[j] \in Q /\ (j # 1 => j - 1 \in 1..n /\ q[j - 1] \in Q)
    <3>1. \A j \in 1..n : j # 1 => j - 1 \in 1..n
      BY <1>1
    <3>2. \A j \in 1..n : q[j] \in Q
      BY <1>1 DEF Members
    <3> QED
      BY <3>1, <3>2
  <2>4. \A j \in 1..n : Rule(Q \ L, q, n, N, j)
    BY <2>1, <2>3 DEF Rule
  <2>5. ASSUME \A j \in 1..n : Rule(R, q, n, N, j) PROVE R = Q \ L
    <3> DEFINE Same(j) == q[j] \in R <=> q[j] \in Q \ L
               G == {j \in Nat : j \in 1..n => Same(j)}
    <3> HIDE DEF Same
    <3>1. 0 \in G
      OBVIOUS
    <3>2. ASSUME NEW j \in Nat, j \in G PROVE j + 1 \in G
      <4>1. ASSUME j + 1 \in 1..n PROVE Same(j + 1)
        <5>1. Rule(R, q, n, N, j + 1) /\ Rule(Q \ L, q, n, N, j + 1)
          BY <2>4, <2>5, <4>1
        <5>2. (j + 1) - 1 = j
          OBVIOUS
        <5>3. j + 1 # 1 => j \in 1..n
          BY <1>1, <4>1
        <5>4. j + 1 # 1 => (q[j] \in R <=> q[j] \in Q \ L)
          BY <3>2, <5>3 DEF Same
        <5> QED
          BY <2>3, <4>1, <5>1, <5>2, <5>4 DEF Same, Rule
      <4> QED
        BY <4>1
    <3> HIDE DEF G
    <3>3. Nat \subseteq G
      BY <3>1, <3>2, SetInduction
    <3>4. \A j \in 1..n : q[j] \in R <=> q[j] \in Q \ L
      <4>1. \A j \in 1..n : j \in Nat
        OBVIOUS
      <4> QED
        BY <3>3, <4>1 DEF G, Same
    <3>5. ASSUME NEW x \in Q PROVE x \in R <=> x \in Q \ L
      <4>1. PICK j \in 1..n : x = q[j]
        BY <1>1 DEF Members
      <4> QED
        BY <3>4, <4>1
    <3> QED
      BY <3>5
  <2>6. R = Q \ L => \A j \in 1..n : Rule(R, q, n, N, j)
    BY <2>4
  <2> QED
    BY <2>2, <2>5, <2>6 DEF L
<1> QED
  BY <1>2, <1>3

\* The channels of a set in the order of their numbers.
LEMMA QueueExists ==
    ASSUME NEW b \in Nat, NEW Q \in SUBSET (1..b)
    PROVE  \E q \in Seq(Nat) : Enumerates(q, Q)
<1> DEFINE Enumerable(S) == \E q \in Seq(Nat) : Enumerates(q, S)
           Up(k) == \A S \in SUBSET (1..k) : Enumerable(S)
           G == {k \in Nat : Up(k)}
<1>1. 0 \in G
  <2> SUFFICES ASSUME NEW S \in SUBSET (1..0) PROVE Enumerable(S)
    <3> HIDE DEF Enumerable
    <3> QED
      OBVIOUS
  <2>1. S = {}
    OBVIOUS
  <2>2. << >> \in Seq(Nat) /\ Len(<< >>) = 0 /\ DOMAIN << >> = 1..0 /\ 1..0 = {}
    OBVIOUS
  <2>3. Queue(<< >>, Len(<< >>))
    BY <2>2 DEF Queue
  <2>4. S = {<< >>[j] : j \in 1..Len(<< >>)}
    BY <2>1, <2>2
  <2>5. Enumerates(<< >>, S)
    BY <2>3, <2>4 DEF Enumerates, Members
  <2>6. << >> \in Seq(Nat)
    OBVIOUS
  <2> WITNESS << >> \in Seq(Nat)
  <2> QED
    BY <2>5
<1>2. ASSUME NEW k \in Nat, k \in G PROVE k + 1 \in G
  <2> SUFFICES ASSUME NEW S \in SUBSET (1..(k + 1)) PROVE Enumerable(S)
    <3> HIDE DEF Enumerable
    <3> QED
      OBVIOUS
  <2> DEFINE T == S \ {k + 1}
  <2>1. T \in SUBSET (1..k)
    OBVIOUS
  <2>2. PICK q \in Seq(Nat) : Enumerates(q, T)
    BY <1>2, <2>1
  <2>3. CASE k + 1 \notin S
    <3>1. T = S
      BY <2>3
    <3> HIDE DEF T
    <3> QED
      BY <2>2, <3>1
  <2>4. CASE k + 1 \in S
    <3> DEFINE n == Len(q)
               t == Append(q, k + 1)
    <3>1. n \in Nat /\ DOMAIN q = 1..n
      OBVIOUS
    <3>2. /\ t \in Seq(Nat) /\ Len(t) = n + 1 /\ DOMAIN t = 1..(n + 1)
          /\ \A j \in 1..n : t[j] = q[j]
          /\ t[n + 1] = k + 1
      OBVIOUS
    <3>3. \A j \in 1..n : q[j] \in Nat /\ q[j] \in 1..k
      <4>1. T = {q[j] : j \in 1..n}
        BY <2>2 DEF Enumerates, Members
      <4>2. \A x \in T : x \in Nat /\ x \in 1..k
        BY <2>1
      <4> HIDE DEF T, n
      <4>3. \A j \in 1..n : q[j] \in T
        BY <4>1
      <4> QED
        BY <4>2, <4>3
    <3>4. \A j, l \in 1..n : j < l => q[j] < q[l]
      BY <2>2 DEF Enumerates, Queue
    <3> HIDE DEF n, t
    <3>5. \A j \in 1..(n + 1) : t[j] \in Nat
      <4>1. \A j \in 1..(n + 1) : j \in 1..n \/ j = n + 1
        BY <3>1
      <4> QED
        BY <3>2, <3>3, <4>1
    <3>6. ASSUME NEW j \in 1..(n + 1), NEW l \in 1..(n + 1), j < l PROVE t[j] < t[l]
      <4>1. j \in 1..n /\ (l \in 1..n \/ l = n + 1)
        BY <3>1, <3>6
      <4>2. CASE l \in 1..n
        BY <3>2, <3>4, <3>6, <4>1, <4>2
      <4>3. CASE l = n + 1
        <5>1. t[l] = k + 1 /\ t[j] = q[j] /\ q[j] \in 1..k
          BY <3>2, <3>3, <4>1, <4>3
        <5> QED
          BY <5>1
      <4> QED
        BY <4>1, <4>2, <4>3
    <3>7. Queue(t, n + 1)
      BY <3>2, <3>5, <3>6 DEF Queue
    <3>8. S = {t[j] : j \in 1..(n + 1)}
      <4>1. S = T \cup {k + 1} /\ T = {q[j] : j \in 1..n}
        BY <2>2, <2>4 DEF n, Enumerates, Members
      <4>2. \A j \in 1..(n + 1) : j \in 1..n \/ j = n + 1
        BY <3>1
      <4>3. \A j \in 1..n : j \in 1..(n + 1)
        BY <3>1
      <4>4. n + 1 \in 1..(n + 1)
        BY <3>1
      <4>5. \A x \in S : \E j \in 1..(n + 1) : x = t[j]
        BY <3>2, <4>1, <4>3, <4>4
      <4>6. \A j \in 1..(n + 1) : t[j] \in S
        BY <3>2, <4>1, <4>2
      <4> QED
        BY <4>5, <4>6
    <3>9. Enumerates(t, S)
      BY <3>2, <3>7, <3>8 DEF Enumerates, Members
    <3> QED
      BY <3>2, <3>9
  <2> QED
    BY <2>3, <2>4
<1> HIDE DEF G
<1>3. b \in G
  BY <1>1, <1>2, SetInduction
<1> QED
  BY <1>3 DEF G

LEMMA CloseLoops ==
    ASSUME TypeOK, Close
    PROVE  \E q \in Seq(Nat) :
              /\ Enumerates(q, channelQueue)
              /\ channelQueue' = LeftByLoop(q, {c \in channelQueue : NoneSubmitted(ch[c])})
<1> DEFINE N == {c \in channelQueue : NoneSubmitted(ch[c])}
<1>1. PICK R \in SUBSET channelQueue :
         Swept(R, channelQueue, N) /\ channelQueue' = channelQueue \ R
  BY DEF Close, RemovePendingChannels
<1> HIDE DEF N
<1>2. PICK q \in Seq(Nat) : Enumerates(q, channelQueue)
  <2>1. channelQueue \in SUBSET (1..MaxChannels) /\ MaxChannels \in Nat
    BY ConfigAssumption DEF TypeOK, ChannelId
  <2> QED
    BY <2>1, QueueExists
<1>3. R = channelQueue \ LeftByLoop(q, N)
  BY <1>1, <1>2, SweptIsLoop
<1>4. LeftByLoop(q, N) \subseteq channelQueue
  BY <1>2, LeftSubset
<1>5. channelQueue' = LeftByLoop(q, N)
  BY <1>1, <1>3, <1>4
<1> QED
  BY <1>2, <1>5 DEF N

\* channelManager.Close, in every configuration: what it leaves of the queue is what its loop
\* over the shrinking slice leaves, on the queue's channels in the order of their numbers.
THEOREM CloseIsLoop ==
    Spec => [][Close => \E q \in Seq(Nat) :
                  /\ Enumerates(q, channelQueue)
                  /\ channelQueue'
                       = LeftByLoop(q, {c \in channelQueue : NoneSubmitted(ch[c])})]_vars
<1>1. TypeOK /\ [Next]_vars =>
        [Close => \E q \in Seq(Nat) :
            /\ Enumerates(q, channelQueue)
            /\ channelQueue'
                 = LeftByLoop(q, {c \in channelQueue : NoneSubmitted(ch[c])})]_vars
  BY CloseLoops
<1> QED
  BY <1>1, TypeInit, TypeStep, PTL DEF Spec
=============================================================================
