---------------------------- MODULE ChannelBank ----------------------------
(***************************************************************************)
(* The stages of the derivation pipeline that turn L1 data into channels   *)
(* (op-node/rollup/derive: frame_queue.go, channel_bank.go, channel.go),   *)
(* with the L1 block they read and their reset.  Each step is one call of  *)
(* ChannelBank.NextData, as ChannelInReader makes it, or the move of       *)
(* L1Traversal to the next block once NextData has said io.EOF.            *)
(*                                                                         *)
(* A frame has size 1, its number and channel matter and its data do not.  *)
(***************************************************************************)
EXTENDS Integers, Sequences, FiniteSets, Functions

CONSTANTS
    Sent,              \* Sent[c]: number of frames of a channel the batcher sends
    Irregular,         \* other channel ids
    OtherFrames,       \* the frames of those, of any number
    ChannelTimeout,    \* rollup.Config.ChannelTimeout
    MaxChannelBankSize,
    CanyonBlock,       \* first L1 block of the Canyon fork
    MaxL1,             \* bound: L1 blocks
    MaxFramesPerBlock, \* bound: frames in an L1 block
    MaxIrregular,      \* bound: frames of irregular channels on L1
    MaxFrames,         \* bound: frames on L1
    MaxResets          \* bound: resets of the pipeline

Regular == DOMAIN Sent

ASSUME BankAssumption ==
    /\ Sent \in [Regular -> Nat \ {0}] /\ Regular \cap Irregular = {}
    /\ OtherFrames \subseteq [ch : Irregular, num : Nat, last : BOOLEAN]
    /\ ChannelTimeout \in Nat /\ MaxChannelBankSize \in Nat /\ CanyonBlock \in Nat
    /\ MaxL1 \in Nat \ {0} /\ MaxFramesPerBlock \in Nat /\ MaxIrregular \in Nat
    /\ MaxFrames \in Nat
    /\ MaxResets \in Nat

VARIABLES
    l1,           \* the frames in each L1 block, in order
    origin,       \* the L1 block of the pipeline
    frames,       \* FrameQueue.frames and the data of the block not yet parsed
    channelQueue, \* the channels of the bank in FIFO order
    base,         \* history: the L1 block of the last reset
    reads,        \* history: channels read since, with the L1 block
    before,       \* history: base, origin and reads before the last reset
    pruned,       \* history: the bank pruned a channel
    resets        \* resets so far

pipeline == <<origin, frames, channelQueue>>
vars == <<l1, pipeline, base, reads, before, pruned, resets>>

\* The frames the batcher sends, each of them once; those of OtherFrames it would not send.
RegularFrames ==
    UNION {{[ch |-> c, num |-> i, last |-> (i = Sent[c] - 1)] : i \in 0..(Sent[c] - 1)} :
              c \in Regular}

OnL1(f, n) == n \in DOMAIN l1 /\ \E i \in DOMAIN l1[n] : l1[n][i] = f
IrregularOnL1 ==
    FoldFunction(+, 0, [n \in DOMAIN l1 |->
        Cardinality({i \in DOMAIN l1[n] : l1[n][i].ch \in Irregular})])

-----------------------------------------------------------------------------
(* A channel of the bank: channel.go.  inputs are the numbers of its frames. *)

NewChannel(c) ==
    [id |-> c, openBlock |-> origin, size |-> 0, closed |-> FALSE, highest |-> 0,
     end |-> 0, inputs |-> {}]

\* AddFrame refuses a second closing frame, a duplicate, and a frame at or past the end.
AcceptsDuplicates(x, f) == ~(f.last /\ x.closed) /\ (x.closed => f.num < x.end)
Accepts(x, f) ==
    /\ ~(f.last /\ x.closed)
    /\ f.num \notin x.inputs
    /\ x.closed => f.num < x.end

\* A closing frame below the highest frame number prunes the frames past it; the size of
\* every frame is taken off, also of those that stay.
PrunesInputs(x, f) == f.last /\ f.num < x.highest
AddFrame(x, f) ==
    LET kept == IF PrunesInputs(x, f) THEN {i \in x.inputs : i < f.num} ELSE x.inputs
        freed == IF PrunesInputs(x, f) THEN Cardinality(x.inputs) ELSE 0
        high == IF PrunesInputs(x, f) THEN f.num ELSE x.highest
    IN  [x EXCEPT !.closed = @ \/ f.last, !.end = IF f.last THEN f.num ELSE @,
                  !.inputs = kept \cup {f.num},
                  !.highest = IF f.num > high THEN f.num ELSE high,
                  !.size = (@ - freed) + 1]

\* All frames up to the closing one are there.
IsReady(x) == x.closed /\ x.inputs = 0..x.end

-----------------------------------------------------------------------------
Init ==
    /\ l1 = <<>> /\ origin = 0 /\ frames = <<>> /\ channelQueue = <<>>
    /\ base = 1 /\ reads = <<>> /\ pruned = FALSE /\ resets = 0
    /\ before = [base |-> 1, origin |-> 0, reads |-> <<>>]

\* A block is added to L1, when the pipeline has got to its end: what comes later does
\* not matter to it before.
L1Block(fs) ==
    /\ origin = Len(l1) /\ Len(l1) < MaxL1
    /\ \A i \in DOMAIN fs : fs[i].ch \in Regular =>
          /\ \A n \in DOMAIN l1 : ~OnL1(fs[i], n)
          /\ \A j \in DOMAIN fs : fs[j] = fs[i] => j = i
    /\ l1' = Append(l1, fs)
    /\ IrregularOnL1' <= MaxIrregular
    /\ FoldFunction(+, 0, [n \in DOMAIN l1' |-> Len(l1'[n])]) <= MaxFrames
    /\ UNCHANGED <<pipeline, base, reads, before, pruned, resets>>

TimedOutLate(x) == x.openBlock + ChannelTimeout + 1 < origin
TimedOut(x) == x.openBlock + ChannelTimeout < origin

\* The channels Read may take: the head before Canyon, the first that is ready since.
ReadableFrom(i) == IsReady(channelQueue[i]) /\ ~TimedOut(channelQueue[i])
ReadableHead == {i \in {1} \cap DOMAIN channelQueue : ReadableFrom(i)}
Readable ==
    IF origin < CanyonBlock THEN ReadableHead
    ELSE {i \in DOMAIN channelQueue : ReadableFrom(i)}

HeadTimedOut == channelQueue # <<>> /\ TimedOut(channelQueue[1])

Without(i) == SubSeq(channelQueue, 1, i - 1)
                \o SubSeq(channelQueue, i + 1, Len(channelQueue))

\* ChannelBank.Read drops the first channel if it is timed out.
ReadTimedOut ==
    /\ HeadTimedOut
    /\ channelQueue' = Tail(channelQueue)
    /\ UNCHANGED <<l1, origin, frames, base, reads, before, pruned, resets>>

\* ChannelBank.Read hands out a channel.
ReadChannel ==
    /\ ~HeadTimedOut
    /\ \E i \in Readable :
          /\ \A j \in Readable : i <= j
          /\ channelQueue' = Without(i)
          /\ reads' = Append(reads, [ch |-> channelQueue[i].id, at |-> origin])
    /\ UNCHANGED <<l1, origin, frames, base, before, pruned, resets>>

ReadEOF == ~HeadTimedOut /\ Readable = {}

TotalSize(q) == FoldFunction(+, 0, [i \in DOMAIN q |-> q[i].size])

\* prune drops channels from the front until the sizes fit.
Fits(q, k) == TotalSize(SubSeq(q, k + 1, Len(q))) <= MaxChannelBankSize
PrunedFrom(q) == CHOOSE k \in 0..Len(q) : Fits(q, k) /\ \A j \in 0..(k - 1) : ~Fits(q, j)

\* The queue with a new channel for f, if the bank has none.
Opened(f) ==
    IF \E i \in DOMAIN channelQueue : channelQueue[i].id = f.ch THEN channelQueue
    ELSE Append(channelQueue, NewChannel(f.ch))

\* IngestFrame, when Read has said io.EOF: the next frame goes to its channel.  A frame
\* of a timed-out channel or one that AddFrame refuses leaves the bank as it is.
IngestFrame ==
    /\ ReadEOF /\ frames # <<>>
    /\ frames' = Tail(frames)
    /\ LET f == Head(frames)  q == Opened(f)
       IN  \E i \in DOMAIN q :
             /\ q[i].id = f.ch
             /\ IF TimedOut(q[i]) \/ ~Accepts(q[i], f)
                THEN channelQueue' = q /\ UNCHANGED pruned
                ELSE LET r == [q EXCEPT ![i] = AddFrame(q[i], f)]  k == PrunedFrom(r)
                     IN  /\ channelQueue' = SubSeq(r, k + 1, Len(r))
                         /\ pruned' = (pruned \/ k > 0)
    /\ UNCHANGED <<l1, origin, base, reads, before, resets>>

\* NextData says io.EOF and the pipeline moves to the next L1 block.
AdvanceL1 ==
    /\ ReadEOF /\ frames = <<>> /\ origin < Len(l1)
    /\ origin' = origin + 1 /\ frames' = l1[origin + 1]
    /\ UNCHANGED <<l1, channelQueue, base, reads, before, pruned, resets>>

\* The pipeline is reset to L1 block b, between any two calls.
KeptBank == channelQueue
EmptyBank == <<>>
Reset(b) ==
    /\ resets < MaxResets /\ resets' = resets + 1
    /\ origin' = b /\ frames' = l1[b] /\ channelQueue' = EmptyBank
    /\ base' = b /\ reads' = <<>>
    /\ before' = [base |-> base, origin |-> origin, reads |-> reads]
    /\ UNCHANGED <<l1, pruned>>

NextData == ReadTimedOut \/ ReadChannel \/ IngestFrame

L1Data == UNION {[1..k -> RegularFrames \cup OtherFrames] : k \in 0..MaxFramesPerBlock}

Next ==
    \/ \E fs \in L1Data : L1Block(fs)
    \/ NextData
    \/ AdvanceL1
    \/ \E b \in 1..origin : Reset(b)

Spec == Init /\ [][Next]_vars

-----------------------------------------------------------------------------
(* Properties. *)

BankChannel ==
    [id : Regular \cup Irregular, openBlock : 1..MaxL1, size : Nat, closed : BOOLEAN,
     highest : Nat, end : Nat, inputs : SUBSET Nat]
Frame == [ch : Regular \cup Irregular, num : Nat, last : BOOLEAN]
Read == [ch : Regular \cup Irregular, at : 1..MaxL1]

\* The variables have their types.  The size of a channel, an unsigned number kept by
\* hand while frames are added and pruned, never wraps and never exceeds what the channel
\* holds, and what the bank counts fits its limit.
TypeOK ==
    /\ l1 \in Seq(Seq(Frame)) /\ Len(l1) <= MaxL1
    /\ origin \in 0..Len(l1) /\ base \in 1..MaxL1
    /\ frames \in Seq(Frame)
    /\ channelQueue \in Seq(BankChannel)
    /\ \A i \in DOMAIN channelQueue :
          channelQueue[i].size <= Cardinality(channelQueue[i].inputs)
    /\ TotalSize(channelQueue) <= MaxChannelBankSize
    /\ reads \in Seq(Read)
    /\ before \in [base : 1..MaxL1, origin : 0..MaxL1, reads : Seq(Read)]
    /\ pruned \in BOOLEAN /\ resets \in 0..MaxResets

\* The frames of regular channel c are complete with L1 block n, when L1 is read from
\* block base on: the last of them is in n, the first at most the channel timeout earlier.
CompleteAt(c, n) ==
    /\ \E f \in RegularFrames : f.ch = c /\ OnL1(f, n)
    /\ \A f \in RegularFrames : f.ch = c =>
          \E m \in base..n : m + ChannelTimeout >= n /\ OnL1(f, m)

\* Every channel of the batcher whose frames are on L1 in time is read exactly once, at
\* the L1 block that completes it, in whatever order its frames arrive and whatever other
\* channels are started, left incomplete or fed with odd frames; and no other is read.
\* (From Canyon on, and as long as the bank has not been pruned.)
ReadsComplete ==
    ~pruned => \A c \in Regular, n \in base..(origin - 1) : n > CanyonBlock =>
        Cardinality({i \in DOMAIN reads : reads[i] = [ch |-> c, at |-> n]})
            = IF CompleteAt(c, n) THEN 1 ELSE 0

\* The reads of rs that are of regular channels and at L1 block n, in order.
IsAt(r, n) == r.ch \in Regular /\ r.at = n
ReadsAt(rs, n) ==
    LET upTo[i \in 0..Len(rs)] ==
            IF i = 0 THEN <<>>
            ELSE IF IsAt(rs[i], n) THEN Append(upTo[i - 1], rs[i]) ELSE upTo[i - 1]
    IN  upTo[Len(rs)]

\* A reset is harmless: EngineQueue.Reset goes back the channel timeout from the L1 origin
\* of the safe head, and BatchQueue drops what is read before that origin.  So from base
\* plus the timeout on, the channels are read at the same L1 block and in the same order
\* as before the reset.
ResetReproduces ==
    ~pruned => \A n \in 1..MaxL1 :
        /\ n > CanyonBlock /\ n < origin /\ n < before.origin
        /\ n >= base + ChannelTimeout /\ n >= before.base + ChannelTimeout
        => ReadsAt(reads, n) = ReadsAt(before.reads, n)
=============================================================================
