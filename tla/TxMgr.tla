------------------------------- MODULE TxMgr -------------------------------
(***************************************************************************)
(* The transaction manager (op-service/txmgr: txmgr.go, send_state.go) and *)
(* the queue that feeds it (queue.go): concurrent sends share one account, *)
(* hand out its nonces, resubmit with higher fees, watch the receipt of    *)
(* every variant they published and decide when to give up.                *)
(*                                                                         *)
(* L1 is a chain of mined transactions, one per nonce, each with its       *)
(* number of confirmations, and a pool with at most one transaction per    *)
(* nonce.  A transaction is a send, its nonce and the number of fee bumps  *)
(* (v): of two with one nonce the one with more bumps pays more.           *)
(***************************************************************************)
EXTENDS Integers, Sequences, FiniteSets

CONSTANTS
    MaxSends,                   \* bound: sends over a behaviour
    MaxPending,                 \* limit of the queue's group
    NumConfirmations,
    SafeAbortNonceTooLowCount,
    ReorgDepth,                 \* L1 blocks a reorganisation replaces
    MaxBumps,                   \* bound: fee bumps the model tells apart
    MaxFaults,                  \* bound: reorganisations, evictions, lost answers,
                                \* failures of RPCs or the signer, kills and the Close, together
    BackendCloses               \* Close ends the receipt queries too (not over HTTP)

ASSUME TxMgrAssumption ==
    /\ MaxSends \in Nat /\ MaxPending \in Nat \ {0} /\ MaxFaults \in Nat
    /\ NumConfirmations \in Nat \ {0} /\ SafeAbortNonceTooLowCount \in Nat \ {0}
    /\ MaxBumps \in Nat /\ BackendCloses \in BOOLEAN
    /\ ReorgDepth \in Nat /\ ReorgDepth < NumConfirmations

VARIABLES
    nonce,     \* SimpleTxManager.nonce: {} for nil, else the last one handed out
    closed,    \* SimpleTxManager.closed
    snd,       \* the sends, each with its SendState
    next,      \* the send whose Queue.Send has its group and waits in group.Go, 0 if none
    group,     \* running sends of the queue's group
    groupErr,  \* the group's context is cancelled
    killed,    \* the queue's own context, the batcher's killCtx, is cancelled
    queries,   \* calls of queryReceipt that have their receipt and not yet the tip
    chain,     \* L1: mined transactions, that of nonce n at n + 1
    pool,      \* L1: its transaction pool
    evicted,   \* history: nonces whose last published transaction L1's pool has forgotten
    torn,      \* history: transactions confirmed by a receipt L1 had taken back
    faults     \* counter of the bound

l1Vars == <<chain, pool, evicted>>
queueVars == <<next, group, groupErr, killed>>
queryVars == <<queries, torn>>
vars == <<nonce, closed, snd, queueVars, queryVars, l1Vars, faults>>

Sends == 1..MaxSends
Bumps == 0..MaxBumps
Tx(s) == [s |-> s, nonce |-> snd[s].nonce, v |-> snd[s].v]

\* A send with its SendState: the published variants it polls (watch), minedTxs, and the
\* variant on receiptChan (at most one).
NoSend == [stage |-> "new", nonce |-> 0, v |-> 0, bump |-> FALSE, watch |-> {},
           minedTxs |-> {}, tooLow |-> 0, reserved |-> FALSE, receipt |-> {}]
Running(x) == x.stage \in {"publish", "check", "select"}
Published(x) == x.watch # {} \/ x.receipt # {}

\* A send that returns; of a successful one nonce and receipt remain.
Failed == [NoSend EXCEPT !.stage = "reset"]
Returned(x) ==
    [NoSend EXCEPT !.stage = "confirmed", !.nonce = x.nonce, !.receipt = x.receipt]

Init ==
    /\ nonce = {} /\ closed = FALSE /\ snd = [s \in Sends |-> NoSend]
    /\ next = 0 /\ group = {} /\ groupErr = FALSE /\ killed = FALSE
    /\ queries = {} /\ torn = {}
    /\ chain = <<>> /\ pool = {} /\ evicted = {} /\ faults = 0

Fault == faults < MaxFaults /\ faults' = faults + 1

-----------------------------------------------------------------------------
(* L1. *)

Latest == Len(chain)
Mined(t) == \E i \in DOMAIN chain : chain[i].tx = t
Sent(q) == [s |-> q.s, nonce |-> snd[q.s].nonce, v |-> q.v]
AtNonce(n) == {t \in pool : t.nonce = n}
GapBefore(n) == \E m \in Latest..(n - 1) : AtNonce(m) = {}

\* A new block: every mined transaction gets a confirmation (counted up to the number
\* that makes it final here), and the next k transactions of the pool are included.  The
\* tip also grows away from the height of a receipt somebody has.
Confirmations(n) == IF n < NumConfirmations THEN n + 1 ELSE n
Included(k) == {t \in pool : t.nonce < Latest + k}
L1Block(k) ==
    /\ \A n \in Latest..(Latest + k - 1) : AtNonce(n) # {}
    /\ chain' = [i \in 1..(Latest + k) |->
                   IF i <= Latest THEN [chain[i] EXCEPT !.conf = Confirmations(@)]
                   ELSE [tx |-> CHOOSE t \in AtNonce(i - 1) : TRUE, conf |-> 1]]
    /\ pool' = pool \ Included(k)
    /\ queries' = {[q EXCEPT !.conf = Confirmations(@)] : q \in queries}
    /\ UNCHANGED <<nonce, closed, snd, queueVars, evicted, torn, faults>>

\* The last blocks are replaced by empty ones; their transactions are in the pool again.
L1Reorg ==
    /\ Fault
    /\ LET kept == Cardinality({i \in DOMAIN chain : chain[i].conf > ReorgDepth})
       IN  /\ kept < Latest
           /\ chain' = SubSeq(chain, 1, kept)
           /\ pool' = pool \cup {chain[i].tx : i \in (kept + 1)..Latest}
           /\ queries' = {[q EXCEPT !.torn = @ \/ Sent(q).nonce >= kept] : q \in queries}
    /\ UNCHANGED <<nonce, closed, snd, queueVars, evicted, torn>>

\* The pool forgets a transaction, of a running send or of one that has returned.
L1Evict ==
    /\ Fault
    /\ \E t \in pool : pool' = pool \ {t} /\ evicted' = evicted \cup {t.nonce}
    /\ UNCHANGED <<nonce, closed, snd, queueVars, queryVars, chain>>

-----------------------------------------------------------------------------
(* The queue.  One goroutine, the batcher's main loop, calls Queue.Send. *)

\* groupContext: a cancelled group is waited for and replaced, by one that is cancelled
\* from the start if the queue is.
GroupReadyUnwaited == TRUE
GroupReady == groupErr => group = {}
GroupContext ==
    /\ next = 0 /\ GroupReady
    /\ \E s \in Sends :
          /\ snd[s].stage = "new" /\ \A r \in Sends : r < s => snd[r].stage # "new"
          /\ next' = s
    /\ groupErr' = killed
    /\ UNCHANGED <<nonce, closed, snd, group, killed, queryVars, l1Vars, faults>>

\* group.Go blocks at the limit, then starts the goroutine, whose Send is refused if the
\* manager is closed.
HasRoomForOneMore == Cardinality(group) <= MaxPending
HasRoom == Cardinality(group) < MaxPending
Go ==
    /\ next # 0 /\ HasRoom
    /\ snd' = [snd EXCEPT ![next].stage = IF closed THEN "erred" ELSE "craft"]
    /\ group' = group \cup {next} /\ next' = 0
    /\ UNCHANGED <<nonce, closed, groupErr, killed, queryVars, l1Vars, faults>>

\* The queue's own context is cancelled, and with it the group's, for good.
Kill ==
    /\ Fault /\ ~killed /\ killed' = TRUE /\ groupErr' = TRUE
    /\ UNCHANGED <<nonce, closed, snd, next, group, queryVars, l1Vars>>

Close ==
    /\ ~closed /\ Fault /\ closed' = TRUE
    /\ UNCHANGED <<nonce, snd, queueVars, queryVars, l1Vars>>

-----------------------------------------------------------------------------
(* Send. *)

\* A send that returns cancels its context and waits for the goroutines that poll.
EndQueries(s) == queries' = {q \in queries : q.s # s}

\* signWithNextNonce, under nonceLock.
NextNonce == IF nonce = {} THEN Latest ELSE (CHOOSE n \in nonce : TRUE) + 1
Craft(s) ==
    /\ snd[s].stage = "craft" /\ ~groupErr /\ ~closed
    /\ nonce' = {NextNonce}
    /\ snd' = [snd EXCEPT ![s].stage = "publish", ![s].nonce = NextNonce]
    /\ UNCHANGED <<closed, queueVars, queryVars, l1Vars, faults>>

\* Signing fails: the nonce is given back and the transaction is crafted again.
KeptNonce == {NextNonce}
GivenBack == {NextNonce - 1}
SignError(s) ==
    /\ snd[s].stage = "craft" /\ Fault
    /\ nonce' = GivenBack
    /\ UNCHANGED <<closed, snd, queueVars, queryVars, l1Vars>>

\* Crafting is given up: closed, cancelled, or L1 does not answer 30 times.
CraftError(s) ==
    /\ snd[s].stage = "craft"
    /\ IF groupErr \/ closed THEN UNCHANGED faults ELSE Fault
    /\ snd' = [snd EXCEPT ![s] = Failed] /\ EndQueries(s)
    /\ UNCHANGED <<nonce, closed, queueVars, torn, l1Vars>>

\* The fees saturate: from MaxBumps on the model does not tell variants apart.
Bumped(x) == [x EXCEPT !.v = IF x.bump /\ @ < MaxBumps THEN @ + 1 ELSE @]

\* publishTx ends without a transaction sent: the manager is closed, the fees cannot be
\* increased (a limit, or L1 does not answer), a variant turns out to be mined after the
\* increase, or the context is cancelled.
PublishSkip(s) ==
    /\ snd[s].stage = "publish"
    /\ \/ /\ snd' = [snd EXCEPT ![s].stage = "check", ![s].bump = FALSE]
          /\ IF closed THEN UNCHANGED faults ELSE Fault
       \/ /\ ~closed /\ (snd[s].minedTxs # {} \/ groupErr)
          /\ snd' = [snd EXCEPT ![s] = [Bumped(@) EXCEPT !.stage = "check", !.bump = FALSE]]
          /\ UNCHANGED faults
    /\ UNCHANGED <<nonce, closed, queueVars, queryVars, l1Vars>>

\* L1's pool takes transaction t in place of the one it has of that nonce.
Pooled(t) ==
    /\ pool' = (pool \ AtNonce(t.nonce)) \cup {t}
    /\ evicted' = evicted \ {t.nonce}

\* SendTransaction of transaction t for s, whose state is x, is accepted, and a goroutine
\* polls its receipt.
Accepted(s, x, t) ==
    /\ Pooled(t)
    /\ snd' = [snd EXCEPT ![s] = [x EXCEPT !.stage = "check", !.bump = FALSE, !.watch = @ \cup {t.v}]]
\* The answers of L1 to it, with ProcessSendError and what publishTx does next.
Submit(s, x, t) ==
    \/ /\ t.nonce < Latest                            \* nonce too low
       /\ snd' = [snd EXCEPT ![s] = [x EXCEPT !.stage = "check", !.bump = FALSE, !.tooLow = @ + 1]]
       /\ UNCHANGED <<pool, evicted, faults>>
    \/ /\ t.nonce >= Latest /\ \A u \in AtNonce(t.nonce) : u.v < t.v
       /\ Accepted(s, x, t) /\ UNCHANGED faults
    \/ /\ t.nonce >= Latest /\ \E u \in AtNonce(t.nonce) : u.v >= t.v
       /\ snd' = [snd EXCEPT ![s] = [x EXCEPT !.bump = TRUE]]  \* underpriced: bump again
       /\ UNCHANGED <<pool, evicted, faults>>
    \/ /\ GapBefore(t.nonce)                          \* nonce too high: try again
       /\ snd' = [snd EXCEPT ![s] = [x EXCEPT !.bump = FALSE]]
       /\ UNCHANGED <<pool, evicted, faults>>
    \/ /\ Fault /\ t.nonce >= Latest                  \* address already reserved
       /\ snd' = [snd EXCEPT ![s] = [x EXCEPT !.stage = "check", !.bump = FALSE, !.reserved = TRUE]]
       /\ UNCHANGED <<pool, evicted>>
    \/ /\ Fault /\ t.nonce >= Latest                  \* accepted, but the answer is lost
       /\ \A u \in AtNonce(t.nonce) : u.v < t.v
       /\ Pooled(t)
       /\ snd' = [snd EXCEPT ![s] = [x EXCEPT !.stage = "check", !.bump = FALSE]]

\* One round of publishTx.
Publish(s) ==
    LET x == Bumped(snd[s])
    IN  /\ snd[s].stage = "publish" /\ ~closed
        /\ x.minedTxs = {} /\ ~groupErr
        /\ Submit(s, x, [s |-> s, nonce |-> x.nonce, v |-> x.v])
        /\ UNCHANGED <<nonce, closed, queueVars, queryVars, chain>>

\* CriticalError; late says whether the deadline to get into the pool has passed.
TooManyEarly(n) == n + 1 >= SafeAbortNonceTooLowCount
TooMany(n) == n >= SafeAbortNonceTooLowCount
CriticalError(x, late) ==
    /\ x.minedTxs = {}
    /\ \/ TooMany(x.tooLow)
       \/ ~Published(x) /\ late
       \/ x.reserved
Check(s) ==
    /\ snd[s].stage = "check"
    /\ \E late \in BOOLEAN :
          \/ /\ CriticalError(snd[s], late)
             /\ snd' = [snd EXCEPT ![s] = Failed] /\ EndQueries(s)
          \/ /\ ~CriticalError(snd[s], late)
             /\ snd' = [snd EXCEPT ![s].stage = "select"] /\ UNCHANGED queries
    /\ UNCHANGED <<nonce, closed, queueVars, torn, l1Vars, faults>>

\* case <-ticker.C.  A tick that resubmits finds the receipts polled: they are polled more
\* often (ReceiptQueryInterval and ResubmissionTimeout, 12s and 48s by default), and what
\* L1 does after the poll it may as well do after the tick.
Polled(s) == \A v \in snd[s].watch : ~Mined([s |-> s, nonce |-> snd[s].nonce, v |-> v])
Tick(s) ==
    /\ snd[s].stage = "select" /\ snd[s].minedTxs = {}
    /\ \/ closed /\ snd' = [snd EXCEPT ![s] = Failed] /\ EndQueries(s)
       \/ /\ ~closed /\ Polled(s) /\ UNCHANGED queries
          /\ snd' = [snd EXCEPT ![s].stage = "publish", ![s].bump = TRUE]
    /\ UNCHANGED <<nonce, closed, queueVars, torn, l1Vars, faults>>

\* case <-ctx.Done()
CtxDone(s) ==
    /\ snd[s].stage = "select" /\ groupErr
    /\ snd' = [snd EXCEPT ![s] = Failed] /\ EndQueries(s)
    /\ UNCHANGED <<nonce, closed, queueVars, torn, l1Vars, faults>>

\* case receipt := <-receiptChan: Send returns it and the goroutine ends.
ReceiveReceipt(s) ==
    /\ snd[s].stage = "select" /\ snd[s].receipt # {}
    /\ snd' = [snd EXCEPT ![s] = Returned(@)] /\ group' = group \ {s} /\ EndQueries(s)
    /\ UNCHANGED <<nonce, closed, next, groupErr, killed, torn, l1Vars, faults>>

\* TxNotMined of variant v.
NotMined(x, v) ==
    [x EXCEPT !.minedTxs = @ \ {v},
              !.tooLow = IF x.minedTxs = {v} THEN 0 ELSE @]

\* queryReceipt by waitForTx of variant v of s, in two calls to L1.  The first one asks for
\* the receipt and tells the SendState; a receipt is mined in a block of the chain of then.
Answered == ~groupErr /\ ~(closed /\ BackendCloses)
TransactionReceipt(s, v) ==
    LET x == snd[s]  t == [s |-> s, nonce |-> x.nonce, v |-> v]
    IN  /\ v \in x.watch /\ Answered
        /\ \A q \in queries : ~(q.s = s /\ q.v = v)
        /\ \/ /\ Mined(t)
              /\ snd' = [snd EXCEPT ![s].minedTxs = @ \cup {v}]
              /\ queries' = queries \cup
                    {[s |-> s, v |-> v, conf |-> chain[t.nonce + 1].conf, torn |-> FALSE]}
           \/ /\ ~Mined(t)
              /\ snd' = [snd EXCEPT ![s] = NotMined(x, v)] /\ UNCHANGED queries
        /\ UNCHANGED <<nonce, closed, queueVars, torn, l1Vars, faults>>

\* The second one asks for the tip: what counts is how far it is past the receipt's block,
\* be that block still there or not.  A receipt with enough confirmations goes to
\* receiptChan, if that is empty, and ends the polling.
ConfirmedEarly(n) == n + 1 >= NumConfirmations
Confirmed(n) == n >= NumConfirmations
Found(x, v) ==
    [x EXCEPT !.receipt = IF @ = {} THEN {v} ELSE @, !.watch = @ \ {v}]
HeaderByNumber(q) ==
    /\ Answered /\ queries' = queries \ {q}
    /\ \/ /\ Confirmed(q.conf)
          /\ snd' = [snd EXCEPT ![q.s] = Found(@, q.v)]
          /\ torn' = IF q.torn THEN torn \cup {Sent(q)} ELSE torn
       \/ ~Confirmed(q.conf) /\ UNCHANGED <<snd, torn>>
    /\ UNCHANGED <<nonce, closed, queueVars, l1Vars, faults>>

\* The second call fails, and the receipt is asked for again at the next poll.
TipError(q) ==
    /\ queries' = queries \ {q}
    /\ IF Answered THEN Fault ELSE UNCHANGED faults
    /\ UNCHANGED <<nonce, closed, snd, queueVars, torn, l1Vars>>

\* Send returns an error: resetNonce.
ResetNonce(s) ==
    /\ snd[s].stage = "reset" /\ snd' = [snd EXCEPT ![s].stage = "erred"]
    /\ nonce' = {}
    /\ UNCHANGED <<closed, queueVars, queryVars, l1Vars, faults>>

Leave(s) ==
    /\ snd[s].stage = "erred" /\ snd' = [snd EXCEPT ![s].stage = "failed"]
    /\ group' = group \ {s} /\ groupErr' = TRUE
    /\ UNCHANGED <<nonce, closed, next, killed, queryVars, l1Vars, faults>>

-----------------------------------------------------------------------------
SendStep(s) ==
    \/ Craft(s) \/ CraftError(s) \/ PublishSkip(s) \/ Publish(s) \/ Check(s)
    \/ Tick(s) \/ CtxDone(s) \/ ReceiveReceipt(s) \/ ResetNonce(s) \/ Leave(s)

QueryReceipt(s) ==
    /\ Running(snd[s])
    /\ \/ \E v \in Bumps : TransactionReceipt(s, v)
       \/ \E q \in queries : q.s = s /\ HeaderByNumber(q)

Next ==
    \/ \E k \in 0..MaxPending : L1Block(k)
    \/ L1Reorg \/ L1Evict
    \/ GroupContext \/ Go \/ Kill \/ Close
    \/ \E s \in Sends : SignError(s) \/ SendStep(s) \/ QueryReceipt(s)
    \/ \E q \in queries : TipError(q)

Spec == Init /\ [][Next]_vars

\* L1 goes on and includes what it can execute, the queue starts what it may, every send
\* runs and is polled, and a cancelled context is noticed although ticks keep coming.
Fairness ==
    /\ WF_vars(Go \/ \E k \in 0..MaxPending : L1Block(k))
    /\ SF_vars(\E s \in Sends : CtxDone(s))
    /\ \A s \in Sends : WF_vars(s \in group /\ (SendStep(s) \/ QueryReceipt(s)))

FairSpec == Spec /\ Fairness

-----------------------------------------------------------------------------
(* Properties. *)

Stages == {"new", "craft", "publish", "check", "select", "reset", "erred", "failed",
           "confirmed"}
Send == [stage : Stages, nonce : Nat, v : Bumps, bump : BOOLEAN, watch : SUBSET Bumps,
         minedTxs : SUBSET Bumps, tooLow : Nat,
         reserved : BOOLEAN, receipt : SUBSET Bumps]
PoolTx == [s : Sends, nonce : Nat, v : Bumps]
Query == [s : Sends, v : Bumps, conf : 1..NumConfirmations, torn : BOOLEAN]

\* The variables have their types; the group never exceeds its limit.
TypeOK ==
    /\ nonce \in SUBSET Int /\ Cardinality(nonce) <= 1
    /\ closed \in BOOLEAN /\ groupErr \in BOOLEAN /\ killed \in BOOLEAN
    /\ queries \in SUBSET Query /\ torn \in SUBSET PoolTx /\ evicted \in SUBSET Nat
    /\ snd \in [Sends -> Send]
    /\ next \in 0..MaxSends
    /\ group \in SUBSET Sends /\ Cardinality(group) <= MaxPending
    /\ chain \in Seq([tx : PoolTx, conf : 1..NumConfirmations])
    /\ pool \in SUBSET PoolTx
    /\ faults \in 0..MaxFaults

\* Sends that have a nonce and have not returned.
Live == {s \in Sends : Running(snd[s])}
\* A send of the group has failed: all of it is cancelled, or will be once the caller has
\* the error.
Failing == groupErr \/ \E s \in group : snd[s].stage \in {"reset", "erred"}

\* Two sends never compete for one nonce, although a failure makes the manager ask L1
\* for the nonce again while others are in flight: unless the group is failing, the
\* nonces of its sends differ.
OwnNonces ==
    Failing \/ \A s, t \in Live : s # t => snd[s].nonce # snd[t].nonce

\* The nonces leave no gap behind which transactions would wait for ever: unless the
\* group is failing, each nonce from L1's next to the last handed out is a live send's, or
\* a reorganisation has put its transaction back into the pool; unless the pool has then
\* forgotten it, when nobody is left to publish it again.
NoNonceGap ==
    Failing \/ \A n \in nonce : \A m \in Latest..n :
                  AtNonce(m) # {} \/ (\E s \in Live : snd[s].nonce = m) \/ m \in evicted

\* A confirmed send stays on L1, over reorganisations below NumConfirmations blocks; unless
\* one took back its block between the two calls of the query that confirmed it.
ConfirmedStays ==
    \A s \in Sends : snd[s].stage = "confirmed" =>
        \E v \in snd[s].receipt :
           LET t == [s |-> s, nonce |-> snd[s].nonce, v |-> v] IN Mined(t) \/ t \in torn

\* Concurrent sends do not make each other fail: as long as L1, its RPCs and the signer
\* work and nobody stops the manager, no send fails; in particular none takes its own
\* mined transaction for another one that has used its nonce.
FailsOnlyByFault ==
    faults = 0 =>
        \A s \in Sends : snd[s].stage \notin {"reset", "erred", "failed"}

=============================================================================
