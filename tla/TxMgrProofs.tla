---------------------------- MODULE TxMgrProofs ----------------------------
(***************************************************************************)
(* The properties of the transaction manager for every value of its        *)
(* constants.  The steps of a send come down to a few kinds (Effect): it   *)
(* takes a nonce, works on, fails, returns, resets the nonce or leaves.    *)
(* The inductive invariants are                                            *)
(*   - TypesInv: the types, and that L1 has the transactions in the order  *)
(*     of their nonces, the older the better confirmed;                    *)
(*   - QueueInv: who is in the group, and that a send which has published  *)
(*     nothing is as good as new;                                          *)
(*   - QueryInv: what a receipt in hand says of L1, unless L1 has taken    *)
(*     its block back since;                                               *)
(*   - ReceiptInv: a receipt that is held is of a final transaction, or of *)
(*     one that was taken back between the two calls of its query;         *)
(*   - NonceOrder: the last nonce handed out is not below one in use;      *)
(*   - GapInv: the nonces have a gap only while a failed send is about to  *)
(*     make the manager ask L1 again;                                      *)
(*   - Steady: what holds while nothing fails.                             *)
(***************************************************************************)
EXTENDS TxMgr, FiniteSetTheorems, SequenceTheorems, TLAPS

-----------------------------------------------------------------------------
(* What the operations on a send return. *)

LEMMA BumpedType ==
    ASSUME NEW x \in Send
    PROVE  /\ Bumped(x) \in Send
           /\ \A stage \in Stages : [Bumped(x) EXCEPT !.stage = stage] \in Send
           /\ Bumped(x).stage = x.stage /\ Bumped(x).nonce = x.nonce
           /\ Bumped(x).watch = x.watch /\ Bumped(x).minedTxs = x.minedTxs
           /\ Bumped(x).tooLow = x.tooLow /\ Bumped(x).reserved = x.reserved
           /\ Bumped(x).receipt = x.receipt
<1> DEFINE w == IF x.bump /\ x.v < MaxBumps THEN x.v + 1 ELSE x.v
<1>1. w \in Bumps
  BY TxMgrAssumption DEF Send, Bumps
<1>2. Bumped(x) = [x EXCEPT !.v = w]
  BY DEF Bumped
<1> HIDE DEF w
<1> QED
  BY <1>1, <1>2 DEF Send

LEMMA FailedType ==
    /\ Failed \in Send /\ NoSend \in Send
    /\ Failed.stage = "reset" /\ Failed.receipt = {} /\ Failed.watch = {}
    /\ Failed.minedTxs = {} /\ Failed.tooLow = 0 /\ Failed.reserved = FALSE
    /\ Failed.v = 0
<1>1. 0 \in Bumps
  BY TxMgrAssumption DEF Bumps
<1> QED
  BY <1>1 DEF Failed, NoSend, Send, Stages

LEMMA ReturnedType ==
    ASSUME NEW x \in Send
    PROVE  /\ Returned(x) \in Send
           /\ Returned(x).stage = "confirmed" /\ Returned(x).nonce = x.nonce
           /\ Returned(x).receipt = x.receipt
           /\ Returned(x).reserved = FALSE
<1>1. 0 \in Bumps
  BY TxMgrAssumption DEF Bumps
<1> QED
  BY <1>1 DEF Returned, NoSend, Send, Stages

LEMMA FoundType ==
    ASSUME NEW x \in Send, NEW v \in Bumps
    PROVE  /\ Found(x, v) \in Send
           /\ Found(x, v).stage = x.stage /\ Found(x, v).nonce = x.nonce
           /\ Found(x, v).minedTxs = x.minedTxs /\ Found(x, v).watch = x.watch \ {v}
           /\ Found(x, v).receipt = (IF x.receipt = {} THEN {v} ELSE x.receipt)
           /\ Found(x, v).tooLow = x.tooLow /\ Found(x, v).reserved = x.reserved
  BY DEF Found, Send

LEMMA NotMinedType ==
    ASSUME NEW x \in Send, NEW v \in Bumps
    PROVE  /\ NotMined(x, v) \in Send
           /\ NotMined(x, v).stage = x.stage /\ NotMined(x, v).nonce = x.nonce
           /\ NotMined(x, v).minedTxs = x.minedTxs \ {v}
           /\ NotMined(x, v).receipt = x.receipt /\ NotMined(x, v).watch = x.watch
           /\ NotMined(x, v).tooLow = (IF x.minedTxs = {v} THEN 0 ELSE x.tooLow)
           /\ NotMined(x, v).reserved = x.reserved
  BY DEF NotMined, Send

-----------------------------------------------------------------------------
(* What the actions do to a send. *)

Kept(x) == Running(x) \/ x.stage = "confirmed"
Own(s, v) == [s |-> s, nonce |-> snd[s].nonce, v |-> v]
HasConf(t, c) == \E i \in DOMAIN chain : chain[i].tx = t /\ chain[i].conf = c
IsFinal(t) == HasConf(t, NumConfirmations)

\* Nothing but the state of send s changes, to y, and perhaps its queries, the pool and the
\* bound.
Becomes(s, y) ==
    /\ y \in Send /\ snd' = [snd EXCEPT ![s] = y]
    /\ UNCHANGED <<nonce, closed, queueVars, chain>>

Fails(s) == /\ snd[s].stage \in {"craft", "publish", "check", "select"}
            /\ Becomes(s, Failed) /\ EndQueries(s) /\ UNCHANGED <<pool, evicted, torn>>

\* A query of s has its receipt of variant v with enough confirmations.
Shown(s, v) == \E q \in queries :
    q.s = s /\ q.v = v /\ Confirmed(q.conf) /\ (q.torn => Own(s, v) \in torn')
\* The queries of s when its state becomes y: those there were find their transaction mined
\* as before, a new one has just found it.
QueriesOf(s, y) == \A q \in queries' :
    IF q \in queries THEN q.s = s /\ q.v \in snd[s].minedTxs => q.v \in y.minedTxs
    ELSE q \in Query /\ q.s = s /\ q.v \in y.minedTxs /\ HasConf(Own(s, q.v), q.conf)
WorksTo(s, y) ==
    /\ Becomes(s, y) /\ Running(y) /\ y.nonce = snd[s].nonce
    /\ \A v \in y.receipt : v \in snd[s].receipt \/ Shown(s, v)
    /\ QueriesOf(s, y)
PoolOf(s) ==
    \/ UNCHANGED <<pool, evicted>>
    \/ \E v \in Bumps : /\ pool' = (pool \ AtNonce(snd[s].nonce)) \cup {Own(s, v)}
                        /\ evicted' = evicted \ {snd[s].nonce}
TornOf(s) ==
    torn' = torn \/ \E q \in queries : q.s = s /\ torn' = torn \cup {Own(s, q.v)}
Works(s) == Running(snd[s]) /\ (\E y : WorksTo(s, y)) /\ PoolOf(s) /\ TornOf(s)

SndTypes == snd \in [Sends -> Send]
ChainTypes == chain \in Seq([tx : PoolTx, conf : 1..NumConfirmations])
ChainNonces == \A i \in DOMAIN chain : chain[i].tx.nonce = i - 1
QueryTypes == queries \in SUBSET Query /\ torn \in SUBSET PoolTx /\ evicted \in SUBSET Nat

\* A send that works on without an answer to a query.
LEMMA WorksPlain ==
    ASSUME NEW s \in Sends, Running(snd[s]), NEW y \in Send, snd' = [snd EXCEPT ![s] = y],
           Running(y), y.nonce = snd[s].nonce, y.receipt = snd[s].receipt,
           y.minedTxs = snd[s].minedTxs, PoolOf(s),
           UNCHANGED <<nonce, closed, queueVars, chain, queryVars>>
    PROVE  Works(s)
<1>1. queries' = queries /\ torn' = torn
  BY DEF queryVars
<1>2. QueriesOf(s, y) /\ TornOf(s)
  BY <1>1 DEF QueriesOf, TornOf
<1>3. Becomes(s, y)
  BY DEF Becomes
<1> QED
  BY <1>2, <1>3 DEF Works, WorksTo

LEMMA CraftErrorFails ==
    ASSUME SndTypes, NEW s \in Sends, CraftError(s) \/ CtxDone(s)
    PROVE  Fails(s)
  BY FailedType DEF CraftError, CtxDone, Fails, Becomes, l1Vars

LEMMA CheckEffect ==
    ASSUME SndTypes, NEW s \in Sends, Check(s) \/ Tick(s)
    PROVE  Fails(s) \/ Works(s)
<1>1. /\ snd[s] \in Send /\ snd[s].stage \in {"check", "select"} /\ Running(snd[s])
      /\ UNCHANGED <<nonce, closed, queueVars, torn, l1Vars>>
  BY DEF SndTypes, Check, Tick, Running
<1>2. CASE snd' = [snd EXCEPT ![s] = Failed] /\ EndQueries(s)
  BY <1>1, <1>2, FailedType DEF Fails, Becomes, l1Vars
<1>3. PoolOf(s)
  BY <1>1 DEF PoolOf, l1Vars
<1>4. CASE snd' = [snd EXCEPT ![s].stage = "select"] /\ UNCHANGED queries
  <2> DEFINE y == [snd[s] EXCEPT !.stage = "select"]
  <2>1. /\ y \in Send /\ Running(y) /\ y.nonce = snd[s].nonce /\ y.receipt = snd[s].receipt
        /\ y.minedTxs = snd[s].minedTxs
    BY <1>1 DEF Send, Stages, Running
  <2>2. snd' = [snd EXCEPT ![s] = y]
    BY <1>4 DEF SndTypes
  <2> HIDE DEF y
  <2> QED
    BY <1>1, <1>3, <1>4, <2>1, <2>2, WorksPlain DEF l1Vars, queryVars
<1>5. CASE snd' = [snd EXCEPT ![s].stage = "publish", ![s].bump = TRUE] /\ UNCHANGED queries
  <2> DEFINE y == [snd[s] EXCEPT !.stage = "publish", !.bump = TRUE]
  <2>1. /\ y \in Send /\ Running(y) /\ y.nonce = snd[s].nonce /\ y.receipt = snd[s].receipt
        /\ y.minedTxs = snd[s].minedTxs
    BY <1>1 DEF Send, Stages, Running
  <2>2. snd' = [snd EXCEPT ![s] = y]
    BY <1>5 DEF SndTypes
  <2> HIDE DEF y
  <2> QED
    BY <1>1, <1>3, <1>5, <2>1, <2>2, WorksPlain DEF l1Vars, queryVars
<1> QED
  BY <1>2, <1>4, <1>5 DEF Check, Tick

LEMMA PublishSkipWorks ==
    ASSUME SndTypes, NEW s \in Sends, PublishSkip(s)
    PROVE  Works(s)
<1>1. /\ snd[s] \in Send /\ Running(snd[s])
      /\ UNCHANGED <<nonce, closed, queueVars, queryVars, l1Vars>>
  BY DEF SndTypes, PublishSkip, Running
<1>2. \E y \in Send : /\ snd' = [snd EXCEPT ![s] = y] /\ Running(y)
                      /\ y.nonce = snd[s].nonce /\ y.receipt = snd[s].receipt
                      /\ y.minedTxs = snd[s].minedTxs
  <2>1. CASE snd' = [snd EXCEPT ![s].stage = "check", ![s].bump = FALSE]
    <3> DEFINE y == [snd[s] EXCEPT !.stage = "check", !.bump = FALSE]
    <3>1. /\ y \in Send /\ Running(y) /\ y.nonce = snd[s].nonce
          /\ y.receipt = snd[s].receipt /\ y.minedTxs = snd[s].minedTxs
      BY <1>1 DEF Send, Stages, Running
    <3>2. snd' = [snd EXCEPT ![s] = y]
      BY <2>1 DEF SndTypes
    <3> HIDE DEF y
    <3> QED
      BY <3>1, <3>2
  <2>2. CASE snd' = [snd EXCEPT ![s] = [Bumped(snd[s]) EXCEPT !.stage = "check", !.bump = FALSE]]
    <3> DEFINE x == Bumped(snd[s])
               y == [x EXCEPT !.stage = "check", !.bump = FALSE]
    <3>1. /\ x \in Send /\ x.nonce = snd[s].nonce /\ x.receipt = snd[s].receipt
          /\ x.minedTxs = snd[s].minedTxs
      BY <1>1, BumpedType
    <3>2. snd' = [snd EXCEPT ![s] = y]
      BY <2>2
    <3> HIDE DEF x
    <3>3. /\ y \in Send /\ Running(y) /\ y.nonce = snd[s].nonce
          /\ y.receipt = snd[s].receipt /\ y.minedTxs = snd[s].minedTxs
      BY <3>1 DEF Send, Stages, Running
    <3> HIDE DEF y
    <3> QED
      BY <3>2, <3>3
  <2> QED
    BY <2>1, <2>2 DEF PublishSkip
<1>3. PoolOf(s) /\ UNCHANGED chain
  BY <1>1 DEF PoolOf, l1Vars
<1> QED
  BY <1>1, <1>2, <1>3, WorksPlain

\* What the answers of L1 to a published transaction make of the send.
Answers(x, t) ==
    {[x EXCEPT !.stage = "check", !.bump = FALSE, !.tooLow = @ + 1],
     [x EXCEPT !.stage = "check", !.bump = FALSE, !.watch = @ \cup {t.v}],
     [x EXCEPT !.bump = TRUE], [x EXCEPT !.bump = FALSE],
     [x EXCEPT !.stage = "check", !.bump = FALSE, !.reserved = TRUE],
     [x EXCEPT !.stage = "check", !.bump = FALSE]}

LEMMA AnswerTypes ==
    ASSUME NEW x \in Send, x.stage = "publish", NEW t, t.v \in Bumps, NEW y \in Answers(x, t)
    PROVE  /\ y \in Send /\ Running(y) /\ y.nonce = x.nonce /\ y.receipt = x.receipt
           /\ y.minedTxs = x.minedTxs
<1>1. x.tooLow + 1 \in Nat /\ x.watch \cup {t.v} \in SUBSET Bumps
  BY DEF Send
<1>2. CASE y = [x EXCEPT !.stage = "check", !.bump = FALSE, !.tooLow = @ + 1]
  BY <1>1, <1>2 DEF Send, Stages, Running
<1>3. CASE y = [x EXCEPT !.stage = "check", !.bump = FALSE, !.watch = @ \cup {t.v}]
  BY <1>1, <1>3 DEF Send, Stages, Running
<1>4. CASE y \in {[x EXCEPT !.bump = TRUE], [x EXCEPT !.bump = FALSE]}
  BY <1>4 DEF Send, Stages, Running
<1>5. CASE y \in {[x EXCEPT !.stage = "check", !.bump = FALSE, !.reserved = TRUE],
                  [x EXCEPT !.stage = "check", !.bump = FALSE]}
  BY <1>5 DEF Send, Stages, Running
<1> QED
  BY <1>2, <1>3, <1>4, <1>5 DEF Answers

LEMMA PublishWorks ==
    ASSUME SndTypes, NEW s \in Sends, Publish(s)
    PROVE  Works(s)
<1>1. snd[s] \in Send /\ snd[s].stage = "publish" /\ Running(snd[s])
  BY DEF SndTypes, Publish, Running
<1> DEFINE x == Bumped(snd[s])
           t == [s |-> s, nonce |-> x.nonce, v |-> x.v]
<1>2. /\ x \in Send /\ x.nonce = snd[s].nonce /\ x.receipt = snd[s].receipt
      /\ x.stage = "publish" /\ x.minedTxs = snd[s].minedTxs
  BY <1>1, BumpedType
<1>3. Submit(s, x, t) /\ UNCHANGED <<nonce, closed, queueVars, queryVars, chain>>
  BY DEF Publish
<1>4. t = Own(s, x.v) /\ x.v \in Bumps /\ t.nonce = snd[s].nonce /\ t.v \in Bumps
  BY <1>2 DEF Own, Send
<1> HIDE DEF x, t
<1>5. PICK y \in Answers(x, t) : snd' = [snd EXCEPT ![s] = y]
  BY <1>3 DEF Submit, Accepted, Answers
<1>6. UNCHANGED <<pool, evicted>> \/ Pooled(t)
  BY <1>3 DEF Submit, Accepted
<1>7. PoolOf(s)
  BY <1>4, <1>6 DEF PoolOf, Pooled
<1>8. /\ y \in Send /\ Running(y) /\ y.nonce = x.nonce /\ y.receipt = x.receipt
      /\ y.minedTxs = x.minedTxs
  BY <1>2, <1>4, AnswerTypes
<1> QED
  BY <1>1, <1>2, <1>3, <1>5, <1>7, <1>8, WorksPlain

LEMMA TransactionReceiptWorks ==
    ASSUME SndTypes, ChainTypes, ChainNonces, NEW s \in Sends, NEW v \in Bumps,
           Running(snd[s]), TransactionReceipt(s, v)
    PROVE  Works(s)
<1>1. /\ snd[s] \in Send /\ UNCHANGED <<nonce, closed, queueVars, torn, l1Vars>>
      /\ \A q \in queries : ~(q.s = s /\ q.v = v)
  BY DEF SndTypes, TransactionReceipt
<1>2. PoolOf(s) /\ TornOf(s) /\ UNCHANGED chain
  BY <1>1 DEF PoolOf, TornOf, l1Vars
<1> DEFINE t == Own(s, v)
           q0 == [s |-> s, v |-> v, conf |-> chain[t.nonce + 1].conf, torn |-> FALSE]
<1>3. CASE /\ Mined(t) /\ snd' = [snd EXCEPT ![s].minedTxs = @ \cup {v}]
           /\ queries' = queries \cup {q0}
  <2>1. PICK i \in DOMAIN chain : chain[i].tx = t
    BY <1>3 DEF Mined
  <2>2. i = t.nonce + 1 /\ i \in 1..Len(chain)
    BY <2>1 DEF ChainNonces, ChainTypes
  <2>3. chain[i] \in [tx : PoolTx, conf : 1..NumConfirmations]
    BY <2>2, ElementOfSeq DEF ChainTypes
  <2>4. PICK c \in 1..NumConfirmations : c = chain[i].conf
    BY <2>3
  <2>5. HasConf(t, c) /\ q0.conf = c /\ q0.s = s /\ q0.v = v
    BY <2>1, <2>2, <2>4 DEF HasConf
  <2>6. q0 \in Query
    BY <2>4, <2>2 DEF Query
  <2> DEFINE y == [snd[s] EXCEPT !.minedTxs = @ \cup {v}]
  <2>7. /\ y \in Send /\ y.stage = snd[s].stage /\ y.nonce = snd[s].nonce
        /\ y.receipt = snd[s].receipt /\ y.minedTxs = snd[s].minedTxs \cup {v}
    BY <1>1 DEF Send
  <2>8. snd' = [snd EXCEPT ![s] = y]
    BY <1>3 DEF SndTypes
  <2> HIDE DEF y
  <2>9. QueriesOf(s, y)
    <3> SUFFICES ASSUME NEW q \in queries'
                 PROVE  IF q \in queries
                        THEN q.s = s /\ q.v \in snd[s].minedTxs => q.v \in y.minedTxs
                        ELSE /\ q \in Query /\ q.s = s /\ q.v \in y.minedTxs
                             /\ HasConf(Own(s, q.v), q.conf)
      BY DEF QueriesOf
    <3>1. q \in queries \/ q = q0
      BY <1>3
    <3> HIDE DEF q0
    <3>2. HasConf(Own(s, q0.v), q0.conf)
      BY <2>5
    <3> QED
      BY <2>5, <2>6, <2>7, <3>1, <3>2
  <2>10. Becomes(s, y) /\ Running(y)
    BY <1>1, <1>2, <2>7, <2>8 DEF Becomes, Running
  <2> QED
    BY <1>2, <2>7, <2>9, <2>10 DEF Works, WorksTo
<1>4. CASE snd' = [snd EXCEPT ![s] = NotMined(snd[s], v)] /\ UNCHANGED queries
  <2> DEFINE y == NotMined(snd[s], v)
  <2>1. /\ y \in Send /\ y.stage = snd[s].stage /\ y.nonce = snd[s].nonce
        /\ y.receipt = snd[s].receipt /\ y.minedTxs = snd[s].minedTxs \ {v}
    BY <1>1, NotMinedType
  <2>2. snd' = [snd EXCEPT ![s] = y]
    BY <1>4
  <2> HIDE DEF y
  <2>3. QueriesOf(s, y)
    BY <1>1, <1>4, <2>1 DEF QueriesOf
  <2>4. Becomes(s, y) /\ Running(y)
    BY <1>1, <1>2, <2>1, <2>2 DEF Becomes, Running
  <2> QED
    BY <1>2, <2>1, <2>3, <2>4 DEF Works, WorksTo
<1> QED
  BY <1>3, <1>4 DEF TransactionReceipt, Own

LEMMA HeaderWorks ==
    ASSUME SndTypes, QueryTypes, NEW s \in Sends, Running(snd[s]), NEW q \in queries, q.s = s,
           HeaderByNumber(q)
    PROVE  Works(s)
<1>1. /\ snd[s] \in Send /\ q.v \in Bumps /\ UNCHANGED <<nonce, closed, queueVars, l1Vars>>
      /\ queries' = queries \ {q} /\ Sent(q) = Own(s, q.v)
  BY DEF SndTypes, HeaderByNumber, QueryTypes, Query, Sent, Own
<1>2. PoolOf(s) /\ UNCHANGED chain
  BY <1>1 DEF PoolOf, l1Vars
<1>3. CASE /\ Confirmed(q.conf) /\ snd' = [snd EXCEPT ![s] = Found(snd[s], q.v)]
           /\ torn' = IF q.torn THEN torn \cup {Sent(q)} ELSE torn
  <2> DEFINE y == Found(snd[s], q.v)
  <2>1. /\ y \in Send /\ y.stage = snd[s].stage /\ y.nonce = snd[s].nonce
        /\ y.minedTxs = snd[s].minedTxs
        /\ y.receipt = (IF snd[s].receipt = {} THEN {q.v} ELSE snd[s].receipt)
    BY <1>1, FoundType
  <2>2. snd' = [snd EXCEPT ![s] = y]
    BY <1>3
  <2> HIDE DEF y
  <2>3. QueriesOf(s, y) /\ TornOf(s)
    BY <1>1, <1>3, <2>1 DEF QueriesOf, TornOf
  <2>4. Shown(s, q.v)
    BY <1>1, <1>3 DEF Shown
  <2>5. \A v \in y.receipt : v \in snd[s].receipt \/ Shown(s, v)
    BY <2>1, <2>4
  <2>6. Becomes(s, y) /\ Running(y)
    BY <1>1, <1>2, <2>1, <2>2 DEF Becomes, Running
  <2> QED
    BY <1>2, <2>1, <2>3, <2>5, <2>6 DEF Works, WorksTo
<1>4. CASE UNCHANGED <<snd, torn>>
  <2> DEFINE y == snd[s]
  <2>1. snd' = [snd EXCEPT ![s] = y]
    BY <1>4 DEF SndTypes
  <2>2. QueriesOf(s, y) /\ TornOf(s)
    BY <1>1, <1>4 DEF QueriesOf, TornOf
  <2>3. Becomes(s, y)
    BY <1>1, <1>2, <2>1 DEF Becomes
  <2> QED
    BY <1>1, <1>2, <2>2, <2>3 DEF Works, WorksTo
<1> QED
  BY <1>3, <1>4 DEF HeaderByNumber

-----------------------------------------------------------------------------
(* L1. *)

Entry == [tx : PoolTx, conf : 1..NumConfirmations]
PoolTypes == pool \in SUBSET PoolTx
ConfOrdered == \A i, j \in DOMAIN chain : i <= j => chain[j].conf <= chain[i].conf

\* A new block keeps what is mined, with one more confirmation, and takes the
\* transactions it adds from the pool.
LEMMA BlockEffect ==
    ASSUME ChainTypes, PoolTypes, NEW k \in 0..MaxPending, L1Block(k)
    PROVE  /\ chain' \in Seq(Entry) /\ Len(chain') = Latest + k
           /\ \A i \in 1..Latest : /\ chain'[i].tx = chain[i].tx
                                   /\ chain'[i].conf = Confirmations(chain[i].conf)
           /\ \A i \in (Latest + 1)..(Latest + k) : /\ chain'[i].tx \in AtNonce(i - 1)
                                                    /\ chain'[i].conf = 1
<1> USE TxMgrAssumption
<1>1. Latest \in Nat /\ k \in Nat /\ chain \in Seq(Entry)
  BY DEF ChainTypes, Entry, Latest
<1> DEFINE e(i) == IF i <= Latest THEN [chain[i] EXCEPT !.conf = Confirmations(@)]
                   ELSE [tx |-> CHOOSE t \in AtNonce(i - 1) : TRUE, conf |-> 1]
<1>2. chain' = [i \in 1..(Latest + k) |-> e(i)]
  BY DEF L1Block
<1>3. ASSUME NEW i \in 1..Latest
      PROVE  /\ e(i) \in Entry /\ e(i).tx = chain[i].tx
             /\ e(i).conf = Confirmations(chain[i].conf)
  <2>1. chain[i] \in Entry
    BY <1>1, ElementOfSeq DEF Latest
  <2>2. Confirmations(chain[i].conf) \in 1..NumConfirmations
    BY <2>1 DEF Confirmations, Entry
  <2>3. e(i) = [chain[i] EXCEPT !.conf = Confirmations(@)]
    BY <1>1
  <2> QED
    BY <2>1, <2>2, <2>3 DEF Entry
<1>4. ASSUME NEW i \in (Latest + 1)..(Latest + k)
      PROVE  e(i) \in Entry /\ e(i).tx \in AtNonce(i - 1) /\ e(i).conf = 1
  <2>1. AtNonce(i - 1) # {}
    <3>1. i - 1 \in Latest..(Latest + k - 1)
      BY <1>1
    <3> QED
      BY <3>1 DEF L1Block
  <2>2. (CHOOSE t \in AtNonce(i - 1) : TRUE) \in AtNonce(i - 1)
    BY <2>1
  <2>3. AtNonce(i - 1) \subseteq PoolTx
    BY DEF AtNonce, PoolTypes
  <2>4. e(i) = [tx |-> CHOOSE t \in AtNonce(i - 1) : TRUE, conf |-> 1]
    BY <1>1
  <2>5. 1 \in 1..NumConfirmations
    OBVIOUS
  <2> HIDE DEF e
  <2> QED
    BY <2>2, <2>3, <2>4, <2>5 DEF Entry
<1> HIDE DEF e
<1>5. \A i \in 1..(Latest + k) : e(i) \in Entry
  BY <1>1, <1>3, <1>4
<1>6. chain' \in Seq(Entry) /\ Len(chain') = Latest + k
  <2>1. chain' \in [1..(Latest + k) -> Entry]
    BY <1>2, <1>5
  <2>2. Latest + k \in Nat
    BY <1>1
  <2> QED
    BY <2>1, <2>2
<1>7. \A i \in 1..(Latest + k) : chain'[i] = e(i)
  BY <1>2
<1>8. \A i \in 1..Latest : i \in 1..(Latest + k)
  BY <1>1
<1>9. \A i \in (Latest + 1)..(Latest + k) : i \in 1..(Latest + k)
  BY <1>1
<1>10. \A i \in 1..Latest : /\ chain'[i].tx = chain[i].tx
                            /\ chain'[i].conf = Confirmations(chain[i].conf)
  BY <1>3, <1>7, <1>8, Zenon
<1>11. \A i \in (Latest + 1)..(Latest + k) : /\ chain'[i].tx \in AtNonce(i - 1)
                                             /\ chain'[i].conf = 1
  BY <1>4, <1>7, <1>9, Zenon
<1> QED
  BY <1>6, <1>10, <1>11

\* A reorganisation keeps a prefix, and in it everything of more than ReorgDepth
\* confirmations; what it drops is in the pool again.
LEMMA ReorgEffect ==
    ASSUME ChainTypes, PoolTypes, ConfOrdered, L1Reorg
    PROVE  \E k \in Nat :
              /\ k < Latest /\ chain' \in Seq(Entry) /\ Len(chain') = k
              /\ \A i \in 1..k : chain'[i] = chain[i]
              /\ \A i \in 1..Latest : chain[i].conf > ReorgDepth => i <= k
              /\ pool' = pool \cup {chain[i].tx : i \in (k + 1)..Latest}
              /\ queries' = {[q EXCEPT !.torn = @ \/ Sent(q).nonce >= k] : q \in queries}
              /\ UNCHANGED <<nonce, closed, snd, queueVars, evicted, torn>>
<1> USE TxMgrAssumption
<1> DEFINE K == {i \in DOMAIN chain : chain[i].conf > ReorgDepth}
           k == Cardinality(K)
<1>1. chain \in Seq(Entry) /\ Latest \in Nat /\ DOMAIN chain = 1..Latest
  BY DEF ChainTypes, Entry, Latest
<1>2. IsFiniteSet(K) /\ k \in Nat
  <2>1. K \subseteq 1..Latest /\ IsFiniteSet(1..Latest)
    BY <1>1, FS_Interval
  <2> QED
    BY <2>1, FS_Subset, FS_CardinalityType
<1>3. \A i \in 1..Latest : chain[i].conf > ReorgDepth => i <= k
  <2> SUFFICES ASSUME NEW i \in 1..Latest, chain[i].conf > ReorgDepth
               PROVE  i <= k
    OBVIOUS
  <2>1. ASSUME NEW j \in 1..i
        PROVE  j \in K
    <3>1. j \in 1..Latest /\ j <= i
      BY <1>1
    <3>2. chain[i] \in Entry /\ chain[j] \in Entry
      BY <1>1, <3>1, ElementOfSeq DEF Latest
    <3>3. chain[i].conf \in Nat /\ chain[j].conf \in Nat
      BY <3>2 DEF Entry
    <3>4. chain[i].conf <= chain[j].conf
      BY <1>1, <3>1 DEF ConfOrdered
    <3> QED
      BY <1>1, <3>1, <3>3, <3>4
  <2>2. 1..i \subseteq K
    BY <2>1
  <2> HIDE DEF K
  <2>3. Cardinality(1..i) <= k
    BY <1>2, <2>2, FS_Subset
  <2>4. Cardinality(1..i) = i
    BY <1>1, FS_Interval
  <2> QED
    BY <2>3, <2>4
<1>4. /\ k < Latest /\ chain' = SubSeq(chain, 1, k)
      /\ pool' = pool \cup {chain[i].tx : i \in (k + 1)..Latest}
      /\ queries' = {[q EXCEPT !.torn = @ \/ Sent(q).nonce >= k] : q \in queries}
      /\ UNCHANGED <<nonce, closed, snd, queueVars, evicted, torn>>
  BY DEF L1Reorg
<1> HIDE DEF k, K
<1>5. /\ chain' \in Seq(Entry) /\ Len(chain') = k
      /\ \A i \in 1..k : chain'[i] = chain[i]
  BY <1>1, <1>2, <1>4 DEF Latest
<1> QED
  BY <1>2, <1>3, <1>4, <1>5

-----------------------------------------------------------------------------
(* The kinds of steps. *)

StepKind ==
    \/ UNCHANGED vars
    \/ \E k \in 0..MaxPending : L1Block(k)
    \/ L1Reorg \/ L1Evict
    \/ GroupContext \/ Go \/ Kill \/ Close
    \/ \E s \in Sends : \/ Craft(s) \/ SignError(s) \/ Fails(s) \/ Works(s)
                        \/ ReceiveReceipt(s) \/ ResetNonce(s) \/ Leave(s)
    \/ \E q \in queries : TipError(q)

LEMMA StepKinds ==
    ASSUME SndTypes, ChainTypes, ChainNonces, QueryTypes, [Next]_vars
    PROVE  StepKind
<1>1. CASE \E s \in Sends : SignError(s) \/ SendStep(s)
  BY <1>1, CraftErrorFails, CheckEffect, PublishSkipWorks, PublishWorks
  DEF SendStep, StepKind
<1>2. CASE \E s \in Sends : QueryReceipt(s)
  BY <1>2, TransactionReceiptWorks, HeaderWorks DEF QueryReceipt, StepKind
<1> QED
  BY <1>1, <1>2 DEF Next, StepKind

-----------------------------------------------------------------------------
(* Types. *)

NonceShape == nonce = {} \/ \E n \in Int : n >= -1 /\ nonce = {n}
FlagTypes == closed \in BOOLEAN /\ groupErr \in BOOLEAN /\ killed \in BOOLEAN
GroupTypes ==
    /\ next \in 0..MaxSends
    /\ group \in SUBSET Sends /\ Cardinality(group) <= MaxPending
FaultTypes == faults \in 0..MaxFaults

\* What is not a type: L1 has the transactions in the order of their nonces, the older the
\* better confirmed.
TypesInv ==
    /\ NonceShape /\ FlagTypes /\ SndTypes /\ GroupTypes /\ ChainTypes /\ PoolTypes
    /\ FaultTypes /\ QueryTypes /\ ChainNonces /\ ConfOrdered

LEMMA NextNonceType ==
    ASSUME NonceShape, ChainTypes
    PROVE  /\ NextNonce \in Nat
           /\ nonce = {} => NextNonce = Latest
           /\ \A n \in nonce : n \in Int /\ NextNonce = n + 1
<1>1. Latest \in Nat
  BY DEF ChainTypes, Latest
<1>2. CASE nonce = {}
  BY <1>1, <1>2 DEF NextNonce
<1>3. ASSUME NEW n \in Int, n >= -1, nonce = {n}
      PROVE  NextNonce = n + 1 /\ NextNonce \in Nat
  <2>1. (CHOOSE m \in nonce : TRUE) = n
    BY <1>3
  <2> QED
    BY <1>3, <2>1 DEF NextNonce
<1> QED
  BY <1>2, <1>3 DEF NonceShape

LEMMA NonceStep ==
    ASSUME TypesInv, StepKind
    PROVE  NonceShape'
<1> USE DEF TypesInv
<1>1. ASSUME NEW s \in Sends, Craft(s)
      PROVE  NonceShape'
  BY <1>1, NextNonceType DEF NonceShape, Craft
<1>2. ASSUME NEW s \in Sends, SignError(s)
      PROVE  NonceShape'
  <2>1. NextNonce - 1 \in Int /\ NextNonce - 1 >= -1
    BY NextNonceType
  <2>2. nonce' = {NextNonce - 1}
    BY <1>2 DEF SignError, GivenBack
  <2> QED
    BY <2>1, <2>2 DEF NonceShape
<1>3. ASSUME NEW s \in Sends, ResetNonce(s)
      PROVE  NonceShape'
  BY <1>3 DEF ResetNonce, NonceShape
<1>4. CASE UNCHANGED nonce
  BY <1>4 DEF NonceShape
<1>5. ASSUME NEW s \in Sends, Fails(s) \/ Works(s) \/ ReceiveReceipt(s) \/ Leave(s)
      PROVE  UNCHANGED nonce
  BY <1>5 DEF Fails, Works, WorksTo, Becomes, ReceiveReceipt, Leave
<1>6. CASE \/ UNCHANGED vars \/ (\E k \in 0..MaxPending : L1Block(k)) \/ L1Reorg \/ L1Evict
           \/ GroupContext \/ Go \/ Kill \/ Close \/ \E q \in queries : TipError(q)
  BY <1>6, <1>4 DEF vars, L1Block, L1Reorg, L1Evict, GroupContext, Go, Kill, Close, TipError
<1> QED
  BY <1>1, <1>2, <1>3, <1>4, <1>5, <1>6 DEF StepKind

\* The bound only counts the faults.
LEMMA FaultsStep ==
    ASSUME [Next]_vars
    PROVE  faults' = faults \/ Fault
<1>1. CASE \E s \in Sends : SendStep(s)
  BY <1>1 DEF SendStep, Craft, CraftError, PublishSkip, Publish, Submit, Check, Tick, CtxDone,
     ReceiveReceipt, ResetNonce, Leave
<1>2. CASE \E s \in Sends : SignError(s) \/ QueryReceipt(s)
  BY <1>2 DEF SignError, QueryReceipt, TransactionReceipt, HeaderByNumber
<1>3. CASE \E q \in queries : TipError(q)
  BY <1>3 DEF TipError
<1>4. CASE \/ UNCHANGED vars \/ (\E k \in 0..MaxPending : L1Block(k)) \/ L1Reorg \/ L1Evict
           \/ GroupContext \/ Go \/ Kill \/ Close
  BY <1>4 DEF vars, L1Block, L1Reorg, L1Evict, GroupContext, Go, Kill, Close
<1> QED
  BY <1>1, <1>2, <1>3, <1>4 DEF Next

LEMMA FlagStep ==
    ASSUME FlagTypes, FaultTypes, [Next]_vars
    PROVE  FlagTypes' /\ FaultTypes'
<1> USE TxMgrAssumption
<1>1. /\ closed' \in {closed, TRUE} /\ groupErr' \in {groupErr, TRUE, killed}
      /\ killed' \in {killed, TRUE}
  BY DEF Next, vars, queueVars, L1Block, L1Reorg, L1Evict, GroupContext, Go, Kill, Close,
     SendStep, Craft, SignError, CraftError, PublishSkip, Publish, Check, Tick, CtxDone,
     ReceiveReceipt, QueryReceipt, TransactionReceipt, HeaderByNumber, TipError, ResetNonce,
     Leave
<1>2. \/ faults' = faults
      \/ Fault
  BY FaultsStep
<1>3. faults' \in 0..MaxFaults
  BY <1>2 DEF FaultTypes, Fault
<1>4. TRUE \in BOOLEAN /\ FALSE \in BOOLEAN
  OBVIOUS
<1>5. FlagTypes'
  BY <1>1, <1>4, Zenon DEF FlagTypes
<1> QED
  BY <1>3, <1>5 DEF FaultTypes

LEMMA SndStep ==
    ASSUME TypesInv, StepKind
    PROVE  SndTypes'
<1> USE DEF TypesInv
<1>1. ASSUME NEW s \in Sends, NEW y \in Send, snd' = [snd EXCEPT ![s] = y]
      PROVE  SndTypes'
  BY <1>1 DEF SndTypes
<1>2. ASSUME NEW s \in Sends, NEW stage \in Stages, snd' = [snd EXCEPT ![s].stage = stage]
      PROVE  SndTypes'
  <2> DEFINE y == [snd[s] EXCEPT !.stage = stage]
  <2>1. y \in Send
    BY <1>2 DEF SndTypes, Send
  <2>2. snd' = [snd EXCEPT ![s] = y]
    BY <1>2
  <2> HIDE DEF y
  <2> QED
    BY <1>1, <2>1, <2>2
<1>3. ASSUME NEW s \in Sends, Craft(s)
      PROVE  SndTypes'
  <2> DEFINE y == [snd[s] EXCEPT !.stage = "publish", !.nonce = NextNonce]
  <2>1. y \in Send
    BY <1>3, NextNonceType DEF SndTypes, Send, Stages
  <2>2. snd' = [snd EXCEPT ![s] = y]
    BY <1>3 DEF Craft, SndTypes
  <2> HIDE DEF y
  <2> QED
    BY <1>1, <2>1, <2>2
<1>4. ASSUME NEW s \in Sends, Fails(s) \/ Works(s)
      PROVE  SndTypes'
  BY <1>1, <1>4 DEF Fails, Works, WorksTo, Becomes
<1>5. ASSUME NEW s \in Sends, ReceiveReceipt(s)
      PROVE  SndTypes'
  <2>1. Returned(snd[s]) \in Send
    BY ReturnedType DEF SndTypes
  <2> QED
    BY <1>1, <1>5, <2>1 DEF ReceiveReceipt
<1>6. ASSUME NEW s \in Sends, ResetNonce(s) \/ Leave(s)
      PROVE  SndTypes'
  BY <1>2, <1>6 DEF ResetNonce, Leave, Stages
<1>7. CASE Go
  <2>1. next \in Sends
    BY <1>7, TxMgrAssumption DEF Go, GroupTypes, Sends
  <2>2. CASE closed
    BY <1>2, <1>7, <2>1, <2>2 DEF Go, Stages
  <2>3. CASE ~closed
    BY <1>2, <1>7, <2>1, <2>3 DEF Go, Stages
  <2> QED
    BY <2>2, <2>3
<1>8. CASE UNCHANGED snd
  BY <1>8 DEF SndTypes
<1>9. ASSUME NEW s \in Sends, SignError(s)
      PROVE  UNCHANGED snd
  BY <1>9 DEF SignError
<1>10. CASE \/ UNCHANGED vars \/ (\E k \in 0..MaxPending : L1Block(k)) \/ L1Reorg \/ L1Evict
            \/ GroupContext \/ Kill \/ Close \/ \E q \in queries : TipError(q)
  BY <1>10, <1>8 DEF vars, L1Block, L1Reorg, L1Evict, GroupContext, Kill, Close, TipError
<1> QED
  BY <1>3, <1>4, <1>5, <1>6, <1>7, <1>8, <1>9, <1>10 DEF StepKind

LEMMA GroupStep ==
    ASSUME TypesInv, StepKind
    PROVE  GroupTypes'
<1> USE TxMgrAssumption
<1>0. next \in 0..MaxSends /\ group \subseteq Sends /\ Cardinality(group) <= MaxPending
  BY DEF TypesInv, GroupTypes
<1>1. IsFiniteSet(group) /\ Cardinality(group) \in Nat
  <2>1. IsFiniteSet(Sends)
    BY FS_Interval DEF Sends
  <2> QED
    BY <1>0, <2>1, FS_Subset, FS_CardinalityType
<1>2. CASE Go
  <2>1. next # 0 /\ HasRoom /\ group' = group \cup {next} /\ next' = 0
    BY <1>2 DEF Go
  <2>2. next \in Sends /\ Cardinality(group) < MaxPending
    BY <1>0, <2>1 DEF Sends, HasRoom
  <2>3. /\ IsFiniteSet(group \cup {next})
        /\ Cardinality(group \cup {next}) \in {Cardinality(group), Cardinality(group) + 1}
    BY <1>1, FS_AddElement
  <2>4. Cardinality(group') <= MaxPending
    BY <1>1, <2>1, <2>2, <2>3
  <2>5. group' \subseteq Sends /\ next' \in 0..MaxSends
    BY <1>0, <2>1, <2>2
  <2> QED
    BY <2>4, <2>5 DEF GroupTypes
<1>3. ASSUME NEW s \in Sends, group' = group \ {s}, next' = next
      PROVE  GroupTypes'
  <2>1. Cardinality(group \ {s}) <= Cardinality(group) /\ Cardinality(group \ {s}) \in Nat
    <3>1. group \ {s} \in SUBSET group
      OBVIOUS
    <3> QED
      BY <1>1, <3>1, FS_Subset, FS_CardinalityType
  <2> QED
    BY <1>0, <1>1, <1>3, <2>1 DEF GroupTypes
<1>4. ASSUME NEW s \in Sends, ReceiveReceipt(s) \/ Leave(s)
      PROVE  GroupTypes'
  BY <1>3, <1>4 DEF ReceiveReceipt, Leave
<1>5. CASE GroupContext
  BY <1>0, <1>5 DEF GroupContext, Sends, GroupTypes
<1>6. CASE next' = next /\ group' = group
  BY <1>0, <1>6 DEF GroupTypes
<1>7. ASSUME NEW s \in Sends, Craft(s) \/ SignError(s) \/ Fails(s) \/ Works(s) \/ ResetNonce(s)
      PROVE  next' = next /\ group' = group
  BY <1>7 DEF Craft, SignError, Fails, Works, WorksTo, Becomes, ResetNonce, queueVars
<1>8. CASE \/ UNCHANGED vars \/ (\E k \in 0..MaxPending : L1Block(k)) \/ L1Reorg \/ L1Evict
           \/ Kill \/ Close \/ \E q \in queries : TipError(q)
  <2>1. next' = next /\ group' = group
    BY <1>8 DEF vars, queueVars, L1Block, L1Reorg, L1Evict, Kill, Close, TipError
  <2> QED
    BY <1>6, <2>1
<1> QED
  BY <1>2, <1>4, <1>5, <1>6, <1>7, <1>8 DEF StepKind

\* The steps that change neither what is mined nor, except for a transaction of the send
\* that publishes it, the pool.
LEMMA PoolStep ==
    ASSUME TypesInv, StepKind
    PROVE  \/ \E k \in 0..MaxPending : L1Block(k)
           \/ L1Reorg
           \/ /\ chain' = chain
              /\ \A t \in pool' : \/ t \in pool
                                  \/ \E s \in Sends, v \in Bumps :
                                        Works(s) /\ t = Own(s, v)
<1>1. ASSUME NEW s \in Sends, Works(s)
      PROVE  /\ chain' = chain
             /\ \A t \in pool' : t \in pool \/ \E v \in Bumps : t = Own(s, v)
  BY <1>1 DEF Works, WorksTo, Becomes, PoolOf
<1>2. ASSUME NEW s \in Sends, \/ Craft(s) \/ SignError(s) \/ Fails(s) \/ ReceiveReceipt(s)
                              \/ ResetNonce(s) \/ Leave(s)
      PROVE  chain' = chain /\ pool' = pool
  BY <1>2 DEF Craft, SignError, Fails, Becomes, ReceiveReceipt, ResetNonce, Leave, l1Vars
<1>3. CASE UNCHANGED vars \/ GroupContext \/ Go \/ Kill \/ Close \/ \E q \in queries : TipError(q)
  <2>1. chain' = chain /\ pool' = pool
    BY <1>3 DEF vars, l1Vars, GroupContext, Go, Kill, Close, TipError
  <2> QED
    BY <2>1
<1>4. CASE L1Evict
  BY <1>4 DEF L1Evict
<1> QED
  BY <1>1, <1>2, <1>3, <1>4 DEF StepKind

LEMMA ChainStep ==
    ASSUME TypesInv, StepKind
    PROVE  ChainTypes' /\ PoolTypes' /\ ChainNonces' /\ ConfOrdered'
<1> USE TxMgrAssumption DEF TypesInv
<1> DEFINE L == Len(chain)
<1>1. /\ L \in Nat /\ DOMAIN chain = 1..L /\ Latest = L
      /\ \A i \in 1..L : /\ chain[i] \in Entry /\ chain[i].tx \in PoolTx
                         /\ chain[i].conf \in 1..NumConfirmations
  <2>1. chain \in Seq(Entry)
    BY DEF ChainTypes, Entry
  <2>2. \A i \in 1..L : chain[i] \in Entry
    BY <2>1, ElementOfSeq
  <2> QED
    BY <2>1, <2>2 DEF Entry, Latest
<1>2. ASSUME NEW k \in 0..MaxPending, L1Block(k)
      PROVE  ChainTypes' /\ PoolTypes' /\ ChainNonces' /\ ConfOrdered'
  <2>1. /\ chain' \in Seq(Entry) /\ Len(chain') = L + k
        /\ \A i \in 1..L : /\ chain'[i].tx = chain[i].tx
                           /\ chain'[i].conf = Confirmations(chain[i].conf)
        /\ \A i \in (L + 1)..(L + k) : /\ chain'[i].tx \in AtNonce(i - 1)
                                       /\ chain'[i].conf = 1
    BY <1>1, <1>2, BlockEffect
  <2>2. DOMAIN chain' = 1..(L + k)
    BY <2>1
  <2>3. \A i \in DOMAIN chain' : chain'[i].tx.nonce = i - 1
    <3>1. \A i \in 1..L : chain[i].tx.nonce = i - 1
      BY <1>1 DEF ChainNonces
    <3>2. \A i \in (L + 1)..(L + k) : chain'[i].tx.nonce = i - 1
      BY <2>1 DEF AtNonce
    <3>3. \A i \in 1..L : chain'[i].tx.nonce = i - 1
      BY <2>1, <3>1
    <3>4. k \in Nat /\ \A i \in 1..(L + k) : i \in 1..L \/ i \in (L + 1)..(L + k)
      BY <1>1
    <3> HIDE DEF L
    <3> QED
      BY <2>2, <3>2, <3>3, <3>4
  <2>4. ASSUME NEW i \in 1..(L + k), NEW j \in 1..(L + k), i <= j
        PROVE  chain'[j].conf <= chain'[i].conf
    <3>1. CASE j > L /\ i > L
      BY <1>1, <2>1, <2>4, <3>1
    <3>2. CASE j > L /\ i <= L
      <4>1. Confirmations(chain[i].conf) >= 1
        BY <1>1, <3>2 DEF Confirmations
      <4> QED
        BY <1>1, <2>1, <3>2, <4>1
    <3>3. CASE j <= L
      <4>1. i \in 1..L /\ j \in 1..L
        BY <1>1, <2>4, <3>3
      <4>2. chain[j].conf <= chain[i].conf
        BY <1>1, <2>4, <4>1 DEF ConfOrdered
      <4>3. Confirmations(chain[j].conf) <= Confirmations(chain[i].conf)
        BY <1>1, <4>1, <4>2 DEF Confirmations
      <4> QED
        BY <2>1, <4>1, <4>3
    <3> QED
      BY <1>1, <3>1, <3>2, <3>3
  <2>5. pool' \subseteq pool
    BY <1>2 DEF L1Block
  <2> QED
    BY <2>1, <2>2, <2>3, <2>4, <2>5 DEF ChainTypes, Entry, PoolTypes, ChainNonces, ConfOrdered
<1>3. CASE L1Reorg
  <2>1. PICK k \in Nat :
              /\ k < L /\ chain' \in Seq(Entry) /\ Len(chain') = k
              /\ \A i \in 1..k : chain'[i] = chain[i]
              /\ pool' = pool \cup {chain[i].tx : i \in (k + 1)..L}
    BY <1>1, <1>3, ReorgEffect
  <2>2. DOMAIN chain' = 1..k /\ \A i \in 1..k : i \in 1..L
    BY <1>1, <2>1
  <2>3. ChainNonces'
    BY <1>1, <2>1, <2>2 DEF ChainNonces
  <2>4. ConfOrdered'
    BY <1>1, <2>1, <2>2 DEF ConfOrdered
  <2>5. PoolTypes'
    <3>1. \A i \in (k + 1)..L : chain[i].tx \in PoolTx
      BY <1>1, <2>1
    <3> QED
      BY <2>1, <3>1 DEF PoolTypes
  <2> QED
    BY <2>1, <2>3, <2>4, <2>5 DEF ChainTypes, Entry
<1>4. ASSUME chain' = chain,
             \A t \in pool' : t \in pool \/ \E s \in Sends, v \in Bumps : Works(s) /\ t = Own(s, v)
      PROVE  ChainTypes' /\ PoolTypes' /\ ChainNonces' /\ ConfOrdered'
  <2>1. \A s \in Sends, v \in Bumps : Own(s, v) \in PoolTx
    BY DEF SndTypes, Send, Own, PoolTx
  <2> QED
    BY <1>4, <2>1 DEF ChainTypes, PoolTypes, ChainNonces, ConfOrdered
<1> QED
  BY <1>2, <1>3, <1>4, PoolStep

LEMMA OwnTypes ==
    ASSUME TypesInv, NEW s \in Sends, NEW v \in Bumps
    PROVE  Own(s, v) \in PoolTx /\ snd[s].nonce \in Nat
  BY DEF TypesInv, SndTypes, Send, Own, PoolTx

LEMMA QueryStep ==
    ASSUME TypesInv, StepKind
    PROVE  QueryTypes'
<1> USE TxMgrAssumption
<1>1. queries \in SUBSET Query /\ torn \in SUBSET PoolTx /\ evicted \in SUBSET Nat
  BY DEF TypesInv, QueryTypes
<1>2. ASSUME queries' \subseteq queries, torn' = torn, evicted' = evicted
      PROVE  QueryTypes'
  BY <1>1, <1>2 DEF QueryTypes
<1>3. ASSUME NEW k \in 0..MaxPending, L1Block(k)
      PROVE  QueryTypes'
  <2>1. \A q \in queries : [q EXCEPT !.conf = Confirmations(@)] \in Query
    <3> SUFFICES ASSUME NEW q \in queries
                 PROVE  [q EXCEPT !.conf = Confirmations(@)] \in Query
      OBVIOUS
    <3>1. q \in Query
      BY <1>1
    <3>2. Confirmations(q.conf) \in 1..NumConfirmations
      BY <3>1 DEF Query, Confirmations
    <3> QED
      BY <3>1, <3>2 DEF Query
  <2> QED
    BY <1>1, <1>3, <2>1 DEF L1Block, QueryTypes
<1>4. CASE L1Reorg
  <2>1. PICK k \in Nat :
              /\ queries' = {[q EXCEPT !.torn = @ \/ Sent(q).nonce >= k] : q \in queries}
              /\ UNCHANGED <<evicted, torn>>
    BY <1>4, ReorgEffect DEF TypesInv
  <2>2. \A q \in queries : [q EXCEPT !.torn = @ \/ Sent(q).nonce >= k] \in Query
    <3> SUFFICES ASSUME NEW q \in queries
                 PROVE  [q EXCEPT !.torn = @ \/ Sent(q).nonce >= k] \in Query
      OBVIOUS
    <3>1. q \in Query
      BY <1>1
    <3>2. PICK b \in BOOLEAN : b = (q.torn \/ Sent(q).nonce >= k)
      BY <3>1 DEF Query
    <3>3. [q EXCEPT !.torn = b] \in Query
      BY <3>1 DEF Query
    <3> QED
      BY <3>2, <3>3
  <2> QED
    BY <1>1, <2>1, <2>2 DEF QueryTypes
<1>5. CASE L1Evict
  <2>1. PICK t \in pool : evicted' = evicted \cup {t.nonce}
    BY <1>5 DEF L1Evict
  <2>2. t.nonce \in Nat
    BY DEF TypesInv, PoolTypes, PoolTx
  <2> QED
    BY <1>1, <1>5, <2>1, <2>2 DEF L1Evict, queryVars, QueryTypes
<1>6. ASSUME NEW s \in Sends, Works(s)
      PROVE  QueryTypes'
  <2>1. PICK y : QueriesOf(s, y)
    BY <1>6 DEF Works, WorksTo
  <2>2. queries' \in SUBSET Query
    BY <1>1, <2>1 DEF QueriesOf
  <2>3. torn' \in SUBSET PoolTx
    <3>1. \A q \in queries : Own(s, q.v) \in PoolTx
      BY <1>1, OwnTypes DEF Query
    <3> QED
      BY <1>1, <1>6, <3>1 DEF Works, TornOf
  <2>4. evicted' \in SUBSET Nat
    BY <1>1, <1>6 DEF Works, PoolOf
  <2> QED
    BY <2>2, <2>3, <2>4 DEF QueryTypes
<1>7. ASSUME NEW s \in Sends, \/ Craft(s) \/ SignError(s) \/ Fails(s) \/ ReceiveReceipt(s)
                              \/ ResetNonce(s) \/ Leave(s)
      PROVE  QueryTypes'
  BY <1>2, <1>7 DEF Craft, SignError, Fails, ReceiveReceipt, ResetNonce, Leave, EndQueries,
     queryVars, l1Vars
<1>8. CASE UNCHANGED vars \/ GroupContext \/ Go \/ Kill \/ Close \/ \E q \in queries : TipError(q)
  BY <1>2, <1>8 DEF vars, queryVars, l1Vars, GroupContext, Go, Kill, Close, TipError
<1> QED
  BY <1>3, <1>4, <1>5, <1>6, <1>7, <1>8 DEF StepKind

LEMMA ChainValues ==
    ASSUME TypesInv
    PROVE  /\ Latest \in Nat /\ DOMAIN chain = 1..Latest /\ chain \in Seq(Entry)
           /\ \A i \in 1..Latest : /\ chain[i].conf \in 1..NumConfirmations
                                   /\ chain[i].tx \in PoolTx
                                   /\ chain[i].tx.nonce = i - 1
<1>1. Latest \in Nat /\ DOMAIN chain = 1..Latest /\ chain \in Seq(Entry)
  BY DEF TypesInv, ChainTypes, Entry, Latest
<1>2. \A i \in 1..Latest : chain[i] \in Entry
  BY <1>1, ElementOfSeq DEF Latest
<1> QED
  BY <1>1, <1>2 DEF TypesInv, ChainNonces, Entry

LEMMA TypesInit == Init => TypesInv
<1> USE TxMgrAssumption
<1> SUFFICES ASSUME Init PROVE TypesInv
  OBVIOUS
<1>1. SndTypes
  BY FailedType DEF Init, SndTypes
<1>2. ChainTypes /\ ChainNonces /\ ConfOrdered
  <2>1. chain = << >>
    BY DEF Init
  <2> QED
    BY <2>1 DEF ChainTypes, ChainNonces, ConfOrdered
<1>3. GroupTypes
  <2>1. Cardinality({}) = 0
    BY FS_EmptySet
  <2> QED
    BY <2>1 DEF Init, GroupTypes
<1>4. NonceShape /\ PoolTypes /\ QueryTypes
  BY DEF Init, NonceShape, PoolTypes, QueryTypes
<1>5. FlagTypes
  BY DEF Init, FlagTypes
<1>6. FaultTypes
  BY DEF Init, FaultTypes
<1> QED
  BY <1>1, <1>2, <1>3, <1>4, <1>5, <1>6 DEF TypesInv

LEMMA TypesStep == TypesInv /\ [Next]_vars => TypesInv'
<1> SUFFICES ASSUME TypesInv, [Next]_vars PROVE TypesInv'
  OBVIOUS
<1>1. StepKind
  BY StepKinds DEF TypesInv
<1>2. FlagTypes' /\ FaultTypes'
  BY FlagStep DEF TypesInv
<1> QED
  BY <1>1, <1>2, NonceStep, SndStep, GroupStep, ChainStep, QueryStep DEF TypesInv

LEMMA TypesAlways == Spec => []TypesInv
  BY TypesInit, TypesStep, PTL DEF Spec

LEMMA TypesGood == TypesInv => TypeOK
<1> SUFFICES ASSUME TypesInv PROVE TypeOK
  OBVIOUS
<1>1. nonce \in SUBSET Int /\ Cardinality(nonce) <= 1
  <2>1. CASE nonce = {}
    BY <2>1, FS_EmptySet
  <2>2. ASSUME NEW n \in Int, nonce = {n}
        PROVE  Cardinality(nonce) = 1
    BY <2>2, FS_Singleton
  <2> QED
    BY <2>1, <2>2 DEF TypesInv, NonceShape
<1> QED
  BY <1>1 DEF TypesInv, TypeOK, FlagTypes, SndTypes, GroupTypes, ChainTypes, PoolTypes,
     FaultTypes, QueryTypes

\* The variables have their types, and the queue never runs more sends than its limit
\* (queue.go, group.SetLimit).
THEOREM TypeCorrect == Spec => []TypeOK
  BY TypesAlways, TypesGood, PTL

-----------------------------------------------------------------------------
(* The change of a send in each kind of step. *)

\* All but the stage and the nonce.
SameState(x, y) ==
    /\ y.v = x.v /\ y.watch = x.watch /\ y.minedTxs = x.minedTxs /\ y.tooLow = x.tooLow
    /\ y.reserved = x.reserved /\ y.receipt = x.receipt

Effect(s, y) ==
    /\ snd' = [snd EXCEPT ![s] = y]
    /\ \/ /\ Go /\ s = next /\ y.stage \in {"craft", "erred"}
          /\ SameState(snd[s], y)
          /\ ~closed => y.stage = "craft"
       \/ /\ Craft(s) /\ y.stage = "publish" /\ y.nonce = NextNonce /\ SameState(snd[s], y)
       \/ Fails(s) /\ y = Failed
       \/ Works(s) /\ WorksTo(s, y)
       \/ /\ ReceiveReceipt(s) /\ y.stage = "confirmed" /\ y.nonce = snd[s].nonce
          /\ y.receipt = snd[s].receipt
          /\ y.v = 0 /\ y.reserved = FALSE /\ y.tooLow = 0
       \/ ResetNonce(s) /\ y.stage = "erred" /\ SameState(snd[s], y)
       \/ Leave(s) /\ y.stage = "failed" /\ SameState(snd[s], y)

\* The steps that change no send.
Idle ==
    \/ UNCHANGED vars \/ (\E k \in 0..MaxPending : L1Block(k)) \/ L1Reorg \/ L1Evict
    \/ GroupContext \/ Kill \/ Close \/ \E s \in Sends : SignError(s)
    \/ \E q \in queries : TipError(q)

EffectKind ==
    \/ Idle /\ UNCHANGED snd
    \/ \E s \in Sends : \E y \in Send : Effect(s, y)

LEMMA EffectKinds ==
    ASSUME TypesInv, StepKind
    PROVE  EffectKind
<1>1. SndTypes /\ \A r \in Sends : snd[r] \in Send
  BY DEF TypesInv, SndTypes
<1>2. ASSUME NEW s \in Sends, NEW stage \in Stages
      PROVE  \E y \in Send : /\ y = [snd[s] EXCEPT !.stage = stage]
                             /\ y.stage = stage /\ SameState(snd[s], y)
  <2>1. PICK y : y = [snd[s] EXCEPT !.stage = stage]
    OBVIOUS
  <2>2. y \in Send /\ y.stage = stage /\ SameState(snd[s], y)
    BY <1>1, <2>1 DEF Send, SameState
  <2> QED
    BY <2>1, <2>2
<1>3. CASE Go
  <2>1. next \in Sends
    BY <1>3, TxMgrAssumption DEF Go, TypesInv, GroupTypes, Sends
  <2>2. PICK stage \in {"craft", "erred"} : /\ snd' = [snd EXCEPT ![next].stage = stage]
                                            /\ ~closed => stage = "craft"
    <3>1. CASE closed
      BY <1>3, <3>1 DEF Go
    <3>2. CASE ~closed
      BY <1>3, <3>2 DEF Go
    <3> QED
      BY <3>1, <3>2
  <2>3. stage \in Stages
    BY DEF Stages
  <2>4. PICK y \in Send : /\ y = [snd[next] EXCEPT !.stage = stage]
                          /\ y.stage = stage /\ SameState(snd[next], y)
    BY <1>2, <2>1, <2>3
  <2>5. snd' = [snd EXCEPT ![next] = y]
    BY <2>2, <2>4
  <2> QED
    BY <1>3, <2>1, <2>2, <2>4, <2>5 DEF EffectKind, Effect
<1>4. ASSUME NEW s \in Sends, Craft(s)
      PROVE  EffectKind
  <2>1. PICK y : y = [snd[s] EXCEPT !.stage = "publish", !.nonce = NextNonce]
    OBVIOUS
  <2>2. y \in Send /\ y.stage = "publish" /\ y.nonce = NextNonce /\ SameState(snd[s], y)
    BY <1>1, <2>1, NextNonceType DEF TypesInv, Send, Stages, SameState
  <2>3. snd' = [snd EXCEPT ![s] = y]
    BY <1>1, <1>4, <2>1 DEF Craft, SndTypes
  <2> QED
    BY <1>4, <2>2, <2>3 DEF EffectKind, Effect
<1>5. ASSUME NEW s \in Sends, Fails(s)
      PROVE  EffectKind
  BY <1>5, FailedType DEF Fails, Becomes, EffectKind, Effect
<1>6. ASSUME NEW s \in Sends, Works(s)
      PROVE  EffectKind
  <2>1. PICK y : WorksTo(s, y)
    BY <1>6 DEF Works
  <2>2. y \in Send /\ snd' = [snd EXCEPT ![s] = y]
    BY <2>1 DEF WorksTo, Becomes
  <2> QED
    BY <1>6, <2>1, <2>2 DEF EffectKind, Effect
<1>7. ASSUME NEW s \in Sends, ReceiveReceipt(s)
      PROVE  EffectKind
  <2>1. PICK y : y = Returned(snd[s])
    OBVIOUS
  <2>2. /\ y \in Send /\ y.stage = "confirmed" /\ y.nonce = snd[s].nonce
        /\ y.receipt = snd[s].receipt /\ y.reserved = FALSE
    BY <1>1, <2>1, ReturnedType
  <2>3. snd' = [snd EXCEPT ![s] = y]
    BY <1>7, <2>1 DEF ReceiveReceipt
  <2>4. y.v = 0 /\ y.tooLow = 0
    BY <2>1 DEF Returned, NoSend
  <2> QED
    BY <1>7, <2>2, <2>3, <2>4 DEF EffectKind, Effect
<1>8. ASSUME NEW s \in Sends, NEW stage \in Stages, snd' = [snd EXCEPT ![s].stage = stage],
             \/ ResetNonce(s) /\ stage = "erred"
             \/ Leave(s) /\ stage = "failed"
      PROVE  EffectKind
  <2>1. PICK y \in Send : /\ y = [snd[s] EXCEPT !.stage = stage]
                          /\ y.stage = stage /\ SameState(snd[s], y)
    BY <1>2, <1>8
  <2>2. snd' = [snd EXCEPT ![s] = y]
    BY <1>8, <2>1
  <2> QED
    BY <1>8, <2>1, <2>2 DEF EffectKind, Effect
<1>9. ASSUME NEW s \in Sends, ResetNonce(s) \/ Leave(s)
      PROVE  EffectKind
  BY <1>8, <1>9 DEF ResetNonce, Leave, Stages
<1>10. ASSUME NEW s \in Sends, SignError(s)
       PROVE  EffectKind
  BY <1>10 DEF SignError, EffectKind, Idle
<1>11. CASE \/ UNCHANGED vars \/ (\E k \in 0..MaxPending : L1Block(k)) \/ L1Reorg \/ L1Evict
            \/ GroupContext \/ Kill \/ Close \/ \E q \in queries : TipError(q)
  <2>1. UNCHANGED snd
    BY <1>11 DEF vars, L1Block, L1Reorg, L1Evict, GroupContext, Kill, Close, TipError
  <2> QED
    BY <1>11, <2>1 DEF EffectKind, Idle
<1> QED
  BY <1>3, <1>4, <1>5, <1>6, <1>7, <1>9, <1>10, <1>11 DEF StepKind

-----------------------------------------------------------------------------
(* The group's sends, and what a send that publishes nothing is without. *)

Members == \A s \in Sends : s \in group <=>
    snd[s].stage \in {"craft", "publish", "check", "select", "reset", "erred"}
NextNew == next # 0 => snd[next].stage = "new"
NothingPublished(x) ==
    /\ x.v = 0 /\ x.watch = {} /\ x.minedTxs = {} /\ x.tooLow = 0 /\ x.reserved = FALSE
    /\ x.receipt = {}
Fresh == \A s \in Sends : snd[s].stage \in {"new", "craft", "reset", "erred", "failed"} =>
    NothingPublished(snd[s])
QueueInv == Members /\ NextNew /\ Fresh

LEMMA QueueInit == Init => QueueInv
<1> SUFFICES ASSUME Init PROVE QueueInv
  OBVIOUS
<1>1. \A s \in Sends : snd[s] = NoSend
  BY DEF Init
<1>2. NoSend.stage = "new" /\ NothingPublished(NoSend)
  BY DEF NoSend, NothingPublished
<1> QED
  BY <1>1, <1>2 DEF Init, QueueInv, Members, NextNew, Fresh

LEMMA QueueStep ==
    ASSUME TypesInv, QueueInv, EffectKind
    PROVE  QueueInv'
<1> USE DEF QueueInv
<1>1. SndTypes /\ \A r \in Sends : snd[r] \in Send
  BY DEF TypesInv, SndTypes
<1>2. next # 0 => next \in Sends
  BY TxMgrAssumption DEF TypesInv, GroupTypes, Sends
<1>3. CASE Idle /\ UNCHANGED snd
  <2>1. group' = group
    BY <1>3 DEF Idle, vars, queueVars, L1Block, L1Reorg, L1Evict, GroupContext, Kill, Close,
       SignError, TipError
  <2>2. \/ next' = next
        \/ next' \in Sends /\ snd[next'].stage = "new"
    BY <1>3 DEF Idle, vars, queueVars, L1Block, L1Reorg, L1Evict, GroupContext, Kill, Close,
       SignError, TipError
  <2> QED
    BY <1>3, <2>1, <2>2 DEF Members, NextNew, Fresh
<1>4. ASSUME NEW s \in Sends, NEW y \in Send, Effect(s, y)
      PROVE  QueueInv'
  <2>1. /\ snd'[s] = y /\ \A r \in Sends : r # s => snd'[r] = snd[r]
    BY <1>1, <1>4 DEF SndTypes, Effect
  <2>2. NothingPublished(snd[s]) /\ SameState(snd[s], y) => NothingPublished(y)
    BY DEF NothingPublished, SameState
  <2>3. CASE Go /\ s = next /\ y.stage \in {"craft", "erred"} /\ SameState(snd[s], y)
    <3>1. snd[s].stage = "new" /\ group' = group \cup {s} /\ next' = 0
      BY <2>3 DEF Go, NextNew
    <3>2. NothingPublished(y)
      BY <2>2, <2>3, <3>1 DEF Fresh
    <3> QED
      BY <2>1, <2>3, <3>1, <3>2 DEF Members, NextNew, Fresh
  <2>4. ASSUME /\ group' = group /\ next' = next
               /\ snd[s].stage \in {"craft", "publish", "check", "select", "reset"}
               /\ y.stage \in {"publish", "check", "select", "reset", "erred"}
               /\ y.stage \in {"reset", "erred"} => NothingPublished(y)
        PROVE  QueueInv'
    <3>1. Members'
      BY <2>1, <2>4 DEF Members
    <3>2. NextNew'
      BY <1>2, <2>1, <2>4 DEF NextNew
    <3>3. Fresh'
      BY <2>1, <2>4 DEF Fresh
    <3> QED
      BY <3>1, <3>2, <3>3
  <2>5. ASSUME /\ group' = group \ {s} /\ next' = next
               /\ snd[s].stage \in {"select", "erred"}
               /\ y.stage \in {"confirmed", "failed"}
               /\ y.stage = "failed" => NothingPublished(y)
        PROVE  QueueInv'
    <3>1. Members'
      BY <2>1, <2>5 DEF Members
    <3>2. NextNew'
      BY <1>2, <2>1, <2>5 DEF NextNew
    <3>3. Fresh'
      BY <2>1, <2>5 DEF Fresh
    <3> QED
      BY <3>1, <3>2, <3>3
  <2>6. CASE Craft(s) /\ y.stage = "publish"
    BY <2>4, <2>6 DEF Craft, queueVars
  <2>7. CASE Fails(s) /\ y = Failed
    BY <2>4, <2>7, FailedType DEF Fails, Becomes, queueVars, NothingPublished
  <2>8. CASE Works(s) /\ WorksTo(s, y)
    BY <2>4, <2>8 DEF Works, WorksTo, Becomes, Running, queueVars
  <2>9. CASE ReceiveReceipt(s) /\ y.stage = "confirmed"
    BY <2>5, <2>9 DEF ReceiveReceipt
  <2>10. CASE ResetNonce(s) /\ y.stage = "erred" /\ SameState(snd[s], y)
    BY <2>2, <2>4, <2>10 DEF ResetNonce, queueVars, Fresh
  <2>11. CASE Leave(s) /\ y.stage = "failed" /\ SameState(snd[s], y)
    BY <2>2, <2>5, <2>11 DEF Leave, Fresh
  <2> QED
    BY <1>4, <2>3, <2>6, <2>7, <2>8, <2>9, <2>10, <2>11 DEF Effect
<1> QED
  BY <1>3, <1>4 DEF EffectKind

LEMMA QueueAlways == Spec => [](TypesInv /\ QueueInv)
<1>1. TypesInv /\ QueueInv /\ [Next]_vars => QueueInv'
  BY StepKinds, EffectKinds, QueueStep DEF TypesInv
<1> QED
  BY QueueInit, TypesInit, TypesStep, <1>1, PTL DEF Spec

-----------------------------------------------------------------------------
(* What L1 has once it keeps. *)

\* L1 has or had a transaction of nonce m that has not left a gap.
Taken(m) == m < Latest \/ AtNonce(m) # {} \/ m \in evicted

LEMMA HasConfNonce ==
    ASSUME TypesInv, NEW t, NEW c, HasConf(t, c)
    PROVE  /\ t.nonce \in Nat /\ t.nonce < Latest /\ t.nonce + 1 \in DOMAIN chain
           /\ chain[t.nonce + 1].tx = t /\ chain[t.nonce + 1].conf = c
<1>1. PICK i \in 1..Latest : chain[i].tx = t /\ chain[i].conf = c
  BY ChainValues DEF HasConf
<1>2. t.nonce = i - 1 /\ Latest \in Nat
  BY <1>1, ChainValues
<1>3. t.nonce + 1 = i /\ t.nonce < Latest /\ t.nonce \in Nat
  BY <1>1, <1>2
<1> QED
  BY <1>1, <1>3, ChainValues

\* A block confirms what it finds; a reorganisation that reaches it takes it back.
LEMMA ConfBlock ==
    ASSUME TypesInv, NEW k \in 0..MaxPending, L1Block(k), NEW t, NEW c, HasConf(t, c)
    PROVE  HasConf(t, Confirmations(c))'
<1>1. PICK i \in 1..Latest : chain[i].tx = t /\ chain[i].conf = c
  BY ChainValues DEF HasConf
<1>2. /\ chain' \in Seq(Entry) /\ Len(chain') = Latest + k
      /\ chain'[i].tx = chain[i].tx /\ chain'[i].conf = Confirmations(chain[i].conf)
  BY <1>1, BlockEffect DEF TypesInv
<1>3. i \in DOMAIN chain'
  BY <1>1, <1>2, ChainValues
<1> QED
  BY <1>1, <1>2, <1>3 DEF HasConf, Confirmations

LEMMA ConfSame ==
    ASSUME chain' = chain, NEW t, NEW c, HasConf(t, c)
    PROVE  HasConf(t, c)'
  BY DEF HasConf

LEMMA FinalStays ==
    ASSUME TypesInv, StepKind, NEW t, IsFinal(t)
    PROVE  IsFinal(t)'
<1> USE TxMgrAssumption
<1>1. HasConf(t, NumConfirmations)
  BY DEF IsFinal
<1>2. ASSUME NEW k \in 0..MaxPending, L1Block(k)
      PROVE  IsFinal(t)'
  <2>1. HasConf(t, Confirmations(NumConfirmations))'
    BY <1>1, <1>2, ConfBlock
  <2>2. Confirmations(NumConfirmations) = NumConfirmations
    BY DEF Confirmations
  <2> QED
    BY <2>1, <2>2 DEF IsFinal
<1>3. CASE L1Reorg
  <2>1. PICK k \in Nat :
              /\ k < Latest /\ chain' \in Seq(Entry) /\ Len(chain') = k
              /\ \A j \in 1..k : chain'[j] = chain[j]
              /\ \A j \in 1..Latest : chain[j].conf > ReorgDepth => j <= k
    BY <1>3, ReorgEffect DEF TypesInv
  <2>2. PICK i \in 1..Latest : chain[i].tx = t /\ chain[i].conf = NumConfirmations
    BY <1>1, ChainValues DEF HasConf
  <2>3. i \in 1..k
    BY <2>1, <2>2, ChainValues
  <2>4. i \in DOMAIN chain' /\ chain'[i] = chain[i]
    BY <2>1, <2>3
  <2> QED
    BY <2>2, <2>4 DEF IsFinal, HasConf
<1>4. CASE chain' = chain
  BY <1>1, <1>4, ConfSame DEF IsFinal
<1> QED
  BY <1>2, <1>3, <1>4, PoolStep

LEMMA TakenStays ==
    ASSUME TypesInv, StepKind, NEW m \in Nat, Taken(m)
    PROVE  Taken(m)'
<1>1. ASSUME NEW k \in 0..MaxPending, L1Block(k)
      PROVE  Taken(m)'
  <2>1. Latest' = Latest + k /\ evicted' = evicted
    BY <1>1, BlockEffect DEF TypesInv, Latest, L1Block
  <2>2. CASE m < Latest + k
    BY <2>1, <2>2 DEF Taken
  <2>3. CASE ~(m < Latest + k)
    <3>1. ~(m < Latest)
      BY <2>3, ChainValues
    <3>2. AtNonce(m) \subseteq AtNonce(m)'
      BY <1>1, <2>3 DEF L1Block, Included, AtNonce
    <3> QED
      BY <2>1, <3>1, <3>2 DEF Taken
  <2> QED
    BY <2>2, <2>3
<1>2. CASE L1Reorg
  <2>1. PICK k \in Nat :
              /\ k < Latest /\ chain' \in Seq(Entry) /\ Len(chain') = k
              /\ pool' = pool \cup {chain[i].tx : i \in (k + 1)..Latest}
              /\ UNCHANGED <<evicted, torn>>
    BY <1>2, ReorgEffect DEF TypesInv
  <2>2. Latest' = k
    BY <2>1 DEF Latest
  <2>3. CASE m < Latest
    <3>1. CASE m < k
      BY <2>2, <3>1 DEF Taken
    <3>2. CASE ~(m < k)
      <4>1. m + 1 \in (k + 1)..Latest /\ m + 1 \in 1..Latest
        BY <2>1, <2>3, <3>2, ChainValues
      <4>2. chain[m + 1].tx.nonce = m
        BY <4>1, ChainValues
      <4>3. chain[m + 1].tx \in pool'
        BY <2>1, <4>1
      <4> QED
        BY <4>2, <4>3 DEF Taken, AtNonce
    <3> QED
      BY <3>1, <3>2
  <2>4. CASE ~(m < Latest)
    BY <2>1, <2>4 DEF Taken, AtNonce
  <2> QED
    BY <2>3, <2>4
<1>3. CASE L1Evict
  <2>1. PICK t \in pool : pool' = pool \ {t} /\ evicted' = evicted \cup {t.nonce} /\ chain' = chain
    BY <1>3 DEF L1Evict
  <2>2. CASE m = t.nonce
    BY <2>1, <2>2 DEF Taken
  <2>3. CASE m # t.nonce
    BY <2>1, <2>3 DEF Taken, AtNonce, Latest
  <2> QED
    BY <2>2, <2>3
<1>4. CASE UNCHANGED <<chain, pool, evicted>>
  BY <1>4 DEF Taken, AtNonce, Latest
<1>5. ASSUME NEW s \in Sends, Works(s)
      PROVE  Taken(m)'
  <2>1. chain' = chain /\ PoolOf(s)
    BY <1>5 DEF Works, WorksTo, Becomes
  <2>2. CASE UNCHANGED <<pool, evicted>>
    BY <1>4, <2>1, <2>2
  <2>3. ASSUME NEW v \in Bumps,
               pool' = (pool \ AtNonce(snd[s].nonce)) \cup {Own(s, v)},
               evicted' = evicted \ {snd[s].nonce}
        PROVE  Taken(m)'
    <3>1. CASE m = snd[s].nonce
      <4>1. PICK u : u = Own(s, v)
        OBVIOUS
      <4>2. u.nonce = m /\ u \in pool'
        BY <2>3, <3>1, <4>1 DEF Own
      <4> QED
        BY <4>2 DEF Taken, AtNonce
    <3>2. CASE m # snd[s].nonce
      BY <2>1, <2>3, <3>2 DEF Taken, AtNonce, Latest
    <3> QED
      BY <3>1, <3>2
  <2> QED
    BY <2>1, <2>2, <2>3 DEF PoolOf
<1>6. ASSUME NEW s \in Sends, \/ Craft(s) \/ SignError(s) \/ Fails(s) \/ ReceiveReceipt(s)
                              \/ ResetNonce(s) \/ Leave(s)
      PROVE  UNCHANGED <<chain, pool, evicted>>
  BY <1>6 DEF Craft, SignError, Fails, Becomes, ReceiveReceipt, ResetNonce, Leave, l1Vars
<1>7. CASE UNCHANGED vars \/ GroupContext \/ Go \/ Kill \/ Close \/ \E q \in queries : TipError(q)
  <2>1. UNCHANGED <<chain, pool, evicted>>
    BY <1>7 DEF vars, l1Vars, GroupContext, Go, Kill, Close, TipError
  <2> QED
    BY <1>4, <2>1
<1> QED
  BY <1>1, <1>2, <1>3, <1>4, <1>5, <1>6, <1>7 DEF StepKind

-----------------------------------------------------------------------------
(* The queries. *)

\* A receipt in hand is of a send at work that has noted it, and as old as it says unless a
\* reorganisation has taken it back.
QueryOk(q) ==
    /\ Running(snd[q.s]) /\ q.v \in snd[q.s].minedTxs /\ Taken(snd[q.s].nonce)
    /\ q.torn \/ HasConf(Sent(q), q.conf)
QueriesOk == \A q \in queries : QueryOk(q)
TornTaken == \A t \in torn : Taken(t.nonce)
QueryInv == QueriesOk /\ TornTaken

LEMMA QueriesStep ==
    ASSUME TypesInv, QueueInv, QueriesOk, StepKind
    PROVE  QueriesOk'
<1>1. /\ SndTypes /\ \A r \in Sends : snd[r] \in Send /\ snd[r].nonce \in Nat
  BY DEF TypesInv, SndTypes, Send
<1>2. \A q \in queries : /\ q \in Query /\ q.s \in Sends /\ QueryOk(q)
                         /\ Sent(q) = Own(q.s, q.v) /\ Sent(q).nonce = snd[q.s].nonce
  BY DEF TypesInv, QueryTypes, Query, QueriesOk, Sent, Own
\* What a query is about is there after a step that leaves its send alone.
<1>3. ASSUME NEW q \in queries, NEW p, p.s = q.s, p.v = q.v, snd'[q.s] = snd[q.s],
             p.torn \/ HasConf(Sent(q), p.conf)'
      PROVE  QueryOk(p)'
  <2>1. Taken(snd[q.s].nonce)'
    <3>1. PICK m \in Nat : m = snd[q.s].nonce
      BY <1>1, <1>2
    <3>2. Taken(m)'
      BY <1>2, <3>1, TakenStays DEF QueryOk
    <3> QED
      BY <1>3, <3>1, <3>2 DEF Taken, AtNonce
  <2>2. PICK t : t = Sent(q)
    OBVIOUS
  <2>3. Sent(p)' = t /\ Sent(q)' = t
    BY <1>3, <2>2 DEF Sent
  <2>4. p.torn \/ HasConf(t, p.conf)'
    BY <1>3, <2>3 DEF HasConf
  <2>5. p.torn \/ HasConf(Sent(p), p.conf)'
    BY <2>3, <2>4 DEF HasConf
  <2> QED
    BY <1>2, <1>3, <2>1, <2>5 DEF QueryOk, Running
<1>4. CASE Idle /\ UNCHANGED snd
  <2>1. ASSUME NEW k \in 0..MaxPending, L1Block(k)
        PROVE  QueriesOk'
    <3> SUFFICES ASSUME NEW p \in queries' PROVE QueryOk(p)'
      BY DEF QueriesOk
    <3>1. PICK q \in queries : p = [q EXCEPT !.conf = Confirmations(@)]
      BY <2>1 DEF L1Block
    <3>2. p.s = q.s /\ p.v = q.v /\ p.torn = q.torn /\ p.conf = Confirmations(q.conf)
      BY <1>2, <3>1 DEF Query
    <3>3. PICK t : t = Sent(q)
      OBVIOUS
    <3>4. p.torn \/ HasConf(t, p.conf)'
      BY <1>2, <2>1, <3>2, <3>3, ConfBlock DEF QueryOk
    <3>5. Sent(q)' = t
      BY <1>4, <3>3 DEF Sent
    <3>6. p.torn \/ HasConf(Sent(q), p.conf)'
      BY <3>4, <3>5 DEF HasConf
    <3> QED
      BY <1>3, <1>4, <3>2, <3>6
  <2>2. CASE L1Reorg
    <3> SUFFICES ASSUME NEW p \in queries' PROVE QueryOk(p)'
      BY DEF QueriesOk
    <3>1. PICK k \in Nat :
              /\ k < Latest /\ chain' \in Seq(Entry) /\ Len(chain') = k
              /\ \A i \in 1..k : chain'[i] = chain[i]
              /\ queries' = {[q EXCEPT !.torn = @ \/ Sent(q).nonce >= k] : q \in queries}
      BY <2>2, ReorgEffect DEF TypesInv
    <3>2. PICK q \in queries : p = [q EXCEPT !.torn = @ \/ Sent(q).nonce >= k]
      BY <3>1
    <3>3. p.s = q.s /\ p.v = q.v /\ p.torn = (q.torn \/ Sent(q).nonce >= k) /\ p.conf = q.conf
      BY <1>2, <3>2 DEF Query
    <3>4. PICK t : t = Sent(q)
      OBVIOUS
    <3>5. ASSUME ~p.torn
          PROVE  HasConf(t, p.conf)'
      <4>1. HasConf(t, q.conf) /\ ~(t.nonce >= k)
        BY <1>2, <3>3, <3>4, <3>5 DEF QueryOk
      <4>2. t.nonce \in Nat /\ chain[t.nonce + 1].tx = t /\ chain[t.nonce + 1].conf = q.conf
        BY <4>1, HasConfNonce
      <4>3. t.nonce + 1 \in 1..k
        BY <4>1, <4>2
      <4>4. t.nonce + 1 \in DOMAIN chain' /\ chain'[t.nonce + 1] = chain[t.nonce + 1]
        BY <3>1, <4>3
      <4> QED
        BY <3>3, <4>2, <4>4 DEF HasConf
    <3>6. Sent(q)' = t
      BY <1>4, <3>4 DEF Sent
    <3>7. p.torn \/ HasConf(Sent(q), p.conf)'
      BY <3>5, <3>6 DEF HasConf
    <3> QED
      BY <1>3, <1>4, <3>3, <3>7
  <2>3. ASSUME queries' \subseteq queries, chain' = chain
        PROVE  QueriesOk'
    <3> SUFFICES ASSUME NEW q \in queries' PROVE QueryOk(q)'
      BY DEF QueriesOk
    <3>1. q \in queries
      BY <2>3
    <3>2. Sent(q)' = Sent(q)
      BY <1>4 DEF Sent
    <3>3. q.torn \/ HasConf(Sent(q), q.conf)'
      BY <1>2, <2>3, <3>1, <3>2 DEF QueryOk, HasConf
    <3> QED
      BY <1>3, <1>4, <3>1, <3>3
  <2>4. CASE \/ UNCHANGED vars \/ L1Evict \/ GroupContext \/ Kill \/ Close
             \/ (\E s \in Sends : SignError(s)) \/ \E q \in queries : TipError(q)
    <3>1. queries' \subseteq queries /\ chain' = chain
      BY <2>4 DEF vars, l1Vars, queryVars, L1Evict, GroupContext, Kill, Close, SignError, TipError
    <3> QED
      BY <2>3, <3>1
  <2> QED
    BY <1>4, <2>1, <2>2, <2>4 DEF Idle
<1>5. ASSUME NEW s \in Sends, NEW y \in Send, Effect(s, y)
      PROVE  QueriesOk'
  <2>1. snd'[s] = y /\ \A r \in Sends : r # s => snd'[r] = snd[r]
    BY <1>1, <1>5 DEF SndTypes, Effect
  <2>2. ASSUME chain' = chain, NEW q \in queries, q.s # s
        PROVE  QueryOk(q)'
    <3>1. snd'[q.s] = snd[q.s]
      BY <1>2, <2>1, <2>2
    <3>2. Sent(q)' = Sent(q)
      BY <3>1 DEF Sent
    <3>3. q.torn \/ HasConf(Sent(q), q.conf)'
      BY <1>2, <2>2, <3>2 DEF QueryOk, HasConf
    <3> QED
      BY <1>3, <3>1, <3>3
  <2>3. ASSUME chain' = chain, \A q \in queries' : q \in queries /\ q.s # s
        PROVE  QueriesOk'
    BY <2>2, <2>3 DEF QueriesOk
  <2>4. ASSUME ~Running(snd[s])
        PROVE  \A q \in queries : q.s # s
    BY <1>2, <2>4 DEF QueryOk
  <2>5. CASE Works(s) /\ WorksTo(s, y)
    <3>1. /\ chain' = chain /\ Running(y) /\ y.nonce = snd[s].nonce /\ QueriesOf(s, y)
      BY <2>5 DEF WorksTo, Becomes
    <3> SUFFICES ASSUME NEW q \in queries' PROVE QueryOk(q)'
      BY DEF QueriesOk
    <3>2. CASE q \in queries /\ q.s # s
      BY <2>2, <3>1, <3>2
    <3>3. ASSUME q.s = s, q.v \in y.minedTxs, Taken(snd[s].nonce),
                 q.torn \/ HasConf(Own(s, q.v), q.conf)
          PROVE  QueryOk(q)'
      <4>1. PICK m \in Nat : m = snd[s].nonce
        BY <1>1
      <4>2. Taken(m)'
        BY <3>3, <4>1, TakenStays
      <4>3. Taken(snd[q.s].nonce)'
        BY <2>1, <3>1, <3>3, <4>1, <4>2 DEF Taken, AtNonce
      <4>4. Sent(q)' = Own(s, q.v)
        BY <2>1, <3>1, <3>3 DEF Sent, Own
      <4>5. q.torn \/ HasConf(Sent(q), q.conf)'
        BY <3>1, <3>3, <4>4 DEF HasConf
      <4> QED
        BY <2>1, <3>1, <3>3, <4>3, <4>5 DEF QueryOk, Running
    <3>4. CASE q \in queries /\ q.s = s
      BY <1>2, <3>1, <3>3, <3>4 DEF QueriesOf, QueryOk
    <3>5. CASE q \notin queries
      <4>1. q.s = s /\ q.v \in y.minedTxs /\ HasConf(Own(s, q.v), q.conf)
        BY <3>1, <3>5 DEF QueriesOf
      <4>2. snd[s].nonce < Latest
        BY <4>1, HasConfNonce DEF Own
      <4> QED
        BY <3>3, <4>1, <4>2 DEF Taken
    <3> QED
      BY <3>2, <3>4, <3>5
  <2>6. CASE Fails(s)
    BY <2>3, <2>6 DEF Fails, Becomes, EndQueries
  <2>7. CASE ReceiveReceipt(s)
    BY <2>3, <2>7 DEF ReceiveReceipt, EndQueries, l1Vars
  <2>8. CASE Craft(s) \/ ResetNonce(s) \/ Leave(s)
    <3>1. ~Running(snd[s]) /\ queries' = queries /\ chain' = chain
      BY <2>8 DEF Craft, ResetNonce, Leave, Running, queryVars, l1Vars
    <3> QED
      BY <2>3, <2>4, <3>1
  <2>9. CASE Go /\ s = next
    <3>1. ~Running(snd[s]) /\ queries' = queries /\ chain' = chain
      BY <2>9 DEF Go, QueueInv, NextNew, Running, queryVars, l1Vars
    <3> QED
      BY <2>3, <2>4, <3>1
  <2> QED
    BY <1>5, <2>5, <2>6, <2>7, <2>8, <2>9 DEF Effect
<1> QED
  BY <1>4, <1>5, EffectKinds DEF EffectKind

LEMMA TornStep ==
    ASSUME TypesInv, QueryInv, StepKind
    PROVE  torn \subseteq torn' /\ TornTaken'
<1>1. \A t \in torn : Taken(t.nonce)'
  <2>1. \A t \in torn : t.nonce \in Nat /\ Taken(t.nonce)
    BY DEF TypesInv, QueryTypes, PoolTx, QueryInv, TornTaken
  <2> QED
    BY <2>1, TakenStays
<1>2. ASSUME NEW s \in Sends, Works(s)
      PROVE  torn \subseteq torn' /\ TornTaken'
  <2>1. ASSUME NEW q \in queries, q.s = s
        PROVE  Taken(Own(s, q.v).nonce)'
    <3>1. PICK m \in Nat : m = snd[s].nonce
      BY DEF TypesInv, SndTypes, Send
    <3>2. Taken(m) /\ Own(s, q.v).nonce = m
      BY <2>1, <3>1 DEF QueryInv, QueriesOk, QueryOk, Own
    <3>3. Taken(m)'
      BY <3>2, TakenStays
    <3>4. Own(s, q.v).nonce' = m
      <4>1. snd'[s].nonce = snd[s].nonce
        BY <1>2 DEF Works, WorksTo, Becomes, TypesInv, SndTypes
      <4> QED
        BY <3>1, <4>1 DEF Own
    <3> QED
      BY <3>3, <3>4 DEF Taken, AtNonce
  <2>2. ASSUME NEW q \in queries, q.s = s, torn' = torn \cup {Own(s, q.v)}
        PROVE  torn \subseteq torn' /\ TornTaken'
    <3>1. PICK m \in Nat : m = snd[s].nonce
      BY DEF TypesInv, SndTypes, Send
    <3>2. Taken(m)
      BY <2>2, <3>1 DEF QueryInv, QueriesOk, QueryOk
    <3>3. Taken(m)'
      BY <3>2, TakenStays
    <3>4. PICK u : u = Own(s, q.v)
      OBVIOUS
    <3>5. u.nonce = m /\ torn' = torn \cup {u}
      BY <2>2, <3>1, <3>4 DEF Own
    <3> QED
      BY <1>1, <3>3, <3>5 DEF TornTaken
  <2> QED
    BY <1>1, <1>2, <2>2 DEF Works, TornOf, TornTaken
<1>3. ASSUME NEW s \in Sends, \/ Craft(s) \/ SignError(s) \/ Fails(s) \/ ReceiveReceipt(s)
                              \/ ResetNonce(s) \/ Leave(s)
      PROVE  torn' = torn
  BY <1>3 DEF Craft, SignError, Fails, ReceiveReceipt, ResetNonce, Leave, queryVars
<1>4. ASSUME NEW k \in 0..MaxPending, L1Block(k)
      PROVE  torn' = torn
  BY <1>4 DEF L1Block
<1>5. CASE \/ UNCHANGED vars \/ L1Reorg \/ L1Evict \/ GroupContext \/ Go \/ Kill \/ Close
           \/ \E q \in queries : TipError(q)
  <2>1. torn' = torn
    BY <1>5 DEF vars, queryVars, L1Reorg, L1Evict, GroupContext, Go, Kill, Close, TipError
  <2> QED
    BY <1>1, <2>1 DEF TornTaken
<1> QED
  BY <1>1, <1>2, <1>3, <1>4, <1>5 DEF StepKind, TornTaken

LEMMA QueryAlways == Spec => [](TypesInv /\ QueueInv /\ QueryInv)
<1>1. Init => QueryInv
  BY DEF Init, QueryInv, QueriesOk, TornTaken
<1>2. TypesInv /\ QueueInv /\ QueryInv /\ [Next]_vars => QueryInv'
  BY StepKinds, QueriesStep, TornStep DEF TypesInv, QueryInv
<1> QED
  BY <1>1, <1>2, QueueAlways, PTL DEF Spec

-----------------------------------------------------------------------------
(* A confirmed send stays on L1. *)

\* The receipt that a send holds is of a transaction of its own that is final, or that was
\* taken back while it was being confirmed.
Settled(t) == IsFinal(t) \/ t \in torn
ReceiptFinal ==
    \A s \in Sends : Kept(snd[s]) => \A v \in snd[s].receipt : Settled(Own(s, v))
ConfirmedHas == \A s \in Sends : snd[s].stage = "confirmed" => snd[s].receipt # {}
ReceiptInv == ReceiptFinal /\ ConfirmedHas

\* A query with enough confirmations shows a final transaction, unless it is torn.
LEMMA ShownSettled ==
    ASSUME TypesInv, QueryInv, StepKind, NEW s \in Sends, NEW v, Shown(s, v),
           snd'[s].nonce = snd[s].nonce
    PROVE  Settled(Own(s, v))'
<1>1. PICK q \in queries :
        q.s = s /\ q.v = v /\ Confirmed(q.conf) /\ (q.torn => Own(s, v) \in torn')
  BY DEF Shown
<1>2. q.conf \in 1..NumConfirmations
  BY <1>1 DEF TypesInv, QueryTypes, Query
<1>3. q.conf = NumConfirmations
  BY <1>1, <1>2, TxMgrAssumption DEF Confirmed
<1>4. PICK t : t = Own(s, v)
  OBVIOUS
<1>5. Own(s, v)' = t /\ Sent(q) = t
  BY <1>1, <1>4 DEF Own, Sent
<1>6. q.torn \/ IsFinal(t)
  BY <1>1, <1>3, <1>5 DEF QueryInv, QueriesOk, QueryOk, IsFinal
<1>7. t \in torn' \/ IsFinal(t)'
  BY <1>1, <1>4, <1>6, FinalStays
<1> QED
  BY <1>5, <1>7 DEF Settled, IsFinal, HasConf

LEMMA ReceiptStep ==
    ASSUME TypesInv, QueueInv, QueryInv, ReceiptInv, StepKind
    PROVE  ReceiptInv'
<1> USE DEF ReceiptInv
<1>1. SndTypes /\ \A r \in Sends : snd[r] \in Send
  BY DEF TypesInv, SndTypes
<1>2. ASSUME NEW r \in Sends, NEW v, Settled(Own(r, v)), snd'[r].nonce = snd[r].nonce
      PROVE  Settled(Own(r, v))'
  <2>1. PICK t : t = [s |-> r, nonce |-> snd[r].nonce, v |-> v]
    OBVIOUS
  <2>2. IsFinal(t)' \/ t \in torn'
    BY <1>2, <2>1, FinalStays, TornStep DEF Own, Settled
  <2>3. Own(r, v)' = t
    BY <1>2, <2>1 DEF Own
  <2> QED
    BY <2>2, <2>3 DEF Settled, IsFinal, HasConf
<1>3. ASSUME NEW r \in Sends, snd'[r] = snd[r]
      PROVE  /\ Kept(snd[r])' => \A v \in snd'[r].receipt : Settled(Own(r, v))'
             /\ snd'[r].stage = "confirmed" => snd'[r].receipt # {}
  BY <1>2, <1>3 DEF ReceiptFinal, ConfirmedHas, Kept, Running
<1>4. CASE UNCHANGED snd
  BY <1>3, <1>4 DEF ReceiptFinal, ConfirmedHas
<1>5. ASSUME NEW s \in Sends, NEW y \in Send, Effect(s, y)
      PROVE  ReceiptInv'
  <2>1. /\ snd'[s] = y /\ \A r \in Sends : r # s => snd'[r] = snd[r]
    BY <1>1, <1>5 DEF SndTypes, Effect
  <2>2. ASSUME \/ ~Kept(y)
               \/ y.receipt = {} /\ y.stage # "confirmed"
               \/ /\ y.stage = "confirmed" => y.receipt # {}
                  /\ \A v \in y.receipt : Settled(Own(s, v))'
        PROVE  ReceiptInv'
    <3>1. y.stage = "confirmed" => y.receipt # {}
      BY <2>2 DEF Kept
    <3>2. Kept(y) => \A v \in y.receipt : Settled(Own(s, v))'
      BY <2>2
    <3> QED
      BY <1>3, <2>1, <3>1, <3>2 DEF ReceiptFinal, ConfirmedHas
  <2>3. ~Kept(Failed)
    BY FailedType DEF Kept, Running
  <2>4. CASE Go /\ s = next /\ y.stage \in {"craft", "erred"}
    BY <2>2, <2>4 DEF Kept, Running
  <2>5. CASE Craft(s) /\ y.stage = "publish" /\ SameState(snd[s], y)
    BY <2>2, <2>5 DEF Craft, SameState, QueueInv, Fresh, NothingPublished
  <2>6. CASE Fails(s) /\ y = Failed
    BY <2>2, <2>3, <2>6
  <2>7. CASE Works(s) /\ WorksTo(s, y)
    <3>1. /\ Running(y) /\ snd'[s].nonce = snd[s].nonce
          /\ \A v \in y.receipt : v \in snd[s].receipt \/ Shown(s, v)
      BY <2>1, <2>7 DEF WorksTo
    <3>2. \A v \in snd[s].receipt : Settled(Own(s, v))'
      BY <1>2, <2>7, <3>1 DEF Works, Kept, ReceiptFinal
    <3>3. \A v : Shown(s, v) => Settled(Own(s, v))'
      BY <3>1, ShownSettled
    <3>4. y.stage # "confirmed"
      BY <3>1 DEF Running
    <3> QED
      BY <2>2, <3>1, <3>2, <3>3, <3>4
  <2>8. CASE /\ ReceiveReceipt(s) /\ y.stage = "confirmed" /\ y.nonce = snd[s].nonce
             /\ y.receipt = snd[s].receipt
    <3>1. \A v \in snd[s].receipt : Settled(Own(s, v))
      BY <2>8 DEF ReceiveReceipt, Kept, Running, ReceiptFinal
    <3>2. \A v \in snd[s].receipt : Settled(Own(s, v))'
      BY <1>2, <2>1, <2>8, <3>1
    <3>3. y.receipt # {}
      BY <2>8 DEF ReceiveReceipt
    <3> QED
      BY <2>2, <2>8, <3>2, <3>3
  <2>9. CASE y.stage \in {"erred", "failed"}
    BY <2>2, <2>9 DEF Kept, Running
  <2> QED
    BY <1>5, <2>4, <2>5, <2>6, <2>7, <2>8, <2>9 DEF Effect
<1> QED
  BY <1>4, <1>5, EffectKinds DEF EffectKind

LEMMA ReceiptAlways == Spec => [](TypesInv /\ QueueInv /\ QueryInv /\ ReceiptInv)
<1>1. Init => ReceiptInv
  <2>1. NoSend.stage = "new"
    BY DEF NoSend
  <2> QED
    BY <2>1 DEF Init, ReceiptInv, ReceiptFinal, ConfirmedHas, Kept, Running
<1>2. TypesInv /\ QueueInv /\ QueryInv /\ ReceiptInv /\ [Next]_vars => ReceiptInv'
  BY StepKinds, ReceiptStep DEF TypesInv
<1> QED
  BY <1>1, <1>2, QueryAlways, PTL DEF Spec

\* A send that has returned a receipt has a transaction on L1, whatever reorganisations of
\* less than NumConfirmations blocks follow: queryReceipt waits for the confirmations.  The
\* exception is a reorganisation between its two calls, for the receipt and for the tip.
THEOREM ConfirmedStaysTheorem == Spec => []ConfirmedStays
<1>1. ReceiptInv => ConfirmedStays
  <2> SUFFICES ASSUME ReceiptInv, NEW s \in Sends, snd[s].stage = "confirmed"
               PROVE  \E v \in snd[s].receipt :
                         LET t == [s |-> s, nonce |-> snd[s].nonce, v |-> v]
                         IN  Mined(t) \/ t \in torn
    BY DEF ConfirmedStays
  <2>1. PICK v \in snd[s].receipt : TRUE
    BY DEF ReceiptInv, ConfirmedHas
  <2>2. Settled(Own(s, v))
    BY <2>1 DEF ReceiptInv, ReceiptFinal, Kept
  <2> QED
    BY <2>2 DEF Settled, IsFinal, HasConf, Own, Mined
<1> QED
  BY <1>1, ReceiptAlways, PTL

-----------------------------------------------------------------------------
(* No two sends of one nonce. *)

\* The last nonce handed out is not below that of a send which uses one.
NonceOrder ==
    Failing \/ /\ nonce = {} => Live = {}
               /\ \A n \in nonce, s \in Live : snd[s].nonce <= n
               /\ \A s, t \in Live : s # t => snd[s].nonce # snd[t].nonce

LEMMA NonceOrderStep ==
    ASSUME TypesInv, QueueInv, NonceOrder, StepKind
    PROVE  NonceOrder'
<1>1. /\ SndTypes /\ \A r \in Sends : snd[r] \in Send
      /\ \A r \in Sends : snd[r].nonce \in Nat
  BY DEF TypesInv, SndTypes, Send
<1>2. \A r \in Live : r \in Sends /\ r \in group
  BY DEF Live, Running, QueueInv, Members
<1>3. ASSUME UNCHANGED <<snd, nonce, group>>, ~Failing' => ~Failing
      PROVE  NonceOrder'
  BY <1>3 DEF NonceOrder, Live, Running
<1>4. CASE Idle /\ UNCHANGED snd
  <2>1. ASSUME NEW s \in Sends, SignError(s)
        PROVE  NonceOrder'
    <3>1. nonce' = {NextNonce - 1} /\ NextNonce \in Nat
      BY <2>1, NextNonceType DEF SignError, GivenBack, TypesInv
    <3>2. CASE nonce = {}
      BY <1>4, <2>1, <3>1, <3>2 DEF NonceOrder, Failing, Live, Running, SignError, queueVars
    <3>3. ASSUME NEW n \in nonce, nonce = {n}
          PROVE  UNCHANGED nonce
      BY <3>1, <3>3, NextNonceType DEF TypesInv
    <3>4. nonce = {} \/ \E n \in nonce : nonce = {n}
      BY DEF TypesInv, NonceShape
    <3>5. Failing' <=> Failing
      BY <1>4, <2>1 DEF Failing, SignError, queueVars
    <3> QED
      BY <1>3, <1>4, <2>1, <3>2, <3>3, <3>4, <3>5 DEF SignError, queueVars
  <2>2. CASE GroupContext
    <3>1. CASE groupErr
      BY <1>2, <1>4, <2>2, <3>1 DEF GroupContext, GroupReady, NonceOrder, Live, Running
    <3>2. CASE ~groupErr
      BY <1>3, <1>4, <2>2, <3>2 DEF GroupContext, Failing
    <3> QED
      BY <3>1, <3>2
  <2>3. CASE Kill
    BY <2>3 DEF Kill, NonceOrder, Failing
  <2>4. CASE \/ UNCHANGED vars \/ (\E k \in 0..MaxPending : L1Block(k)) \/ L1Reorg \/ L1Evict
             \/ Close \/ \E q \in queries : TipError(q)
    <3>1. UNCHANGED <<nonce, group, groupErr>>
      BY <2>4 DEF vars, queueVars, L1Block, L1Reorg, L1Evict, Close, TipError
    <3> QED
      BY <1>3, <1>4, <3>1 DEF Failing
  <2> QED
    BY <1>4, <2>1, <2>2, <2>3, <2>4 DEF Idle
<1>5. ASSUME NEW s \in Sends, NEW y \in Send, Effect(s, y)
      PROVE  NonceOrder'
  <2>1. snd'[s] = y /\ \A r \in Sends : r # s => snd'[r] = snd[r]
    BY <1>1, <1>5 DEF SndTypes, Effect
  \* A send that is not failing leaves the others as they are.
  <2>2. ASSUME groupErr' = groupErr, group' \in {group, group \cup {s}, group \ {s}},
               snd[s].stage \notin {"reset", "erred"}
        PROVE  Failing => Failing'
    <3>1. \A r \in group : r # s => r \in group'
      BY <2>2
    <3>2. group \subseteq Sends
      BY DEF TypesInv, GroupTypes
    <3> QED
      BY <2>1, <2>2, <3>1, <3>2 DEF Failing
  <2>3. ASSUME UNCHANGED nonce, Failing => Failing',
               Running(y) => Running(snd[s]) /\ y.nonce = snd[s].nonce
        PROVE  NonceOrder'
    <3>1. Live' \subseteq Live /\ \A r \in Live' : snd'[r].nonce = snd[r].nonce
      BY <2>1, <2>3 DEF Live, Running
    <3> QED
      BY <2>3, <3>1 DEF NonceOrder
  <2>4. CASE Go /\ s = next /\ y.stage \in {"craft", "erred"}
    <3>1. snd[s].stage = "new" /\ nonce' = nonce /\ groupErr' = groupErr /\ group' = group \cup {s}
      BY <2>4 DEF Go, QueueInv, NextNew
    <3> QED
      BY <2>2, <2>3, <2>4, <3>1 DEF Running
  <2>5. CASE Craft(s) /\ y.stage = "publish" /\ y.nonce = NextNonce
    <3>1. /\ nonce' = {NextNonce} /\ groupErr' = groupErr /\ group' = group
          /\ snd[s].stage = "craft" /\ NextNonce \in Nat
      BY <2>5, NextNonceType DEF Craft, queueVars, TypesInv
    <3>2. Failing => Failing'
      BY <2>2, <3>1
    <3>3. Live' = Live \cup {s} /\ s \notin Live
      BY <2>1, <2>5, <3>1 DEF Live, Running
    <3>4. ASSUME ~Failing, NEW r \in Live
          PROVE  snd[r].nonce < NextNonce /\ r # s /\ snd'[r].nonce = snd[r].nonce
      <4>1. PICK n \in nonce : n \in Int /\ NextNonce = n + 1
        BY <3>4, NextNonceType DEF NonceOrder, TypesInv
      <4>2. snd[r].nonce <= n /\ snd[r].nonce \in Nat
        BY <1>1, <1>2, <3>4, <4>1 DEF NonceOrder
      <4> QED
        BY <1>2, <2>1, <3>1, <3>3, <4>1, <4>2
    <3>5. ASSUME ~Failing, NEW r \in Live', NEW u \in Live', r # u
          PROVE  snd'[r].nonce # snd'[u].nonce
      <4>1. CASE r \in Live /\ u \in Live
        BY <3>4, <3>5, <4>1 DEF NonceOrder
      <4>2. CASE r = s
        <5>1. u \in Live
          BY <3>3, <3>5, <4>2
        <5> QED
          BY <1>1, <1>2, <2>1, <2>5, <3>1, <3>4, <3>5, <4>2, <5>1
      <4>3. CASE u = s
        <5>1. r \in Live
          BY <3>3, <3>5, <4>3
        <5> QED
          BY <1>1, <1>2, <2>1, <2>5, <3>1, <3>4, <3>5, <4>3, <5>1
      <4> QED
        BY <3>3, <3>5, <4>1, <4>2, <4>3
    <3>6. ASSUME ~Failing, NEW r \in Live'
          PROVE  snd'[r].nonce <= NextNonce
      <4>1. CASE r = s
        BY <2>1, <2>5, <3>1, <4>1
      <4>2. CASE r \in Live
        BY <1>1, <1>2, <3>1, <3>4, <3>6, <4>2
      <4> QED
        BY <3>3, <3>6, <4>1, <4>2
    <3>7. nonce' # {} /\ \A n \in nonce' : n = NextNonce
      BY <3>1
    <3> QED
      BY <3>2, <3>5, <3>6, <3>7 DEF NonceOrder
  <2>6. CASE Fails(s) /\ y = Failed
    <3>1. s \in group' /\ snd'[s].stage = "reset"
      BY <2>1, <2>6, FailedType DEF Fails, Becomes, queueVars, QueueInv, Members
    <3> QED
      BY <3>1 DEF NonceOrder, Failing
  <2>7. CASE Works(s) /\ WorksTo(s, y)
    <3>1. /\ nonce' = nonce /\ groupErr' = groupErr /\ group' = group /\ Running(snd[s])
          /\ Running(y) /\ y.nonce = snd[s].nonce
      BY <2>7 DEF Works, WorksTo, Becomes, queueVars
    <3> QED
      BY <2>2, <2>3, <3>1 DEF Running
  <2>8. CASE ReceiveReceipt(s) /\ y.stage = "confirmed"
    <3>1. /\ nonce' = nonce /\ groupErr' = groupErr /\ group' = group \ {s}
          /\ snd[s].stage = "select"
      BY <2>8 DEF ReceiveReceipt
    <3> QED
      BY <2>2, <2>3, <2>8, <3>1 DEF Running
  <2>9. CASE ResetNonce(s) /\ y.stage = "erred"
    <3>1. s \in group' /\ snd'[s].stage = "erred"
      BY <2>1, <2>9 DEF ResetNonce, queueVars, QueueInv, Members
    <3> QED
      BY <3>1 DEF NonceOrder, Failing
  <2>10. CASE Leave(s)
    BY <2>10 DEF Leave, NonceOrder, Failing
  <2> QED
    BY <1>5, <2>4, <2>5, <2>6, <2>7, <2>8, <2>9, <2>10 DEF Effect
<1> QED
  BY <1>4, <1>5, EffectKinds DEF EffectKind

\* Two sends of a group that is not failing never compete for one nonce, although a failed
\* send makes signWithNextNonce ask L1 again while others are in flight.
THEOREM OwnNoncesTheorem == Spec => []OwnNonces
<1>1. Init => NonceOrder
  <2>1. NoSend.stage = "new"
    BY DEF NoSend
  <2> QED
    BY <2>1 DEF Init, NonceOrder, Live, Running
<1>2. TypesInv /\ QueueInv /\ NonceOrder /\ [Next]_vars => NonceOrder'
  BY StepKinds, NonceOrderStep DEF TypesInv
<1>3. NonceOrder => OwnNonces
  BY DEF NonceOrder, OwnNonces
<1> QED
  BY <1>1, <1>2, <1>3, QueueAlways, PTL DEF Spec

-----------------------------------------------------------------------------
(* The transactions that L1 knows are of sends that have published them. *)

Txs == pool \cup {chain[i].tx : i \in DOMAIN chain}
TxOfSend == \A t \in Txs :
    /\ snd[t.s].stage \notin {"new", "craft"}
    /\ Kept(snd[t.s]) => t.nonce = snd[t.s].nonce

LEMMA TxsTypes ==
    ASSUME TypesInv
    PROVE  \A t \in Txs : t \in PoolTx /\ t.s \in Sends /\ t.nonce \in Nat /\ t.v \in Bumps
<1>1. \A t \in Txs : t \in PoolTx
  <2>1. chain \in Seq(Entry)
    BY DEF TypesInv, ChainTypes, Entry
  <2>2. \A i \in DOMAIN chain : chain[i].tx \in PoolTx
    <3>1. \A i \in 1..Len(chain) : chain[i] \in Entry
      BY <2>1, ElementOfSeq
    <3>2. DOMAIN chain = 1..Len(chain)
      BY <2>1
    <3> QED
      BY <3>1, <3>2 DEF Entry
  <2> QED
    BY <2>2 DEF TypesInv, PoolTypes, Txs
<1> QED
  BY <1>1 DEF PoolTx

\* Only publishing adds one.
LEMMA TxsStep ==
    ASSUME TypesInv, StepKind
    PROVE  \A t \in Txs' : \/ t \in Txs
                           \/ \E s \in Sends, v \in Bumps : Works(s) /\ t = Own(s, v)
<1>1. /\ chain \in Seq(Entry) /\ Latest \in Nat /\ DOMAIN chain = 1..Latest
  BY DEF TypesInv, ChainTypes, Entry, Latest
<1>2. ASSUME NEW k \in 0..MaxPending, L1Block(k)
      PROVE  Txs' \subseteq Txs
  <2>1. /\ DOMAIN chain' = 1..(Latest + k)
        /\ \A i \in 1..Latest : chain'[i].tx = chain[i].tx
        /\ \A i \in (Latest + 1)..(Latest + k) : chain'[i].tx \in AtNonce(i - 1)
    <3>1. chain' \in Seq(Entry) /\ Len(chain') = Latest + k
      BY <1>2, BlockEffect DEF TypesInv
    <3>2. DOMAIN chain' = 1..(Latest + k)
      BY <3>1
    <3> QED
      BY <1>2, <3>2, BlockEffect DEF TypesInv
  <2>2. ASSUME NEW i \in 1..(Latest + k)
        PROVE  chain'[i].tx \in Txs
    <3>1. CASE i \in 1..Latest
      BY <1>1, <2>1, <3>1 DEF Txs
    <3>2. CASE i \in (Latest + 1)..(Latest + k)
      BY <2>1, <3>2 DEF Txs, AtNonce
    <3> QED
      BY <1>1, <3>1, <3>2
  <2>3. pool' \subseteq pool
    BY <1>2 DEF L1Block
  <2> QED
    BY <2>1, <2>2, <2>3 DEF Txs
<1>3. CASE L1Reorg
  <2>1. PICK k \in Nat :
              /\ k < Latest /\ chain' \in Seq(Entry) /\ Len(chain') = k
              /\ \A j \in 1..k : chain'[j] = chain[j]
              /\ pool' = pool \cup {chain[i].tx : i \in (k + 1)..Latest}
    BY <1>3, ReorgEffect DEF TypesInv
  <2>2. DOMAIN chain' = 1..k
    BY <2>1
  <2>3. 1..k \subseteq 1..Latest /\ (k + 1)..Latest \subseteq 1..Latest
    BY <1>1, <2>1
  <2> QED
    BY <1>1, <2>1, <2>2, <2>3 DEF Txs
<1>4. CASE /\ chain' = chain
           /\ \A t \in pool' : \/ t \in pool
                               \/ \E s \in Sends, v \in Bumps : Works(s) /\ t = Own(s, v)
  BY <1>4 DEF Txs
<1> QED
  BY <1>2, <1>3, <1>4, PoolStep

LEMMA TxOfSendStep ==
    ASSUME TypesInv, QueueInv, TxOfSend, StepKind
    PROVE  TxOfSend'
<1>1. SndTypes /\ \A r \in Sends : snd[r] \in Send
  BY DEF TypesInv, SndTypes
<1>2. CASE Idle /\ UNCHANGED snd
  <2>2. \A s \in Sends, v \in Bumps : Running(snd[s]) =>
           snd[s].stage \notin {"new", "craft"} /\ Own(s, v).s = s /\ Own(s, v).nonce = snd[s].nonce
    BY DEF Running, Own
  <2>3. \A s \in Sends : Works(s) => Running(snd[s])
    BY DEF Works
  <2> QED
    BY <1>2, <2>2, <2>3, TxsStep DEF TxOfSend
<1>3. ASSUME NEW s \in Sends, NEW y \in Send, Effect(s, y)
      PROVE  TxOfSend'
  <2>1. snd'[s] = y /\ \A r \in Sends : r # s => snd'[r] = snd[r]
    BY <1>1, <1>3 DEF SndTypes, Effect
  <2>2. ASSUME NEW t \in Txs, \/ snd[s].stage \in {"new", "craft"}
                              \/ /\ y.stage \notin {"new", "craft"}
                                 /\ Kept(y) => Kept(snd[s]) /\ y.nonce = snd[s].nonce
        PROVE  /\ snd'[t.s].stage \notin {"new", "craft"}
               /\ Kept(snd'[t.s]) => t.nonce = snd'[t.s].nonce
    <3>1. t.s \in Sends
      BY TxsTypes
    <3>2. CASE t.s = s
      BY <2>1, <2>2, <3>1, <3>2 DEF TxOfSend
    <3>3. CASE t.s # s
      BY <2>1, <2>2, <3>1, <3>3 DEF TxOfSend
    <3> QED
      BY <3>2, <3>3
  <2>3. ASSUME Txs' \subseteq Txs,
               \/ snd[s].stage \in {"new", "craft"}
               \/ /\ y.stage \notin {"new", "craft"}
                  /\ Kept(y) => Kept(snd[s]) /\ y.nonce = snd[s].nonce
        PROVE  TxOfSend'
    BY <2>2, <2>3 DEF TxOfSend, Kept, Running
  <2>4. CASE Works(s) /\ WorksTo(s, y)
    <3>0. Running(y) /\ y.nonce = snd[s].nonce
      BY <2>4 DEF WorksTo
    <3>1. \A t \in Txs' : t \in Txs \/ \E v \in Bumps : t = Own(s, v)
      <4>1. pool' = pool \/ \E v \in Bumps : pool' = (pool \ AtNonce(snd[s].nonce)) \cup {Own(s, v)}
        BY <2>4 DEF Works, PoolOf
      <4>2. chain' = chain
        BY <2>4 DEF WorksTo, Becomes
      <4> QED
        BY <4>1, <4>2 DEF Txs
    <3>2. y.stage \notin {"new", "craft"} /\ Kept(snd[s])
      BY <2>4, <3>0 DEF Works, Running, Kept
    <3>3. \A v \in Bumps : Own(s, v).s = s /\ Own(s, v).nonce = y.nonce
      BY <3>0 DEF Own
    <3>4. \A t \in Txs' : /\ snd'[t.s].stage \notin {"new", "craft"}
                          /\ Kept(snd'[t.s]) => t.nonce = snd'[t.s].nonce
      BY <2>1, <2>2, <3>0, <3>1, <3>2, <3>3
    <3> QED
      BY <3>4 DEF TxOfSend, Kept, Running
  <2>5. ASSUME UNCHANGED <<pool, chain>>
        PROVE  Txs' \subseteq Txs
    BY <2>5 DEF Txs
  <2>6. CASE Go /\ s = next
    BY <2>3, <2>5, <2>6 DEF Go, l1Vars, QueueInv, NextNew
  <2>7. CASE Craft(s)
    BY <2>3, <2>5, <2>7 DEF Craft, l1Vars
  <2>8. CASE Fails(s) /\ y = Failed
    BY <2>3, <2>5, <2>8, FailedType DEF Fails, Becomes, Kept, Running
  <2>9. CASE ReceiveReceipt(s) /\ y.stage = "confirmed" /\ y.nonce = snd[s].nonce
    BY <2>3, <2>5, <2>9 DEF ReceiveReceipt, l1Vars, Kept, Running
  <2>10. CASE (ResetNonce(s) \/ Leave(s)) /\ y.stage \in {"erred", "failed"}
    BY <2>3, <2>5, <2>10 DEF ResetNonce, Leave, l1Vars, Kept, Running
  <2> QED
    BY <1>3, <2>4, <2>6, <2>7, <2>8, <2>9, <2>10 DEF Effect
<1> QED
  BY <1>2, <1>3, EffectKinds DEF EffectKind

-----------------------------------------------------------------------------
(* No gap in the nonces. *)

Covered(m) == Taken(m) \/ \E s \in Live : snd[s].nonce = m
Gapfree(n) == \A m \in Latest..n : Covered(m)
\* The nonces have no gap, or a send that has failed is about to make the manager ask again.
GapInv == (\E s \in Sends : snd[s].stage = "reset") \/ \A n \in nonce : Gapfree(n)

LEMMA NonceValue ==
    ASSUME TypesInv
    PROVE  \A n \in nonce : n \in Int /\ n >= -1 /\ nonce = {n} /\ NextNonce = n + 1
  BY NextNonceType DEF TypesInv, NonceShape

\* Nonces that are covered stay covered while their sends go on.
LEMMA GapfreeStays ==
    ASSUME TypesInv, TypesInv', StepKind, NEW n \in Int, Gapfree(n),
           \A s \in Live : \/ s \in Live' /\ snd'[s].nonce = snd[s].nonce
                           \/ Taken(snd[s].nonce)
    PROVE  Gapfree(n)'
<1>1. Latest \in Nat /\ Latest' \in Nat /\ \A s \in Sends : snd[s].nonce \in Nat
  BY ChainValues DEF TypesInv, ChainTypes, Latest, SndTypes, Send
<1>2. ASSUME NEW m \in Nat, Taken(m) \/ \E s \in Live : snd[s].nonce = m
      PROVE  Covered(m)'
  <2>1. CASE Taken(m)
    BY <2>1, TakenStays DEF Covered
  <2>2. ASSUME NEW s \in Live, snd[s].nonce = m, s \in Live', snd'[s].nonce = m
        PROVE  Covered(m)'
    BY <2>2 DEF Covered
  <2> QED
    BY <1>2, <2>1, <2>2
<1>3. ASSUME NEW m \in Latest'..n
      PROVE  Covered(m)'
  <2>1. m \in Nat /\ m <= n
    BY <1>1
  <2>2. CASE m < Latest
    BY <1>2, <2>1, <2>2 DEF Taken
  <2>3. CASE ~(m < Latest)
    <3>1. m \in Latest..n
      BY <1>1, <2>1, <2>3
    <3> QED
      BY <1>2, <2>1, <3>1 DEF Gapfree, Covered
  <2> QED
    BY <2>2, <2>3
<1> QED
  BY <1>3 DEF Gapfree

LEMMA GapStep ==
    ASSUME TypesInv, TypesInv', QueueInv, QueryInv, ReceiptInv, GapInv, StepKind
    PROVE  GapInv'
<1>1. /\ SndTypes /\ \A r \in Sends : snd[r] \in Send
      /\ Latest \in Nat /\ Latest' \in Nat
  BY ChainValues DEF TypesInv, SndTypes, ChainTypes, Latest
<1>2. \A n \in nonce : n \in Int
  BY NonceValue
<1>3. CASE Idle /\ UNCHANGED snd
  <2>1. \A s \in Live : s \in Live' /\ snd'[s].nonce = snd[s].nonce
    BY <1>3 DEF Live, Running
  <2>2. \A n \in Int : Gapfree(n) => Gapfree(n)'
    BY <2>1, GapfreeStays
  <2>3. CASE nonce' = nonce
    BY <1>2, <1>3, <2>2, <2>3 DEF GapInv
  <2>4. ASSUME NEW s \in Sends, SignError(s)
        PROVE  GapInv'
    <3>0. chain' = chain /\ nonce' = {NextNonce - 1}
      BY <2>4 DEF SignError, GivenBack, l1Vars
    <3>1. nonce' = {NextNonce - 1} /\ NextNonce \in Nat /\ Latest' = Latest
      BY <3>0, NextNonceType DEF TypesInv, Latest
    <3>2. CASE nonce = {}
      <4>1. nonce' = {Latest' - 1}
        BY <3>1, <3>2, NextNonceType DEF TypesInv
      <4>2. PICK L \in Int : L = Latest'
        BY <1>1
      <4>3. \A m \in L..(L - 1) : FALSE
        BY SMT
      <4> QED
        BY <4>1, <4>2, <4>3 DEF GapInv, Gapfree
    <3>3. ASSUME NEW n \in nonce
          PROVE  nonce' = nonce
      BY <3>1, <3>3, NonceValue
    <3> QED
      BY <2>3, <3>2, <3>3
  <2>5. CASE \/ UNCHANGED vars \/ (\E k \in 0..MaxPending : L1Block(k)) \/ L1Reorg \/ L1Evict
             \/ GroupContext \/ Kill \/ Close \/ \E q \in queries : TipError(q)
    <3>1. nonce' = nonce
      BY <2>5 DEF vars, L1Block, L1Reorg, L1Evict, GroupContext, Kill, Close, TipError
    <3> QED
      BY <2>3, <3>1
  <2> QED
    BY <1>3, <2>4, <2>5 DEF Idle
<1>4. ASSUME NEW s \in Sends, NEW y \in Send, Effect(s, y)
      PROVE  GapInv'
  <2>1. snd'[s] = y /\ \A r \in Sends : r # s => snd'[r] = snd[r]
    BY <1>1, <1>4 DEF SndTypes, Effect
  <2>2. CASE y.stage = "reset"
    BY <2>1, <2>2 DEF GapInv
  \* While s takes no new nonce.
  <2>3. ASSUME nonce' = nonce, snd[s].stage # "reset",
               Running(snd[s]) => \/ Running(y) /\ y.nonce = snd[s].nonce
                                  \/ Taken(snd[s].nonce)
        PROVE  GapInv'
    <3>1. \A r \in Live : \/ r \in Live' /\ snd'[r].nonce = snd[r].nonce
                          \/ Taken(snd[r].nonce)
      BY <2>1, <2>3 DEF Live
    <3>2. \A n \in Int : Gapfree(n) => Gapfree(n)'
      BY <3>1, GapfreeStays
    <3>3. \A r \in Sends : snd[r].stage = "reset" => snd'[r].stage = "reset"
      BY <2>1, <2>3
    <3> QED
      BY <1>2, <2>3, <3>2, <3>3 DEF GapInv
  <2>4. CASE Go /\ s = next
    <3>1. snd[s].stage = "new" /\ nonce' = nonce
      BY <2>4 DEF Go, QueueInv, NextNew
    <3> QED
      BY <2>3, <3>1 DEF Running
  <2>5. CASE Craft(s) /\ y.stage = "publish" /\ y.nonce = NextNonce
    <3>1. /\ nonce' = {NextNonce} /\ snd[s].stage = "craft" /\ NextNonce \in Nat
          /\ Latest' = Latest
      BY <2>5, NextNonceType DEF Craft, l1Vars, Latest, TypesInv
    <3>2. s \in Live' /\ snd'[s].nonce = NextNonce
      BY <2>1, <2>5 DEF Live, Running
    <3>3. \A r \in Live : r \in Live' /\ snd'[r].nonce = snd[r].nonce
      BY <2>1, <3>1 DEF Live, Running
    <3>4. ASSUME NEW r \in Sends, snd[r].stage = "reset"
          PROVE  GapInv'
      <4>1. snd'[r].stage = "reset"
        BY <2>1, <3>1, <3>4
      <4> QED
        BY <3>4, <4>1 DEF GapInv
    <3>5. ASSUME \A n \in nonce : Gapfree(n), NEW n \in nonce', NEW m \in Latest'..n
          PROVE  Covered(m)'
      <4>1. n = NextNonce /\ m \in Int /\ Latest <= m /\ m <= n
        BY <1>1, <3>1
      <4>2. CASE m = n
        BY <3>2, <4>1, <4>2 DEF Covered
      <4>3. ASSUME m # n, NEW k \in nonce
            PROVE  Covered(m)'
        <5>1. k \in Int /\ n = k + 1 /\ Gapfree(k)
          BY <3>5, <4>1, <4>3, NonceValue
        <5>2. Gapfree(k)'
          BY <3>3, <5>1, GapfreeStays
        <5>3. m \in Latest'..k
          BY <1>1, <3>1, <4>1, <4>3, <5>1
        <5> QED
          BY <5>2, <5>3 DEF Gapfree
      <4>4. nonce = {} => m = n
        BY <1>1, <3>1, <4>1, NextNonceType DEF TypesInv
      <4> QED
        BY <4>2, <4>3, <4>4
    <3> QED
      BY <3>4, <3>5 DEF GapInv, Gapfree
  <2>6. CASE Works(s) /\ WorksTo(s, y)
    <3>1. nonce' = nonce /\ Running(y) /\ y.nonce = snd[s].nonce /\ Running(snd[s])
      BY <2>6 DEF Works, WorksTo, Becomes
    <3> QED
      BY <2>3, <3>1 DEF Running
  \* What a receipt is about is taken.
  <2>7. CASE ReceiveReceipt(s)
    <3>1. PICK v \in snd[s].receipt : TRUE
      BY <2>7 DEF ReceiveReceipt
    <3>2. nonce' = nonce /\ snd[s].stage = "select"
      BY <2>7 DEF ReceiveReceipt
    <3>3. PICK t : t = Own(s, v)
      OBVIOUS
    <3>4. t.nonce = snd[s].nonce /\ Kept(snd[s])
      BY <3>2, <3>3 DEF Own, Kept, Running
    <3>5. Settled(t)
      BY <3>1, <3>3, <3>4 DEF ReceiptInv, ReceiptFinal
    <3>6. Taken(t.nonce)
      <4>1. CASE IsFinal(t)
        <5>1. t.nonce < Latest
          BY <4>1, HasConfNonce DEF IsFinal
        <5> QED
          BY <5>1 DEF Taken
      <4>2. CASE t \in torn
        BY <4>2 DEF QueryInv, TornTaken
      <4> QED
        BY <3>5, <4>1, <4>2 DEF Settled
    <3>7. Taken(snd[s].nonce)
      BY <3>4, <3>6
    <3> QED
      BY <2>3, <3>2, <3>7
  <2>8. CASE ResetNonce(s)
    BY <2>8 DEF ResetNonce, GapInv
  <2>9. CASE Leave(s)
    BY <2>3, <2>9 DEF Leave, Running
  <2>10. CASE Fails(s) /\ y = Failed
    BY <2>2, <2>10, FailedType
  <2> QED
    BY <1>4, <2>4, <2>5, <2>6, <2>7, <2>8, <2>9, <2>10 DEF Effect
<1> QED
  BY <1>3, <1>4, EffectKinds DEF EffectKind

LEMMA GapAlways ==
    Spec => [](TypesInv /\ QueueInv /\ QueryInv /\ ReceiptInv /\ TxOfSend /\ GapInv)
<1>1. Init => GapInv /\ TxOfSend
  <2> SUFFICES ASSUME Init PROVE GapInv /\ TxOfSend
    OBVIOUS
  <2>1. nonce = {} /\ pool = {} /\ chain = << >>
    BY DEF Init
  <2>2. Txs = {}
    BY <2>1 DEF Txs
  <2> QED
    BY <2>1, <2>2 DEF GapInv, TxOfSend
<1>2. TypesInv /\ QueueInv /\ TxOfSend /\ [Next]_vars => TxOfSend'
  BY StepKinds, TxOfSendStep DEF TypesInv
<1>3. /\ TypesInv /\ TypesInv' /\ QueueInv /\ QueryInv /\ ReceiptInv /\ GapInv /\ [Next]_vars
      => GapInv'
  BY StepKinds, GapStep DEF TypesInv
<1> QED
  BY <1>1, <1>2, <1>3, ReceiptAlways, PTL DEF Spec

\* Unless the group is failing, the nonces from L1's next to the last one handed out have
\* no gap, over failures of the signer (txmgr.go:295), resets of the nonce (:319-323) and
\* reorganisations: each is a running send's or has its transaction in L1's pool; except a
\* nonce whose last published transaction the pool has forgotten.
THEOREM NoNonceGapTheorem == Spec => []NoNonceGap
<1>1. TypesInv /\ QueueInv /\ GapInv => NoNonceGap
  <2> SUFFICES ASSUME TypesInv, QueueInv, GapInv PROVE NoNonceGap
    OBVIOUS
  <2>1. ASSUME NEW s \in Sends, snd[s].stage = "reset"
        PROVE  Failing
    BY <2>1 DEF QueueInv, Members, Failing
  <2>2. ASSUME \A n \in nonce : Gapfree(n), NEW n \in nonce, NEW m \in Latest..n
        PROVE  AtNonce(m) # {} \/ (\E s \in Live : snd[s].nonce = m) \/ m \in evicted
    <3>1. Covered(m) /\ ~(m < Latest)
      BY <2>2, ChainValues, NonceValue DEF Gapfree
    <3> QED
      BY <3>1 DEF Covered, Taken
  <2> QED
    BY <2>1, <2>2 DEF GapInv, NoNonceGap
<1> QED
  BY <1>1, GapAlways, PTL

-----------------------------------------------------------------------------
(* Without a fault no send fails. *)

Calm ==
    /\ groupErr = FALSE /\ closed = FALSE /\ killed = FALSE
    /\ \A s \in Sends : /\ snd[s].stage \notin {"reset", "erred", "failed"}
                        /\ snd[s].reserved = FALSE
\* What a send holds for mined is mined, and it polls every transaction that L1 has of it.
MinedSeen ==
    \A s \in Sends : Running(snd[s]) => \A v \in snd[s].minedTxs : Mined(Own(s, v))
Watched ==
    \A t \in Txs : /\ Kept(snd[t.s])
                   /\ Running(snd[t.s]) => t.v \in snd[t.s].watch \cup snd[t.s].minedTxs
Polling ==
    \A s \in Sends : snd[s].stage \in {"check", "select"} =>
        snd[s].watch \cup snd[s].minedTxs # {}
\* A send finds its nonce too low once at most, and then because its own transaction has
\* been mined: the receipt is found before the next attempt.
OnceTooLow(s, x) ==
    \/ x.tooLow = 0
    \/ /\ x.tooLow = 1 /\ x.stage \in {"check", "select"}
       /\ \E v \in Bumps : Mined(Own(s, v))
TooLowOnce == \A s \in Sends : Running(snd[s]) => OnceTooLow(s, snd[s])
KeptNonces ==
    /\ nonce = {} => \A s \in Sends : ~Kept(snd[s])
    /\ \A n \in nonce, s \in Sends : Kept(snd[s]) => snd[s].nonce <= n
    /\ \A s, r \in Sends : Kept(snd[s]) /\ Kept(snd[r]) /\ s # r => snd[s].nonce # snd[r].nonce

Steady == Calm /\ MinedSeen /\ Watched /\ Polling /\ TooLowOnce /\ KeptNonces

\* What a working send does while nothing fails.
SteadyWork(s) ==
    /\ Running(snd[s])
    /\ \E y \in Send :
          /\ snd' = [snd EXCEPT ![s] = y]
          /\ Running(y) /\ y.nonce = snd[s].nonce /\ y.reserved = FALSE
          /\ \A v \in y.minedTxs : v \in snd[s].minedTxs \/ Mined(Own(s, v))
          /\ snd[s].watch \cup snd[s].minedTxs \subseteq y.watch \cup y.minedTxs
          /\ y.stage \in {"check", "select"} => y.watch \cup y.minedTxs # {}
          /\ OnceTooLow(s, y)
          /\ \/ pool' = pool
             \/ \E v \in y.watch : pool' = (pool \ AtNonce(snd[s].nonce)) \cup {Own(s, v)}
    /\ UNCHANGED <<nonce, closed, group, groupErr, killed, chain>>

\* A mined transaction of a send's nonce is its own.
LEMMA OwnMined ==
    ASSUME TypesInv, TxOfSend, Steady, NEW s \in Sends, Kept(snd[s]), snd[s].nonce < Latest
    PROVE  \E v \in Bumps : Mined(Own(s, v))
<1>1. snd[s].nonce \in Nat /\ snd[s].nonce + 1 \in 1..Latest
  <2>1. snd[s].nonce \in Nat
    BY DEF TypesInv, SndTypes, Send
  <2> QED
    BY <2>1, ChainValues
<1>2. PICK i \in 1..Latest : i = snd[s].nonce + 1
  BY <1>1
<1>3. PICK u : u = chain[i].tx
  OBVIOUS
<1>4. u \in PoolTx /\ u.nonce = snd[s].nonce /\ u \in Txs /\ i \in DOMAIN chain
  BY <1>1, <1>2, <1>3, ChainValues DEF Txs
<1>5. u.s \in Sends /\ u.v \in Bumps /\ u = [s |-> u.s, nonce |-> u.nonce, v |-> u.v]
  BY <1>4 DEF PoolTx
<1>6. Kept(snd[u.s]) /\ snd[u.s].nonce = u.nonce
  BY <1>4 DEF Steady, Watched, TxOfSend
<1>7. u.s = s
  BY <1>4, <1>5, <1>6 DEF Steady, KeptNonces
<1>8. u = Own(s, u.v)
  BY <1>4, <1>5, <1>7 DEF Own
<1> QED
  BY <1>3, <1>4, <1>5, <1>8 DEF Mined

\* A transaction of a working send that is mined is one it polls, or has found.
LEMMA MinedWatched ==
    ASSUME Steady, NEW s \in Sends, Running(snd[s]), NEW v, Mined(Own(s, v))
    PROVE  v \in snd[s].watch \cup snd[s].minedTxs
<1>1. Own(s, v) \in Txs /\ Own(s, v).s = s /\ Own(s, v).v = v
  BY DEF Mined, Txs, Own
<1> QED
  BY <1>1 DEF Steady, Watched

LEMMA SteadySkip ==
    ASSUME TypesInv, Steady, NEW s \in Sends, PublishSkip(s), ~Fault
    PROVE  SteadyWork(s)
<1>1. /\ snd[s] \in Send /\ Running(snd[s]) /\ snd[s].stage = "publish"
      /\ snd[s].reserved = FALSE /\ snd[s].tooLow = 0
  BY DEF TypesInv, SndTypes, PublishSkip, Running, Steady, Calm, TooLowOnce, OnceTooLow
<1>2. /\ snd[s].minedTxs # {}
      /\ snd' = [snd EXCEPT ![s] = [Bumped(snd[s]) EXCEPT !.stage = "check", !.bump = FALSE]]
      /\ UNCHANGED <<nonce, closed, queueVars, l1Vars>>
  BY DEF PublishSkip, Steady, Calm
<1> DEFINE x == Bumped(snd[s])
           y == [x EXCEPT !.stage = "check", !.bump = FALSE]
<1>3. /\ x \in Send /\ x.nonce = snd[s].nonce /\ x.watch = snd[s].watch
      /\ x.minedTxs = snd[s].minedTxs /\ x.tooLow = snd[s].tooLow
      /\ x.reserved = snd[s].reserved
  BY <1>1, BumpedType
<1> HIDE DEF x
<1>4. /\ y \in Send /\ y.stage = "check" /\ y.nonce = snd[s].nonce /\ y.watch = snd[s].watch
      /\ y.minedTxs = snd[s].minedTxs /\ y.tooLow = 0 /\ y.reserved = FALSE
  BY <1>1, <1>3 DEF Send, Stages
<1>5. snd' = [snd EXCEPT ![s] = y]
  BY <1>2 DEF x
<1> HIDE DEF y
<1>6. Running(y) /\ OnceTooLow(s, y)
  BY <1>4 DEF Running, OnceTooLow
<1> QED
  BY <1>1, <1>2, <1>4, <1>5, <1>6 DEF SteadyWork, queueVars, l1Vars

LEMMA SteadyPublish ==
    ASSUME TypesInv, TxOfSend, Steady, NEW s \in Sends, Publish(s), ~Fault
    PROVE  SteadyWork(s)
<1>1. /\ snd[s] \in Send /\ Running(snd[s]) /\ snd[s].stage = "publish"
      /\ snd[s].reserved = FALSE /\ snd[s].tooLow = 0
  BY DEF TypesInv, SndTypes, Publish, Running, Steady, Calm, TooLowOnce, OnceTooLow
<1> DEFINE x == Bumped(snd[s])
           t == [s |-> s, nonce |-> x.nonce, v |-> x.v]
<1>2. /\ x \in Send /\ x.nonce = snd[s].nonce /\ x.watch = snd[s].watch
      /\ x.minedTxs = snd[s].minedTxs /\ x.tooLow = snd[s].tooLow
      /\ x.reserved = snd[s].reserved /\ x.stage = "publish"
  BY <1>1, BumpedType
<1>3. Submit(s, x, t) /\ UNCHANGED <<nonce, closed, queueVars, chain>>
  BY DEF Publish
<1>4. t = Own(s, t.v) /\ t.v \in Bumps /\ t.nonce = snd[s].nonce
  BY <1>2 DEF Own, Send
<1> HIDE DEF x, t
\* The cases in which no transaction gets into the pool.
<1>5. ASSUME NEW y \in Send, Running(y), y.nonce = x.nonce, y.reserved = FALSE,
             y.minedTxs = x.minedTxs, y.watch = x.watch, snd' = [snd EXCEPT ![s] = y],
             y.stage \in {"check", "select"} => y.watch \cup y.minedTxs # {},
             OnceTooLow(s, y), pool' = pool
      PROVE  SteadyWork(s)
  BY <1>1, <1>2, <1>3, <1>5 DEF SteadyWork, queueVars
<1>6. CASE /\ t.nonce < Latest /\ pool' = pool
           /\ snd' = [snd EXCEPT ![s] = [x EXCEPT !.stage = "check", !.bump = FALSE,
                                                  !.tooLow = @ + 1]]
  <2>1. PICK v \in Bumps : Mined(Own(s, v))
    BY <1>1, <1>4, <1>6, OwnMined DEF Kept
  <2>2. v \in x.watch \cup x.minedTxs
    BY <1>1, <1>2, <2>1, MinedWatched
  <2>3. PICK y : y = [x EXCEPT !.stage = "check", !.bump = FALSE, !.tooLow = @ + 1]
    OBVIOUS
  <2>4. x.tooLow + 1 = 1 /\ x.tooLow + 1 \in Nat
    BY <1>1, <1>2
  <2>5. /\ y \in Send /\ y.stage = "check" /\ y.nonce = x.nonce /\ y.reserved = FALSE
        /\ y.minedTxs = x.minedTxs /\ y.watch = x.watch /\ y.tooLow = 1
    BY <1>1, <1>2, <2>3, <2>4 DEF Send, Stages
  <2>6. Running(y) /\ OnceTooLow(s, y)
    BY <2>1, <2>5 DEF Running, OnceTooLow
  <2> QED
    BY <1>5, <1>6, <2>2, <2>3, <2>5, <2>6
<1>7. CASE Accepted(s, x, t)
  <2>1. PICK y : y = [x EXCEPT !.stage = "check", !.bump = FALSE, !.watch = @ \cup {t.v}]
    OBVIOUS
  <2>2. x.watch \cup {t.v} \in SUBSET Bumps
    BY <1>2, <1>4 DEF Send
  <2>3. /\ y \in Send /\ y.stage = "check" /\ y.nonce = x.nonce /\ y.reserved = FALSE
        /\ y.minedTxs = x.minedTxs /\ y.watch = x.watch \cup {t.v} /\ y.tooLow = 0
    BY <1>1, <1>2, <2>1, <2>2 DEF Send, Stages
  <2>4. snd' = [snd EXCEPT ![s] = y] /\ pool' = (pool \ AtNonce(snd[s].nonce)) \cup {Own(s, t.v)}
    BY <1>4, <1>7, <2>1 DEF Accepted, Pooled
  <2>5. Running(y) /\ OnceTooLow(s, y)
    BY <2>3 DEF Running, OnceTooLow
  <2> QED
    BY <1>1, <1>2, <1>3, <2>3, <2>4, <2>5 DEF SteadyWork, queueVars
<1>8. ASSUME NEW b \in BOOLEAN, snd' = [snd EXCEPT ![s] = [x EXCEPT !.bump = b]], pool' = pool
      PROVE  SteadyWork(s)
  <2>1. PICK y : y = [x EXCEPT !.bump = b]
    OBVIOUS
  <2>2. /\ y \in Send /\ y.stage = "publish" /\ y.nonce = x.nonce /\ y.reserved = FALSE
        /\ y.minedTxs = x.minedTxs /\ y.watch = x.watch /\ y.tooLow = 0
    BY <1>1, <1>2, <2>1 DEF Send
  <2>3. Running(y) /\ OnceTooLow(s, y)
    BY <2>2 DEF Running, OnceTooLow
  <2> QED
    BY <1>5, <1>8, <2>1, <2>2, <2>3
<1> QED
  BY <1>3, <1>6, <1>7, <1>8 DEF Submit

LEMMA SteadyCheck ==
    ASSUME TypesInv, Steady, SafeAbortNonceTooLowCount >= 2,
           NEW s \in Sends, Check(s) \/ Tick(s)
    PROVE  SteadyWork(s)
<1>1. /\ snd[s] \in Send /\ Running(snd[s]) /\ snd[s].stage \in {"check", "select"}
      /\ snd[s].reserved = FALSE /\ OnceTooLow(s, snd[s])
      /\ snd[s].watch \cup snd[s].minedTxs # {}
  BY DEF TypesInv, SndTypes, Check, Tick, Running, Steady, Calm, TooLowOnce, Polling
<1>2. UNCHANGED <<nonce, closed, group, groupErr, killed, chain, pool>>
  BY DEF Check, Tick, queueVars, l1Vars
<1>3. CASE Check(s)
  <2>1. ASSUME NEW late \in BOOLEAN
        PROVE  ~CriticalError(snd[s], late)
    <3>1. ~TooMany(snd[s].tooLow)
      BY <1>1, TxMgrAssumption DEF TooMany, OnceTooLow
    <3>2. snd[s].minedTxs = {} => Published(snd[s])
      BY <1>1 DEF Published
    <3> QED
      BY <1>1, <3>1, <3>2 DEF CriticalError
  <2>2. PICK y : y = [snd[s] EXCEPT !.stage = "select"]
    OBVIOUS
  <2>3. snd' = [snd EXCEPT ![s] = y]
    <3>1. snd' = [snd EXCEPT ![s].stage = "select"]
      BY <1>3, <2>1 DEF Check
    <3> QED
      BY <2>2, <3>1 DEF TypesInv, SndTypes
  <2>4. /\ y \in Send /\ y.stage = "select" /\ y.nonce = snd[s].nonce /\ y.reserved = FALSE
        /\ y.minedTxs = snd[s].minedTxs /\ y.watch = snd[s].watch
        /\ y.tooLow = snd[s].tooLow
    BY <1>1, <2>2 DEF Send, Stages
  <2>5. Running(y) /\ OnceTooLow(s, y)
    BY <1>1, <2>4 DEF Running, OnceTooLow
  <2> QED
    BY <1>1, <1>2, <2>3, <2>4, <2>5 DEF SteadyWork
<1>4. CASE Tick(s)
  <2>1. /\ Polled(s) /\ snd[s].minedTxs = {}
        /\ snd' = [snd EXCEPT ![s].stage = "publish", ![s].bump = TRUE]
    BY <1>4 DEF Tick, Steady, Calm
  <2>2. snd[s].tooLow = 0
    <3>1. ASSUME NEW v \in Bumps, Mined(Own(s, v))
          PROVE  FALSE
      <4>1. v \in snd[s].watch
        BY <1>1, <2>1, <3>1, MinedWatched
      <4> QED
        BY <2>1, <3>1, <4>1 DEF Polled, Own
    <3> QED
      BY <1>1, <3>1 DEF OnceTooLow
  <2>3. PICK y : y = [snd[s] EXCEPT !.stage = "publish", !.bump = TRUE]
    OBVIOUS
  <2>4. snd' = [snd EXCEPT ![s] = y]
    BY <2>1, <2>3 DEF TypesInv, SndTypes
  <2>5. /\ y \in Send /\ y.stage = "publish" /\ y.nonce = snd[s].nonce /\ y.reserved = FALSE
        /\ y.minedTxs = snd[s].minedTxs /\ y.watch = snd[s].watch /\ y.tooLow = 0
    BY <1>1, <2>2, <2>3 DEF Send, Stages
  <2>6. Running(y) /\ OnceTooLow(s, y)
    BY <2>5 DEF Running, OnceTooLow
  <2> QED
    BY <1>1, <1>2, <2>4, <2>5, <2>6 DEF SteadyWork
<1> QED
  BY <1>3, <1>4

\* A send whose queries change what it has found, and not its stage.
LEMMA SteadyFinds ==
    ASSUME TypesInv, Steady, NEW s \in Sends, Running(snd[s]), NEW y \in Send,
           snd' = [snd EXCEPT ![s] = y], y.stage = snd[s].stage, y.nonce = snd[s].nonce,
           y.reserved = snd[s].reserved, y.tooLow \in {0, snd[s].tooLow},
           \A w \in y.minedTxs : w \in snd[s].minedTxs \/ Mined(Own(s, w)),
           snd[s].watch \cup snd[s].minedTxs \subseteq y.watch \cup y.minedTxs,
           UNCHANGED <<nonce, closed, queueVars, l1Vars>>
    PROVE  SteadyWork(s)
<1>1. /\ snd[s].reserved = FALSE /\ OnceTooLow(s, snd[s])
      /\ UNCHANGED <<nonce, closed, group, groupErr, killed, chain, pool>>
  BY DEF Steady, Calm, TooLowOnce, queueVars, l1Vars
<1>2. Running(y) /\ OnceTooLow(s, y)
  BY <1>1 DEF Running, OnceTooLow
<1>3. y.stage \in {"check", "select"} => y.watch \cup y.minedTxs # {}
  BY DEF Steady, Polling
<1> QED
  BY <1>1, <1>2, <1>3 DEF SteadyWork

LEMMA SteadyReceipt ==
    ASSUME TypesInv, Steady, NEW s \in Sends, Running(snd[s]), NEW v \in Bumps,
           TransactionReceipt(s, v)
    PROVE  SteadyWork(s)
<1>1. /\ snd[s] \in Send /\ v \in snd[s].watch
      /\ UNCHANGED <<nonce, closed, queueVars, l1Vars>>
  BY DEF TypesInv, SndTypes, TransactionReceipt
<1>2. CASE Mined(Own(s, v)) /\ snd' = [snd EXCEPT ![s].minedTxs = @ \cup {v}]
  <2>1. PICK y : y = [snd[s] EXCEPT !.minedTxs = @ \cup {v}]
    OBVIOUS
  <2>2. /\ y \in Send /\ y.stage = snd[s].stage /\ y.nonce = snd[s].nonce
        /\ y.minedTxs = snd[s].minedTxs \cup {v} /\ y.watch = snd[s].watch
        /\ y.tooLow = snd[s].tooLow /\ y.reserved = snd[s].reserved
    BY <1>1, <2>1 DEF Send
  <2>3. snd' = [snd EXCEPT ![s] = y]
    BY <1>2, <2>1 DEF TypesInv, SndTypes
  <2> QED
    BY <1>1, <1>2, <2>2, <2>3, SteadyFinds
<1>3. CASE snd' = [snd EXCEPT ![s] = NotMined(snd[s], v)]
  <2>1. PICK y : y = NotMined(snd[s], v)
    OBVIOUS
  <2>2. /\ y \in Send /\ y.stage = snd[s].stage /\ y.nonce = snd[s].nonce
        /\ y.minedTxs = snd[s].minedTxs \ {v} /\ y.watch = snd[s].watch
        /\ y.tooLow = (IF snd[s].minedTxs = {v} THEN 0 ELSE snd[s].tooLow)
        /\ y.reserved = snd[s].reserved
    BY <1>1, <2>1, NotMinedType
  <2>3. snd[s].watch \cup snd[s].minedTxs \subseteq y.watch \cup y.minedTxs
    BY <1>1, <2>2
  <2>4. snd' = [snd EXCEPT ![s] = y]
    BY <1>3, <2>1
  <2> QED
    BY <1>1, <2>2, <2>3, <2>4, SteadyFinds
<1> QED
  BY <1>2, <1>3 DEF TransactionReceipt, Own

LEMMA SteadyHeader ==
    ASSUME TypesInv, QueryInv, Steady, NEW s \in Sends, Running(snd[s]), NEW q \in queries,
           q.s = s, HeaderByNumber(q)
    PROVE  SteadyWork(s)
<1>1. /\ snd[s] \in Send /\ q.v \in snd[s].minedTxs /\ q.v \in Bumps
      /\ UNCHANGED <<nonce, closed, queueVars, l1Vars>>
  BY DEF TypesInv, SndTypes, HeaderByNumber, QueryInv, QueriesOk, QueryOk, QueryTypes, Query
<1>2. CASE snd' = [snd EXCEPT ![s] = Found(snd[s], q.v)]
  <2>1. PICK y : y = Found(snd[s], q.v)
    OBVIOUS
  <2>2. /\ y \in Send /\ y.stage = snd[s].stage /\ y.nonce = snd[s].nonce
        /\ y.minedTxs = snd[s].minedTxs /\ y.watch = snd[s].watch \ {q.v}
        /\ y.tooLow = snd[s].tooLow /\ y.reserved = snd[s].reserved
    BY <1>1, <2>1, FoundType
  <2>3. snd[s].watch \cup snd[s].minedTxs \subseteq y.watch \cup y.minedTxs
    BY <1>1, <2>2
  <2>4. snd' = [snd EXCEPT ![s] = y]
    BY <1>2, <2>1
  <2> QED
    BY <1>1, <2>2, <2>3, <2>4, SteadyFinds
<1>3. CASE snd' = snd
  <2>1. snd' = [snd EXCEPT ![s] = snd[s]]
    BY <1>3 DEF TypesInv, SndTypes
  <2> QED
    BY <1>1, <2>1, SteadyFinds
<1> QED
  BY <1>2, <1>3 DEF HeaderByNumber

\* The steps that no fault takes part in.
SteadyKind ==
    \/ UNCHANGED vars \/ (\E k \in 0..MaxPending : L1Block(k))
    \/ GroupContext \/ Go
    \/ \E s \in Sends : Craft(s) \/ SteadyWork(s) \/ ReceiveReceipt(s)

LEMMA SteadyKinds ==
    ASSUME TypesInv, QueryInv, TxOfSend, Steady, SafeAbortNonceTooLowCount >= 2,
           [Next]_vars, ~Fault
    PROVE  SteadyKind
<1>1. ~L1Reorg /\ ~L1Evict /\ ~Kill /\ ~Close /\ \A s \in Sends : ~SignError(s)
  BY DEF L1Reorg, L1Evict, Kill, Close, SignError
<1>2. \A s \in Sends : ~CraftError(s) /\ ~CtxDone(s) /\ ~ResetNonce(s) /\ ~Leave(s)
  BY DEF CraftError, CtxDone, ResetNonce, Leave, Steady, Calm
<1>3. ASSUME NEW s \in Sends, SendStep(s)
      PROVE  SteadyKind
  BY <1>2, <1>3, SteadySkip, SteadyPublish, SteadyCheck DEF SendStep, SteadyKind
<1>4. ASSUME NEW s \in Sends, QueryReceipt(s)
      PROVE  SteadyKind
  BY <1>4, SteadyReceipt, SteadyHeader DEF QueryReceipt, SteadyKind
<1>6. \A q \in queries : ~TipError(q)
  BY DEF TipError, Answered, Steady, Calm
<1>5. CASE \/ UNCHANGED vars \/ (\E k \in 0..MaxPending : L1Block(k)) \/ GroupContext \/ Go
  BY <1>5 DEF SteadyKind
<1> QED
  BY <1>1, <1>3, <1>4, <1>5, <1>6 DEF Next

\* A step that changes no send, and no nonce, and drops nothing that is mined.
LEMMA SteadyIdle ==
    ASSUME TypesInv, Steady, UNCHANGED <<snd, nonce, closed, killed>>, groupErr' \in {groupErr, FALSE},
           Txs' \subseteq Txs, \A t : Mined(t) => Mined(t)'
    PROVE  Steady'
<1>1. Calm'
  BY DEF Steady, Calm
<1>2. ASSUME NEW s \in Sends, NEW v, Mined(Own(s, v))
      PROVE  Mined(Own(s, v))'
  <2>1. PICK t : t = Own(s, v)
    OBVIOUS
  <2>2. Mined(t)' /\ Own(s, v)' = t
    BY <1>2, <2>1 DEF Own
  <2> QED
    BY <2>2 DEF Mined
<1>3. MinedSeen'
  BY <1>2 DEF Steady, MinedSeen, Running
<1>4. Watched'
  BY DEF Steady, Watched, Kept, Running
<1>5. Polling'
  BY DEF Steady, Polling
<1>6. TooLowOnce'
  BY <1>2 DEF Steady, TooLowOnce, OnceTooLow, Running
<1>7. KeptNonces'
  BY DEF Steady, KeptNonces, Kept, Running
<1> QED
  BY <1>1, <1>3, <1>4, <1>5, <1>6, <1>7 DEF Steady

LEMMA SteadyBlock ==
    ASSUME TypesInv, Steady, NEW k \in 0..MaxPending, L1Block(k)
    PROVE  Steady'
<1>1. /\ chain' \in Seq(Entry) /\ Len(chain') = Latest + k
      /\ \A i \in 1..Latest : chain'[i].tx = chain[i].tx
  BY BlockEffect DEF TypesInv
<1>2. DOMAIN chain' = 1..(Latest + k) /\ 1..Latest \subseteq 1..(Latest + k)
  BY <1>1, ChainValues
<1>3. \A t : Mined(t) => Mined(t)'
  BY <1>1, <1>2, ChainValues DEF Mined
<1>4. Txs' \subseteq Txs
  <2>1. \A i \in (Latest + 1)..(Latest + k) : chain'[i].tx \in pool
    BY BlockEffect DEF TypesInv, AtNonce
  <2>2. \A i \in 1..Latest : chain'[i].tx \in Txs
    BY <1>1, ChainValues DEF Txs
  <2>3. \A i \in 1..(Latest + k) : chain'[i].tx \in Txs
    BY <2>1, <2>2, ChainValues DEF Txs
  <2>4. pool' \subseteq pool
    BY DEF L1Block
  <2> QED
    BY <1>2, <2>3, <2>4 DEF Txs
<1>5. UNCHANGED <<snd, nonce, closed, killed>> /\ groupErr' = groupErr
  BY DEF L1Block, queueVars
<1> QED
  BY <1>3, <1>4, <1>5, SteadyIdle

\* A step of send s, which becomes y.
LEMMA SteadySend ==
    ASSUME TypesInv, Steady, NEW s \in Sends, NEW y \in Send, snd' = [snd EXCEPT ![s] = y],
           chain' = chain, UNCHANGED <<closed, groupErr, killed>>,
           y.stage \notin {"reset", "erred", "failed"}, y.reserved = FALSE,
           Running(y) => \A v \in y.minedTxs : Mined(Own(s, v))',
           \A t \in Txs' :
              IF t.s = s THEN Kept(y) /\ (Running(y) => t.v \in y.watch \cup y.minedTxs)
                         ELSE t \in Txs,
           y.stage \in {"check", "select"} => y.watch \cup y.minedTxs # {},
           Running(y) => OnceTooLow(s, y)',
           KeptNonces'
    PROVE  Steady'
<1>1. snd'[s] = y /\ \A r \in Sends : r # s => snd'[r] = snd[r]
  BY DEF TypesInv, SndTypes
<1>2. Calm'
  BY <1>1 DEF Steady, Calm
<1>3. ASSUME NEW r \in Sends, r # s, NEW v
      PROVE  Mined(Own(r, v))' <=> Mined(Own(r, v))
  BY <1>1, <1>3 DEF Mined, Own
<1>4. MinedSeen'
  BY <1>1, <1>3 DEF Steady, MinedSeen, Running
<1>5. Watched'
  <2> SUFFICES ASSUME NEW t \in Txs'
               PROVE  /\ Kept(snd[t.s])'
                      /\ Running(snd[t.s])' => t.v \in snd'[t.s].watch \cup snd'[t.s].minedTxs
    BY DEF Watched
  <2>1. CASE t.s = s
    BY <1>1, <2>1 DEF Kept, Running
  <2>2. CASE t.s # s
    <3>1. t \in Txs
      BY <2>2
    <3>2. snd'[t.s] = snd[t.s]
      BY <1>1, <2>2, <3>1, TxsTypes
    <3> QED
      BY <3>1, <3>2 DEF Steady, Watched, Kept, Running
  <2> QED
    BY <2>1, <2>2
<1>6. Polling'
  BY <1>1 DEF Steady, Polling
<1>7. TooLowOnce'
  <2>1. ASSUME NEW r \in Sends, r # s, Running(snd[r])
        PROVE  OnceTooLow(r, snd[r])'
    <3>1. OnceTooLow(r, snd[r]) /\ snd'[r] = snd[r]
      BY <1>1, <2>1 DEF Steady, TooLowOnce
    <3> QED
      BY <1>3, <2>1, <3>1 DEF OnceTooLow
  <2>2. Running(y) => OnceTooLow(s, snd[s])'
    BY <1>1 DEF OnceTooLow
  <2> QED
    BY <1>1, <2>1, <2>2 DEF TooLowOnce, Running
<1> QED
  BY <1>2, <1>4, <1>5, <1>6, <1>7 DEF Steady

\* KeptNonces only looks at the nonces of the sends that have one.
LEMMA KeptStep ==
    ASSUME TypesInv, Steady, UNCHANGED nonce, NEW s \in Sends, NEW y \in Send,
           snd' = [snd EXCEPT ![s] = y], Kept(y) => Kept(snd[s]) /\ y.nonce = snd[s].nonce
    PROVE  KeptNonces'
<1>1. snd'[s] = y /\ \A r \in Sends : r # s => snd'[r] = snd[r]
  BY DEF TypesInv, SndTypes
<1>2. \A r \in Sends : Kept(snd'[r]) => Kept(snd[r]) /\ snd'[r].nonce = snd[r].nonce
  BY <1>1
<1>3. \A r \in Sends : Kept(snd[r])' <=> Kept(snd'[r])
  BY DEF Kept, Running
<1> HIDE DEF Kept
<1> QED
  BY <1>2, <1>3 DEF Steady, KeptNonces

LEMMA SteadyStep ==
    ASSUME TypesInv, QueueInv, TxOfSend, Steady, SteadyKind
    PROVE  Steady'
<1>1. SndTypes /\ \A r \in Sends : snd[r] \in Send
  BY DEF TypesInv, SndTypes
<1>2. CASE UNCHANGED vars \/ GroupContext
  <2>1. UNCHANGED <<snd, nonce, closed, killed, chain, pool>> /\ groupErr' \in {groupErr, FALSE}
    BY <1>2 DEF vars, queueVars, l1Vars, GroupContext, Steady, Calm
  <2>2. Txs' \subseteq Txs /\ \A t : Mined(t) => Mined(t)'
    BY <2>1 DEF Txs, Mined
  <2> QED
    BY <2>1, <2>2, SteadyIdle
<1>3. ASSUME UNCHANGED l1Vars
      PROVE  Txs' = Txs /\ chain' = chain
  BY <1>3 DEF Txs, l1Vars
<1>4. CASE Go
  <2>1. PICK s \in Sends : s = next
    BY <1>4, TxMgrAssumption DEF Go, TypesInv, GroupTypes, Sends
  <2>2. PICK y : y = [snd[s] EXCEPT !.stage = "craft"]
    OBVIOUS
  <2>3. /\ snd' = [snd EXCEPT ![s] = y] /\ UNCHANGED <<nonce, closed, groupErr, killed, l1Vars>>
        /\ snd[s].stage = "new"
    BY <1>4, <2>1, <2>2 DEF Go, Steady, Calm, QueueInv, NextNew
  <2>4. y \in Send /\ y.stage = "craft" /\ y.reserved = FALSE
    BY <1>1, <2>2 DEF Send, Stages, Steady, Calm
  <2>5. ~Running(y) /\ ~Kept(y)
    BY <2>4 DEF Running, Kept
  <2>6. \A t \in Txs' : t \in Txs /\ t.s # s
    BY <1>3, <2>3 DEF TxOfSend
  <2>7. KeptNonces'
    BY <2>3, <2>4, <2>5, KeptStep
  <2> QED
    BY <1>3, <2>3, <2>4, <2>5, <2>6, <2>7, SteadySend
<1>5. ASSUME NEW s \in Sends, Craft(s)
      PROVE  Steady'
  <2>1. PICK N : N = NextNonce
    OBVIOUS
  <2>2. PICK y : y = [snd[s] EXCEPT !.stage = "publish", !.nonce = N]
    OBVIOUS
  <2>3. /\ snd' = [snd EXCEPT ![s] = y] /\ UNCHANGED <<closed, groupErr, killed, l1Vars>>
        /\ snd[s].stage = "craft" /\ nonce' = {N} /\ N \in Nat
    BY <1>1, <1>5, <2>1, <2>2, NextNonceType DEF Craft, queueVars, SndTypes, TypesInv
  <2>4. /\ y \in Send /\ y.stage = "publish" /\ y.reserved = FALSE /\ y.nonce = N
        /\ y.minedTxs = {} /\ y.tooLow = 0
    BY <1>1, <2>2, <2>3 DEF Send, Stages, QueueInv, Fresh, NothingPublished
  <2>5. \A t \in Txs' : t \in Txs /\ t.s # s
    BY <1>3, <2>3 DEF TxOfSend
  <2>6. OnceTooLow(s, y)'
    BY <2>4 DEF OnceTooLow
  <2>7. snd'[s] = y /\ \A r \in Sends : r # s => snd'[r] = snd[r]
    BY <1>1, <2>3 DEF SndTypes
  <2>8. ASSUME NEW r \in Sends, Kept(snd[r])
        PROVE  snd[r].nonce < N /\ r # s
    <3>1. PICK n \in nonce : TRUE
      BY <2>8 DEF Steady, KeptNonces
    <3>2. n \in Int /\ N = n + 1 /\ snd[r].nonce <= n /\ snd[r].nonce \in Nat
      BY <1>1, <2>1, <2>8, <3>1, NonceValue DEF Steady, KeptNonces, Send
    <3> QED
      BY <2>3, <2>8, <3>2 DEF Kept, Running
  <2>9. \A r \in Sends : Kept(snd[r])' <=> Kept(snd'[r])
    BY DEF Kept, Running
  <2>10. KeptNonces'
    <3>1. \A r \in Sends : Kept(snd'[r]) => r = s \/ (Kept(snd[r]) /\ snd'[r] = snd[r])
      BY <2>7
    <3>2. \A r \in Sends : Kept(snd'[r]) /\ r # s => snd'[r].nonce < N
      BY <2>8, <3>1
    <3>3. \A r \in Sends : snd[r].nonce \in Nat
      BY <1>1 DEF Send
    <3>4. ASSUME NEW r \in Sends, Kept(snd'[r])
          PROVE  snd'[r].nonce <= N
      <4>1. CASE r = s
        BY <2>3, <2>4, <2>7, <4>1
      <4>2. CASE r # s
        BY <2>3, <2>7, <3>2, <3>3, <3>4, <4>2
      <4> QED
        BY <4>1, <4>2
    <3>5. ASSUME NEW r \in Sends, NEW u \in Sends, Kept(snd'[r]), Kept(snd'[u]), r # u
          PROVE  snd'[r].nonce # snd'[u].nonce
      <4>1. CASE r = s
        BY <2>3, <2>4, <2>7, <3>2, <3>3, <3>5, <4>1
      <4>2. CASE u = s
        BY <2>3, <2>4, <2>7, <3>2, <3>3, <3>5, <4>2
      <4>3. CASE r # s /\ u # s
        BY <2>7, <3>1, <3>5, <4>3 DEF Steady, KeptNonces
      <4> QED
        BY <4>1, <4>2, <4>3
    <3>6. nonce' # {} /\ \A n \in nonce' : n = N
      BY <2>3
    <3> QED
      BY <2>9, <3>4, <3>5, <3>6 DEF KeptNonces
  <2> QED
    BY <1>3, <2>3, <2>4, <2>5, <2>6, <2>10, SteadySend
<1>6. ASSUME NEW s \in Sends, SteadyWork(s)
      PROVE  Steady'
  <2>1. Running(snd[s]) /\ UNCHANGED <<nonce, closed, group, groupErr, killed, chain>>
    BY <1>6 DEF SteadyWork
  <2>2. PICK y \in Send :
          /\ snd' = [snd EXCEPT ![s] = y]
          /\ Running(y) /\ y.nonce = snd[s].nonce /\ y.reserved = FALSE
          /\ \A v \in y.minedTxs : v \in snd[s].minedTxs \/ Mined(Own(s, v))
          /\ snd[s].watch \cup snd[s].minedTxs \subseteq y.watch \cup y.minedTxs
          /\ y.stage \in {"check", "select"} => y.watch \cup y.minedTxs # {}
          /\ OnceTooLow(s, y)
          /\ \/ pool' = pool
             \/ \E v \in y.watch : pool' = (pool \ AtNonce(snd[s].nonce)) \cup {Own(s, v)}
    BY <1>6 DEF SteadyWork
  <2>3. snd'[s] = y
    BY <1>1, <2>2 DEF SndTypes
  <2>4. \A v : Mined(Own(s, v)) => Mined(Own(s, v))'
    BY <2>1, <2>2, <2>3 DEF Mined, Own
  <2>5. \A v \in y.minedTxs : Mined(Own(s, v))'
    BY <2>1, <2>2, <2>4 DEF Steady, MinedSeen
  <2>6. OnceTooLow(s, y)'
    BY <2>2, <2>4 DEF OnceTooLow
  <2>7. \A t \in Txs' : t \in Txs \/ \E v \in y.watch : t = Own(s, v)
    BY <2>1, <2>2 DEF Txs
  <2>8. ASSUME NEW t \in Txs'
        PROVE  IF t.s = s THEN Kept(y) /\ (Running(y) => t.v \in y.watch \cup y.minedTxs)
                          ELSE t \in Txs
    <3>1. Kept(y)
      BY <2>2 DEF Kept
    <3>2. CASE t \in Txs
      <4>1. t.s = s => t.v \in snd[s].watch \cup snd[s].minedTxs
        BY <2>1, <3>2 DEF Steady, Watched
      <4> QED
        BY <2>2, <3>1, <3>2, <4>1
    <3>3. ASSUME NEW v \in y.watch, t = Own(s, v)
          PROVE  t.s = s /\ t.v \in y.watch
      BY <3>3 DEF Own
    <3> QED
      BY <2>7, <3>1, <3>2, <3>3
  <2>9. y.stage \notin {"reset", "erred", "failed"} /\ Kept(snd[s])
    BY <2>1, <2>2 DEF Running, Kept
  <2>10. KeptNonces'
    BY <2>1, <2>2, <2>9, KeptStep
  <2> QED
    BY <2>1, <2>2, <2>5, <2>6, <2>8, <2>9, <2>10, SteadySend
<1>7. ASSUME NEW s \in Sends, ReceiveReceipt(s)
      PROVE  Steady'
  <2>1. PICK y : y = Returned(snd[s])
    OBVIOUS
  <2>2. /\ snd' = [snd EXCEPT ![s] = y] /\ UNCHANGED <<nonce, closed, groupErr, killed, l1Vars>>
        /\ Running(snd[s])
    BY <1>7, <2>1 DEF ReceiveReceipt, Running
  <2>3. y \in Send /\ y.stage = "confirmed" /\ y.nonce = snd[s].nonce /\ y.reserved = FALSE
    BY <1>1, <2>1, ReturnedType
  <2>4. ~Running(y) /\ Kept(y) /\ Kept(snd[s])
    BY <2>2, <2>3 DEF Running, Kept
  <2>5. KeptNonces'
    BY <2>2, <2>3, <2>4, KeptStep
  <2> QED
    BY <1>3, <2>2, <2>3, <2>4, <2>5, SteadySend
<1> QED
  BY <1>2, <1>4, <1>5, <1>6, <1>7, SteadyBlock DEF SteadyKind

SteadyInv == faults = 0 => Steady

\* Concurrent sends fail by a fault only: no send takes its own mined transaction for
\* another one that has used its nonce (CriticalError).  A threshold of one would break
\* this: a transaction mined between the tick and the next attempt is refused as too low
\* before its receipt has been polled.
THEOREM FailsOnlyByFaultTheorem ==
    SafeAbortNonceTooLowCount >= 2 => (Spec => []FailsOnlyByFault)
<1> SUFFICES ASSUME SafeAbortNonceTooLowCount >= 2
             PROVE  Spec => []FailsOnlyByFault
  OBVIOUS
<1>1. Init => SteadyInv
  <2> SUFFICES ASSUME Init PROVE Steady
    BY DEF SteadyInv
  <2>1. NoSend.stage = "new" /\ NoSend.reserved = FALSE
    BY DEF NoSend
  <2>2. \A s \in Sends : snd[s] = NoSend
    BY DEF Init
  <2>3. ~Running(NoSend) /\ ~Kept(NoSend)
    BY <2>1 DEF Running, Kept
  <2>4. Txs = {}
    BY DEF Init, Txs
  <2> QED
    BY <2>1, <2>2, <2>3, <2>4
    DEF Init, Steady, Calm, MinedSeen, Watched, Polling, TooLowOnce, KeptNonces
<1>2. TypesInv /\ QueueInv /\ QueryInv /\ TxOfSend /\ SteadyInv /\ [Next]_vars => SteadyInv'
  <2> SUFFICES ASSUME TypesInv, QueueInv, QueryInv, TxOfSend, SteadyInv, [Next]_vars,
                      faults' = 0
               PROVE  Steady'
    BY DEF SteadyInv
  <2>1. \/ faults' = faults
        \/ Fault
    BY FaultsStep
  <2>2. ~Fault /\ faults = 0
    BY <2>1 DEF Fault, TypesInv, FaultTypes
  <2>3. SteadyKind
    BY <2>2, SteadyKinds DEF SteadyInv
  <2> QED
    BY <2>2, <2>3, SteadyStep DEF SteadyInv
<1>3. SteadyInv => FailsOnlyByFault
  BY DEF SteadyInv, Steady, Calm, FailsOnlyByFault
<1> QED
  BY <1>1, <1>2, <1>3, GapAlways, PTL DEF Spec
=============================================================================
