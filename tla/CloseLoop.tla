----------------------------- MODULE CloseLoop -----------------------------
(***************************************************************************)
(* The loop of channelManager.Close, array cell by array cell.  That       *)
(* ChannelManager!Swept describes what it removes is a theorem of          *)
(* ChannelManagerProofs.                                                   *)
(***************************************************************************)
EXTENDS ChannelManager

\* removePendingChannel on the slice a[1..m] of a backing array: the cells after the
\* removed one move down by one, the last cell keeps its value.
RemoveFromArray(s, c) ==
    IF \A k \in 1..s.m : s.a[k] # c THEN s
    ELSE LET p == CHOOSE k \in 1..s.m : s.a[k] = c
         IN  [a |-> [k \in DOMAIN s.a |-> IF p <= k /\ k < s.m THEN s.a[k + 1] ELSE s.a[k]],
              m |-> s.m - 1]

\* The loop reads the i-th cell of the array: N is the set of channels with nothing
\* submitted.
LoopStep(s, i, N) == IF s.a[i] \in N THEN RemoveFromArray(s, s.a[i]) ELSE s

\* What is left of queue q after the loop, which takes as many steps as q had channels
\* when it began.
LeftByLoop(q, N) ==
    LET scan[i \in 0..Len(q)] ==
            IF i = 0 THEN [a |-> q, m |-> Len(q)] ELSE LoopStep(scan[i - 1], i, N)
    IN  {scan[Len(q)].a[k] : k \in 1..scan[Len(q)].m}
=============================================================================
