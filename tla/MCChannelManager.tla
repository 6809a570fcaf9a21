-------------------------- MODULE MCChannelManager --------------------------
(***************************************************************************)
(* ChannelManager (with CloseLoop) for TLC: the L1 origins as a function.  *)
(***************************************************************************)
EXTENDS CloseLoop

\* Two L2 blocks per L1 origin, the first origin being L1 block 1.
MCL1Origin == [b \in 1..MaxBlock |-> (b + 1) \div 2]

\* On every queue of up to six channels exactly one set satisfies Swept, and it is
\* what the loop removes; ChannelManagerProofs!SweptIsLoop says it of every queue.
ASSUME SweptInstances ==
    \A n \in 0..6 : \A N \in SUBSET (1..n) :
        {R \in SUBSET (1..n) : Swept(R, 1..n, N)}
            = {(1..n) \ LeftByLoop([k \in 1..n |-> k], N)}
=============================================================================
