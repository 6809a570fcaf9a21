----------------------------- MODULE BlockTree ------------------------------
(***************************************************************************)
(* The L2 blocks of op-node's modules UnsafePayloads and Sequencer.  The   *)
(* hash of a block commits to its ancestors, so a block is the path to it  *)
(* from genesis, <<>>.                                                     *)
(***************************************************************************)
EXTENDS Integers, Sequences

CONSTANT Blocks  \* the L2 blocks, all branches

Number(b) == Len(b)
Parent(b) == SubSeq(b, 1, Len(b) - 1)
GenesisL2 == <<>>

\* Block a is b or an ancestor of b.
IsAncestor(a, b) == Number(a) <= Number(b) /\ SubSeq(b, 1, Number(a)) = a

ASSUME BlocksAssumption ==
    /\ Blocks \subseteq Seq(Nat) /\ GenesisL2 \in Blocks
    /\ \A b \in Blocks : b # GenesisL2 => Parent(b) \in Blocks
=============================================================================
