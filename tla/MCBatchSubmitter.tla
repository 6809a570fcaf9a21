-------------------------- MODULE MCBatchSubmitter --------------------------
(***************************************************************************)
(* BatchSubmitter for TLC: the L1 origins as a function.                   *)
(***************************************************************************)
EXTENDS BatchSubmitter

\* All blocks of the small chain have the first L1 block as origin.
MCL1Origin == [b \in 1..MaxBlock |-> 1]
=============================================================================
