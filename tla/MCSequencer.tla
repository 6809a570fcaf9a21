---------------------------- MODULE MCSequencer -----------------------------
(* Sequencer for TLC: a tree of blocks up to number 3. *)
EXTENDS Sequencer
MCBlocks == {<<>>, <<0>>, <<1>>, <<2>>, <<0, 1>>, <<1, 0>>, <<1, 1>>, <<1, 1, 0>>}
=============================================================================
