-------------------------- MODULE MCUnsafePayloads --------------------------
(* UnsafePayloads for TLC: a small tree of blocks and the sizes of their payloads. *)
EXTENDS UnsafePayloads

\* A chain of three blocks with another block at the second and the third number.
MCBlocks == {<<>>, <<1>>, <<1, 1>>, <<1, 2>>, <<1, 1, 1>>, <<1, 2, 1>>}

\* One block alone may reach the limit.
MCSize == [b \in MCBlocks |-> IF b = <<1, 1>> THEN 3 ELSE 1]

\* Blocks the engine calls INVALID: none, or the large one.
MCNoInvalid == {}
MCInvalid == {<<1, 1>>}
=============================================================================
