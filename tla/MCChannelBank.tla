---------------------------- MODULE MCChannelBank ----------------------------
(* ChannelBank for TLC: two channels of the batcher and one with odd frames. *)
EXTENDS ChannelBank

MCSent == [c \in {"a", "b"} |-> IF c = "a" THEN 2 ELSE 1]
MCIrregular == {"x"}
\* A closing frame that prunes the frame past it and keeps the one before it.
MCOtherFrames == {[ch |-> "x", num |-> n, last |-> n = 1] : n \in 0..2}
=============================================================================
