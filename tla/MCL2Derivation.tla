--------------------------- MODULE MCL2Derivation ---------------------------
(* Model checking of L2Derivation; the configurations give the bounds. *)
EXTENDS L2Derivation
=============================================================================
