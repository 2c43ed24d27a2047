------------------------- MODULE MCVariantEvents -------------------------
(* VariantEvents for TLC: two variants of one asset. *)
EXTENDS VariantEvents, TLC

CONSTANTS v1, v2, c1, c2

Swaps == Permutations({c1, c2}) \cup Permutations({v1, v2})
==========================================================================
