---------------------------- MODULE MCRunRow ----------------------------
(* RunRow for TLC: two overlapping handlers and three instants. *)
EXTENDS RunRow, TLC

CONSTANTS c1, c2

Symmetry == Permutations({c1, c2})
=============================================================================
