------------------------------ MODULE MCSimRun ------------------------------
(* SimRun for TLC: one agent that buys whenever it may, one that never does. *)
EXTENDS SimRun, TLC

CONSTANTS keen, calm, c1, c2

Swaps == Permutations({c1, c2})
=============================================================================
