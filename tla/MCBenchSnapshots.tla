------------------------ MODULE MCBenchSnapshots ------------------------
(* BenchSnapshots for TLC: payloads at the thresholds, in hundredths. *)
EXTENDS BenchSnapshots, TLC

CONSTANTS equal, top20, b1, b2, c1, c2, spy, qqq

Flat      == [s \in {spy, qqq} |-> 0]
Better    == [s \in {spy, qqq} |-> 3]
Uneven    == (spy :> -10) @@ (qqq :> 16)

ThresholdPayloads == {Flat, Better, Uneven}

Swaps == Permutations({c1, c2}) \cup Permutations({equal, top20})
=============================================================================
