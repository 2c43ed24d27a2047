------------------------ MODULE MCBacktestWorker ------------------------
(* BacktestWorker for TLC: a run imported for one asset. *)
EXTENDS BacktestWorker, TLC

CONSTANTS spy, w1, w2

OneAsset == <<spy>>

\* Processes are alike.
Swaps == Permutations(Workers)
=============================================================================
