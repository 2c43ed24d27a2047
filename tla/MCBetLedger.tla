---------------------------- MODULE MCBetLedger ----------------------------
(* BetLedger for TLC: limits and balances scaled down, so that a few requests *)
(* reach them. *)
EXTENDS BetLedger, TLC

CONSTANTS r1, r2, c1, c2

LossesAndGains == {-2, -1, 1}
FullLossOrGain == {-1, 1}
SomeAdjustments == {-1, 2}

\* Runs and clients are alike.
Swaps == Permutations(Runs) \cup Permutations(Clients)
=============================================================================
