----------------------- MODULE MCStrategyBacktest -----------------------
(* StrategyBacktest for TLC: closes around the 3% stop, scores around the
   threshold. *)
EXTENDS StrategyBacktest

CONSTANTS spy, qqq

TwoSymbols == <<spy, qqq>>

Bought  == [close |-> 100, score |-> 2, conviction |-> 15]
Sold    == [close |-> 96, score |-> -3, conviction |-> 14]
Neither == [close |-> 97, score |-> 0, conviction |-> 0]

SomeBars == {Bought, Sold, Neither}
=============================================================================
