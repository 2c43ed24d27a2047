--------------------------- MODULE MCScenarioView ---------------------------
(* ScenarioView for TLC: the two seeds of a run. *)
EXTENDS ScenarioView

CONSTANTS v1, v2
=============================================================================
