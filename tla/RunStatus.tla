----------------------------- MODULE RunStatus -----------------------------
(***************************************************************************)
(* The status column of a SimulationRun row and the guard that             *)
(* packages/db/src/set-run-status.ts puts in the WHERE clause of its       *)
(* updates.  RunRow (the whole row) and RunQueue (the queue around it) are *)
(* both built on these operators.                                          *)
(***************************************************************************)

Statuses == {"PENDING", "RUNNING", "COMPLETED", "FAILED"}

\* where: { status: { in: ["PENDING", "RUNNING"] } }
InFlight == {"PENDING", "RUNNING"}

\* Mutation: no status in the WHERE clause.
AfterRunningAlways(s) == "RUNNING"

\* setRunStatus(RUNNING): updateMany matches no row once the run has settled.
AfterRunning(s) == IF s \in InFlight THEN "RUNNING" ELSE s

\* setRunStatus(COMPLETED): same guard.
AfterCompleted(s) == IF s \in InFlight THEN "COMPLETED" ELSE s

\* setRunStatus(FAILED): the WHERE clause names the id only.
AfterFailed(s) == "FAILED"

\* retryRun: an unconditional update, whatever the status has become since
\* the handler read it.
AfterRetry(s) == "PENDING"
=============================================================================
