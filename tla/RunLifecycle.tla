--------------------------- MODULE RunLifecycle ---------------------------
(***************************************************************************)
(* What the life of one SimulationRun is meant to be, as the doc comments  *)
(* of set-run-status.ts and runs.service.ts tell it: a run starts once it  *)
(* is PENDING, settles as COMPLETED or FAILED, only a FAILED run is        *)
(* retried, and only a FAILED run is amended to COMPLETED by an operator.  *)
(* RunRow and RunQueue are shown to implement it while requests do not     *)
(* overlap.                                                                *)
(***************************************************************************)
VARIABLE status

Init == status = "PENDING"

Start    == status = "PENDING" /\ status' = "RUNNING"

Complete == status \in {"PENDING", "RUNNING"} /\ status' = "COMPLETED"

\* A late worker failure may still land on a COMPLETED run.
Fail     == status # "FAILED" /\ status' = "FAILED"

Retry    == status = "FAILED" /\ status' = "PENDING"

Amend    == status = "FAILED" /\ status' = "COMPLETED"

Next == Start \/ Complete \/ Fail \/ Retry \/ Amend

Spec == Init /\ [][Next]_status
=============================================================================
