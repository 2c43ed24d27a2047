------------------------------ MODULE RunRow ------------------------------
(***************************************************************************)
(* One row of table SimulationRun and every handler that writes its status *)
(* and audit columns:                                                      *)
(*   - setRunStatus (packages/db/src/set-run-status.ts), called by the     *)
(*     queue, by the backtest worker and by the sim scripts;               *)
(*   - updateRunStatus, PATCH /runs/:runId/status;                         *)
(*   - retryRun, POST /runs/:id/retry.                                     *)
(* Each of them reads the row and, after an await, writes it: other        *)
(* handlers may run in between, so each handler is two actions, Read and   *)
(* Write, and the write uses what the read saw.  Columns hold the value of *)
(* a clock, or Null.                                                       *)
(***************************************************************************)
EXTENDS Naturals, RunStatus

CONSTANTS Handlers,  \* concurrent handlers (HTTP requests, queue, worker)
          MaxTime,   \* bound on the clock
          Null       \* a column that is NULL

\* lastError: a message passed by the caller, or the "unknown error" default.
Messages == {"given", "unknown"}

ASSUME TimeAssumption == MaxTime \in Nat
ASSUME NullAssumption == Null \notin Nat /\ Null \notin Messages

NoCall == [op |-> "none"]

\* What a handler is asked to do; PATCH accepts COMPLETED and FAILED only,
\* and no caller of setRunStatus passes PENDING.
SetOps   == {"SET_RUNNING", "SET_COMPLETED", "SET_FAILED"}
PatchOps == {"PATCH_COMPLETED", "PATCH_FAILED"}
Ops      == SetOps \cup PatchOps \cup {"RETRY"}

Times == 0 .. MaxTime
Rows == [status      : Statuses,
         startedAt   : Times \cup {Null},
         finishedAt  : Times \cup {Null},
         completedAt : Times \cup {Null},
         failedAt    : Times \cup {Null},
         lastError   : Messages \cup {Null}]

Calls == {NoCall} \cup
         [op : Ops, seen : Rows, at : Times, err : {"given", Null}]

VARIABLES row,    \* the row in Postgres
          now,    \* the clock behind new Date()
          call    \* per client: the handler in progress

rowVars == <<row, now, call>>

RowTypeOK == /\ row \in Rows
             /\ now \in Times
             /\ call \in [Handlers -> Calls]

RowInit == /\ row = [status |-> "PENDING", startedAt |-> Null, finishedAt |-> Null,
                     completedAt |-> Null, failedAt |-> Null, lastError |-> Null]
           /\ now = 0
           /\ call = [c \in Handlers |-> NoCall]

\* a ?? b
OrElse(a, b) == IF a = Null THEN b ELSE a

-----------------------------------------------------------------------------
(* The rows the updates leave.  cur is the row the update finds, seen the  *)
(* one the handler read before.                                            *)

\* Variations the mutation runs put in place of the updates.
SetRunningUnguarded(cur, seen, at) ==
    [cur EXCEPT !.status = "RUNNING", !.startedAt = OrElse(seen.startedAt, at),
                !.completedAt = Null, !.failedAt = Null, !.lastError = Null]
SetFailedKeepsCompletedAt(cur, seen, at, err) ==
    [cur EXCEPT !.status = "FAILED", !.failedAt = at,
                !.lastError = OrElse(err, "unknown"),
                !.startedAt = OrElse(seen.startedAt, at)]
PatchCompletedRestamps(cur, seen, at) ==
    [cur EXCEPT !.status = "COMPLETED", !.completedAt = at, !.failedAt = Null,
                !.lastError = Null, !.startedAt = OrElse(seen.startedAt, at)]
PatchCompletedUnmapped(cur, seen, at) ==
    [cur EXCEPT !.status = "FINISHED", !.completedAt = OrElse(seen.completedAt, at),
                !.failedAt = Null, !.lastError = Null]

SetRunning(cur, seen, at) ==
    IF cur.status \in InFlight
    THEN [cur EXCEPT !.status = "RUNNING",
                     !.startedAt = OrElse(seen.startedAt, at),
                     !.completedAt = Null, !.failedAt = Null, !.lastError = Null]
    ELSE cur

SetCompleted(cur, seen, at) ==
    IF cur.status \in InFlight
    THEN [cur EXCEPT !.status = "COMPLETED",
                     !.finishedAt = at, !.completedAt = at,
                     !.startedAt = OrElse(seen.startedAt, at),
                     !.failedAt = Null, !.lastError = Null]
    ELSE cur

SetFailed(cur, seen, at, err) ==
    [cur EXCEPT !.status = AfterFailed(cur.status),
                !.failedAt = at, !.completedAt = Null,
                !.lastError = OrElse(err, "unknown"),
                !.startedAt = OrElse(seen.startedAt, at)]

\* updateRunStatus(COMPLETED): keeps completedAt and startedAt as read.
PatchCompleted(cur, seen, at) ==
    [cur EXCEPT !.status = "COMPLETED",
                !.completedAt = OrElse(seen.completedAt, at),
                !.failedAt = Null, !.lastError = Null,
                !.startedAt = OrElse(seen.startedAt, at)]

\* updateRunStatus(FAILED): keeps failedAt as read, and lastError unless given.
PatchFailed(cur, seen, at, err) ==
    [cur EXCEPT !.status = "FAILED",
                !.failedAt = OrElse(seen.failedAt, at), !.completedAt = Null,
                !.lastError = OrElse(err, OrElse(seen.lastError, "unknown")),
                !.startedAt = OrElse(seen.startedAt, at)]

Retried(cur) ==
    [cur EXCEPT !.status = AfterRetry(cur.status), !.failedAt = Null,
                !.lastError = Null, !.completedAt = Null]

Updated(cur, k, at) ==
    CASE k.op = "SET_RUNNING"     -> SetRunning(cur, k.seen, k.at)
      [] k.op = "SET_COMPLETED"   -> SetCompleted(cur, k.seen, k.at)
      [] k.op = "SET_FAILED"      -> SetFailed(cur, k.seen, k.at, k.err)
      [] k.op = "PATCH_COMPLETED" -> PatchCompleted(cur, k.seen, at)
      [] k.op = "PATCH_FAILED"    -> PatchFailed(cur, k.seen, at, k.err)
      [] k.op = "RETRY"           -> Retried(cur)

-----------------------------------------------------------------------------
\* Early returns after the read: PATCH refuses to leave COMPLETED (409),
\* retry wants FAILED (400).
Allowed(op) ==
    /\ op = "PATCH_FAILED" => row.status # "COMPLETED"
    /\ op = "RETRY" => row.status = "FAILED"

\* setRunStatus takes its timestamp before it reads, a PATCH after.
Read(c, op, err) ==
    /\ call[c] = NoCall
    /\ Allowed(op)
    /\ err # Null => op \in {"SET_FAILED", "PATCH_FAILED"}
    /\ call' = [call EXCEPT ![c] = [op |-> op, seen |-> row, at |-> now, err |-> err]]
    /\ UNCHANGED <<row, now>>

Write(c) ==
    /\ call[c] # NoCall
    /\ row' = Updated(row, call[c], now)
    /\ call' = [call EXCEPT ![c] = NoCall]
    /\ UNCHANGED now

Tick == now < MaxTime /\ now' = now + 1 /\ UNCHANGED <<row, call>>

RowNext ==
    \/ \E c \in Handlers : \/ \E op \in Ops, err \in {"given", Null} : Read(c, op, err)
                          \/ Write(c)
    \/ Tick

RowSpec == RowInit /\ [][RowNext]_rowVars

-----------------------------------------------------------------------------
\* The audit columns tell the status, whoever wrote last and whatever it had
\* read: set-run-status.ts states "COMPLETED => completedAt != null"; readers
\* of runs (findAll, the bench) rely on the rest.
AuditConsistent ==
    /\ row.status = "COMPLETED" <=> row.completedAt # Null
    /\ row.status = "FAILED" <=> row.failedAt # Null
    /\ row.status = "FAILED" <=> row.lastError # Null
    /\ row.status # "PENDING" => row.startedAt # Null

\* Marking a run RUNNING never revives one that has settled, even when it
\* settled between the read and the write of setRunStatus.
RowNeverRevived == [][row'.status = "RUNNING" => row.status \in InFlight]_row

Writes(c) == call[c] # NoCall /\ call'[c] = NoCall

\* The handler writes before anyone else has changed the row it read.
Fresh(c) == Writes(c) /\ call[c].seen = row

RowLife == INSTANCE RunLifecycle WITH status <- row.status

\* A PATCH of a run that has settled that way already.
Repeated(c) == \/ call[c].op = "PATCH_COMPLETED" /\ row.status = "COMPLETED"
               \/ call[c].op = "PATCH_FAILED" /\ row.status = "FAILED"
Unmoved(c) == \/ row' = row
              \/ call[c].err # Null /\ row' = [row EXCEPT !.lastError = row'.lastError]

\* A handler whose read is still current makes a transition of the lifecycle,
\* and a repeated PATCH changes nothing that tells when or why the run settled
\* ("Idempotent: completedAt only if null", "failedAt only if null; lastError:
\* use provided or keep existing").
FreshWritesFollowLifecycle ==
    [][\A c \in Handlers : Fresh(c) =>
         /\ RowLife!Next \/ UNCHANGED row.status
         /\ ~Repeated(c) \/ Unmoved(c)]_rowVars
=============================================================================
