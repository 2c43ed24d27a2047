----------------------------- MODULE RunQueue -----------------------------
(***************************************************************************)
(* The in-process backtest queue of the API                                *)
(* (apps/api/src/jobs/run-queue.service.ts), the requests that feed it     *)
(* (POST /jobs/enqueue, the imports, the bench loops, POST /runs/:id/retry)*)
(* and the backtest-v0 worker process it spawns for one job at a time.     *)
(*                                                                         *)
(* The queue and its dedup set live in the API's memory; the status of     *)
(* every run lives in Postgres and is written by the queue, by the worker, *)
(* by retry and by PATCH.  Whatever the code awaits is a step boundary:    *)
(* between two steps of one handler every other handler, the queue's loop  *)
(* and the worker may run.  A crash of the API drops its memory; the       *)
(* worker is a detached process and goes on.                               *)
(*                                                                         *)
(* A run may be imported for several assets, but every job after the one   *)
(* its import enqueues is for SPY alone.  The worker counts the run's      *)
(* RunVariant rows when it is done with its own and, if there are fewer    *)
(* than the run expects, exits with 0 and leaves the run RUNNING.          *)
(*                                                                         *)
(* A job is named by the number of the request that asked for it.          *)
(***************************************************************************)
EXTENDS Naturals, Sequences, FiniteSets, RunStatus

CONSTANTS Runs,         \* simulation runs
          Assets,       \* payloads of jobs: one asset, or several at once
          RetryAsset,   \* the payload of retry and POST /jobs/enqueue (SPY)
          Imported,     \* per run: the payload its import enqueues
          Variants,     \* (asset, seed) pairs
          Covers,       \* per payload: the variants its worker goes through
          Expected,     \* per run: configJson.expectedVariants, 0 if not stored
          Clients,      \* requests that can be in progress at once
          MaxRequests,  \* bound on the requests made
          MaxFaults     \* bound on database errors and API crashes

ASSUME RetryAssumption    == RetryAsset \in Assets
ASSUME ImportAssumption   == Imported \in [Runs -> Assets]
ASSUME CoversAssumption   == Covers \in [Assets -> SUBSET Variants]
ASSUME RequestsAssumption == MaxRequests \in Nat
ASSUME FaultsAssumption   == MaxFaults \in Nat

Ids == 1 .. MaxRequests

\* runId for a multi-asset payload, `${runId}:${assetSymbol}` otherwise.
JobKey(j) == <<j.run, j.asset>>

Jobs   == [run : Runs, asset : Assets]
NoJob  == [run |-> "none", asset |-> "none"]
NoId   == 0

VARIABLES status,        \* SimulationRun.status, per run
          rows,          \* the variants that have a RunVariant row, per run
          job,           \* what each request asked for
          issued,        \* requests made so far
          req,           \* per client: the request in progress
          queue,         \* this.queue: ids of the queued jobs
          activeJobKeys, \* this.activeJobKeys
          runner,        \* the job of the queue's loop and how far it got
          worker,        \* per job: the worker process
          lateFail,      \* jobs whose FAILED write onExit has not yet done
          faults,        \* database errors and crashes so far
          struck         \* history: runs of which one lost a job or a FAILED write

memory == <<req, queue, activeJobKeys, runner, lateFail>>
vars == <<status, rows, job, issued, req, queue, activeJobKeys, runner, worker,
          lateFail, faults, struck>>

ReqPcs    == {"idle", "retryWrite", "patchCompleted", "patchFailed", "enqueue",
              "read", "push"}
RunnerPcs == {"idle", "marking", "marked", "spawned"}
WorkerPcs == {"none", "boot", "work", "complete", "completed", "fail",
              "exit0", "exit1", "short", "gone"}

TypeOK ==
    /\ status \in [Runs -> Statuses]
    /\ rows \in [Runs -> SUBSET Variants]
    /\ job \in [Ids -> Jobs \cup {NoJob}]
    /\ issued \in 0 .. MaxRequests
    /\ req \in [Clients -> [pc : ReqPcs, id : Ids \cup {NoId}]]
    /\ queue \in Seq(Ids)
    /\ activeJobKeys \subseteq Runs \X Assets
    /\ runner \in [pc : RunnerPcs, id : Ids \cup {NoId}]
    /\ worker \in [Ids -> WorkerPcs]
    /\ lateFail \subseteq Ids
    /\ faults \in 0 .. MaxFaults
    /\ struck \subseteq Runs

IdleReq    == [pc |-> "idle", id |-> NoId]
IdleRunner == [pc |-> "idle", id |-> NoId]

Init ==
    /\ status = [r \in Runs |-> "PENDING"]
    /\ rows = [r \in Runs |-> {}]
    /\ job = [i \in Ids |-> NoJob]
    /\ issued = 0
    /\ req = [c \in Clients |-> IdleReq]
    /\ queue = <<>>
    /\ activeJobKeys = {}
    /\ runner = IdleRunner
    /\ worker = [i \in Ids |-> "none"]
    /\ lateFail = {}
    /\ faults = 0
    /\ struck = {}

\* The run a job is for.
RunOf(i) == job[i].run
KeyOf(i) == JobKey(job[i])

\* The worker's count of the run's rows against configJson.expectedVariants; a
\* run that stores none expects what the job covers, and that is there by then.
Enough(r) == Cardinality(rows[r]) >= Expected[r]

\* this.processing
Processing == runner.pc # "idle"

-----------------------------------------------------------------------------
(* Requests.  enqueueBacktest: dedup check; await the status; push.        *)

\* A request arrives for run r; the first step its handler takes is at pc.
Issue(c, r, a, pc) ==
    /\ req[c] = IdleReq
    /\ issued < MaxRequests
    /\ issued' = issued + 1
    /\ job' = [job EXCEPT ![issued + 1] = [run |-> r, asset |-> a]]
    /\ req' = [req EXCEPT ![c] = [pc |-> pc, id |-> issued + 1]]

\* POST /runs/import/prices, bench: enqueueBacktest, once, for the run created.
RequestImport(c, r) ==
    /\ \A i \in 1 .. issued : job[i] # [run |-> r, asset |-> Imported[r]]
    /\ Issue(c, r, Imported[r], "enqueue")
    /\ UNCHANGED <<status, rows, queue, activeJobKeys, runner, worker, lateFail,
                   faults, struck>>

\* POST /jobs/enqueue, POST /runs/import/spy29: straight to enqueueBacktest.
RequestEnqueue(c, r) ==
    /\ Issue(c, r, RetryAsset, "enqueue")
    /\ UNCHANGED <<status, rows, queue, activeJobKeys, runner, worker, lateFail,
                   faults, struck>>

\* Mutation: retryRun without its status check.
RequestRetryAnyStatus(c, r) ==
    /\ Issue(c, r, RetryAsset, "retryWrite")
    /\ UNCHANGED <<status, rows, queue, activeJobKeys, runner, worker, lateFail,
                   faults, struck>>

\* retryRun reads the status and refuses all but FAILED (400, no effect).
RequestRetry(c, r) ==
    /\ status[r] = "FAILED"
    /\ Issue(c, r, RetryAsset, "retryWrite")
    /\ UNCHANGED <<status, rows, queue, activeJobKeys, runner, worker, lateFail,
                   faults, struck>>

\* PATCH reads the run: COMPLETED once more changes nothing, FAILED is refused.
\* (The asset is of no account.)
RequestPatch(c, r) ==
    /\ status[r] # "COMPLETED"
    /\ \E pc \in {"patchCompleted", "patchFailed"} : Issue(c, r, RetryAsset, pc)
    /\ UNCHANGED <<status, rows, queue, activeJobKeys, runner, worker, lateFail,
                   faults, struck>>

\* Its update names the id only.
PatchWrite(c) ==
    /\ req[c].pc \in {"patchCompleted", "patchFailed"}
    /\ status' = [status EXCEPT ![RunOf(req[c].id)] =
                    IF req[c].pc = "patchCompleted" THEN "COMPLETED" ELSE "FAILED"]
    /\ req' = [req EXCEPT ![c] = IdleReq]
    /\ UNCHANGED <<rows, job, issued, queue, activeJobKeys, runner, worker, lateFail,
                   faults, struck>>

\* retryRun: reset to PENDING, then the controller enqueues.
RetryWrite(c) ==
    /\ req[c].pc = "retryWrite"
    /\ status' = [status EXCEPT ![RunOf(req[c].id)] = AfterRetry(@)]
    /\ req' = [req EXCEPT ![c].pc = "enqueue"]
    /\ UNCHANGED <<rows, job, issued, queue, activeJobKeys, runner, worker, lateFail,
                   faults, struck>>

\* Mutation: no dedup check.
CheckKeyNever(c) ==
    /\ req[c].pc = "enqueue"
    /\ req' = [req EXCEPT ![c].pc = "read"]
    /\ UNCHANGED <<status, rows, job, issued, queue, activeJobKeys, runner, worker,
                   lateFail, faults, struck>>

\* activeJobKeys.has(jobKey): SKIP, "already_queued_or_running".
CheckKey(c) ==
    /\ req[c].pc = "enqueue"
    /\ req' = [req EXCEPT ![c] = IF KeyOf(@.id) \in activeJobKeys
                                 THEN IdleReq ELSE [@ EXCEPT !.pc = "read"]]
    /\ UNCHANGED <<status, rows, job, issued, queue, activeJobKeys, runner, worker,
                   lateFail, faults, struck>>

\* findUnique: refused unless PENDING ("status_not_pending").
ReadStatus(c) ==
    /\ req[c].pc = "read"
    /\ req' = [req EXCEPT ![c] = IF status[RunOf(@.id)] = "PENDING"
                                 THEN [@ EXCEPT !.pc = "push"] ELSE IdleReq]
    /\ UNCHANGED <<status, rows, job, issued, queue, activeJobKeys, runner, worker,
                   lateFail, faults, struck>>

\* findUnique throws: refused ("db_error").
ReadError(c) ==
    /\ req[c].pc = "read"
    /\ faults < MaxFaults
    /\ faults' = faults + 1
    /\ req' = [req EXCEPT ![c] = IdleReq]
    /\ UNCHANGED <<status, rows, job, issued, queue, activeJobKeys, runner, worker,
                   lateFail, struck>>

\* Mutation: pushes the request after it was cleared.
PushCleared(c) ==
    /\ req[c].pc = "push"
    /\ req' = [req EXCEPT ![c] = IdleReq]
    /\ queue' = Append(queue, req'[c].id)
    /\ activeJobKeys' = activeJobKeys \cup {KeyOf(req[c].id)}
    /\ UNCHANGED <<status, rows, job, issued, runner, worker, lateFail, faults, struck>>

Push(c) ==
    /\ req[c].pc = "push"
    /\ activeJobKeys' = activeJobKeys \cup {KeyOf(req[c].id)}
    /\ queue' = Append(queue, req[c].id)
    /\ req' = [req EXCEPT ![c] = IdleReq]
    /\ UNCHANGED <<status, rows, job, issued, runner, worker, lateFail, faults, struck>>

-----------------------------------------------------------------------------
(* processNext, called every 500 ms by the poll timers.                    *)

\* Mutation: processNext without its processing check.
StartWhileProcessing ==
    /\ queue # <<>>
    /\ queue' = Tail(queue)
    /\ runner' = [pc |-> "marking", id |-> Head(queue)]
    /\ UNCHANGED <<status, rows, job, issued, req, activeJobKeys, worker, lateFail,
                   faults, struck>>

Start ==
    /\ ~Processing
    /\ queue # <<>>
    /\ queue' = Tail(queue)
    /\ runner' = [pc |-> "marking", id |-> Head(queue)]
    /\ UNCHANGED <<status, rows, job, issued, req, activeJobKeys, worker, lateFail,
                   faults, struck>>

\* setRunStatus(RUNNING); how many rows it changed is not looked at.
MarkRunning ==
    /\ runner.pc = "marking"
    /\ status' = [status EXCEPT ![RunOf(runner.id)] = AfterRunning(@)]
    /\ runner' = [runner EXCEPT !.pc = "marked"]
    /\ UNCHANGED <<rows, job, issued, req, queue, activeJobKeys, worker, lateFail,
                   faults, struck>>

\* Mutation: processing is not reset.
ReleaseKeyOnly(i) ==
    /\ activeJobKeys' = activeJobKeys \ {KeyOf(i)}
    /\ UNCHANGED runner

\* What onExit and the catch of the RUNNING update both do.
Release(i) ==
    /\ activeJobKeys' = activeJobKeys \ {KeyOf(i)}
    /\ runner' = IdleRunner

\* Mutation: the catch forgets the key.
MarkErrorKeepsKey ==
    /\ runner.pc \in {"marking", "marked"}
    /\ faults < MaxFaults
    /\ faults' = faults + 1
    /\ struck' = struck \cup {RunOf(runner.id)}
    /\ runner' = IdleRunner
    /\ UNCHANGED <<status, rows, job, issued, req, queue, activeJobKeys, worker, lateFail>>

\* setRunStatus(RUNNING) throws, before its update or in the read after it.
MarkError ==
    /\ runner.pc \in {"marking", "marked"}
    /\ faults < MaxFaults
    /\ faults' = faults + 1
    /\ struck' = struck \cup {RunOf(runner.id)}
    /\ Release(runner.id)
    /\ UNCHANGED <<status, rows, job, issued, req, queue, worker, lateFail>>

Spawn ==
    /\ runner.pc = "marked"
    /\ worker' = [worker EXCEPT ![runner.id] = "boot"]
    /\ runner' = [runner EXCEPT !.pc = "spawned"]
    /\ UNCHANGED <<status, rows, job, issued, req, queue, activeJobKeys, lateFail,
                   faults, struck>>

\* child "error": onExit(null, null).
SpawnError ==
    /\ runner.pc = "marked"
    /\ Release(runner.id)
    /\ lateFail' = lateFail \cup {runner.id}
    /\ UNCHANGED <<status, rows, job, issued, req, queue, worker, faults, struck>>

\* The process has ended; "short" with 0 and variants of the run missing.
Exited == {"exit0", "exit1", "short"}

\* Mutation: a non-zero exit code writes nothing.
OnExitSilent ==
    /\ runner.pc = "spawned"
    /\ worker[runner.id] \in Exited
    /\ Release(runner.id)
    /\ worker' = [worker EXCEPT ![runner.id] = IF @ = "short" THEN @ ELSE "gone"]
    /\ UNCHANGED <<status, rows, job, issued, req, queue, lateFail, faults, struck>>

\* child "exit": onExit(code, signal); the FAILED write is not awaited.
OnExit ==
    /\ runner.pc = "spawned"
    /\ worker[runner.id] \in Exited
    /\ Release(runner.id)
    /\ worker' = [worker EXCEPT ![runner.id] = IF @ = "short" THEN @ ELSE "gone"]
    /\ lateFail' = IF worker[runner.id] = "exit1" THEN lateFail \cup {runner.id}
                                                  ELSE lateFail
    /\ UNCHANGED <<status, rows, job, issued, req, queue, faults, struck>>

\* setRunStatus(FAILED) of an earlier onExit reaches the database.
LateFailWrite(i) ==
    /\ i \in lateFail
    /\ status' = [status EXCEPT ![RunOf(i)] = AfterFailed(@)]
    /\ lateFail' = lateFail \ {i}
    /\ UNCHANGED <<rows, job, issued, req, queue, activeJobKeys, runner, worker,
                   faults, struck>>

\* It throws instead: caught and logged.
LateFailError(i) ==
    /\ i \in lateFail
    /\ faults < MaxFaults
    /\ faults' = faults + 1
    /\ lateFail' = lateFail \ {i}
    /\ struck' = struck \cup {RunOf(i)}
    /\ UNCHANGED <<status, rows, job, issued, req, queue, activeJobKeys, runner, worker>>

-----------------------------------------------------------------------------
(* The worker process, apps/worker/src/scripts/backtest-v0.ts.             *)

Becomes(i, pc) == worker' = [worker EXCEPT ![i] = pc]
WorkerOnly == UNCHANGED <<job, issued, req, queue, activeJobKeys, runner, lateFail,
                          faults, struck>>

\* setRunStatus(RUNNING) at its start.
WorkerRunning(i) ==
    /\ worker[i] = "boot"
    /\ status' = [status EXCEPT ![RunOf(i)] = AfterRunning(@)]
    /\ Becomes(i, "work")
    /\ UNCHANGED rows
    /\ WorkerOnly

\* The next variant of the payload: its RunVariant row is upserted first.  (One
\* that has a row changes none.)
WorkerVariant(i) ==
    /\ worker[i] = "work"
    /\ \E v \in Covers[job[i].asset] \ rows[RunOf(i)] :
         rows' = [rows EXCEPT ![RunOf(i)] = @ \cup {v}]
    /\ Becomes(i, "work")
    /\ UNCHANGED status
    /\ WorkerOnly

\* After the last one: finalize if the run's rows are enough, exit 0 anyway.
WorkerDone(i) ==
    /\ worker[i] = "work"
    /\ Covers[job[i].asset] \subseteq rows[RunOf(i)]
    /\ Becomes(i, IF Enough(RunOf(i)) THEN "complete" ELSE "short")
    /\ UNCHANGED <<status, rows>>
    /\ WorkerOnly

\* setRunStatus(COMPLETED); how many rows it changed is only logged.
WorkerComplete(i) ==
    /\ worker[i] = "complete"
    /\ status' = [status EXCEPT ![RunOf(i)] = AfterCompleted(@)]
    /\ Becomes(i, "completed")
    /\ UNCHANGED rows
    /\ WorkerOnly

WorkerExit(i) ==
    /\ worker[i] = "completed"
    /\ Becomes(i, "exit0")
    /\ UNCHANGED <<status, rows>>
    /\ WorkerOnly

\* The read that ends setRunStatus(COMPLETED) throws: main's catch.
WorkerReadError(i) ==
    /\ worker[i] = "completed"
    /\ faults < MaxFaults
    /\ faults' = faults + 1
    /\ Becomes(i, "fail")
    /\ UNCHANGED <<status, rows, job, issued, req, queue, activeJobKeys, runner, lateFail,
                   struck>>

\* Something throws, the status writes included: main's catch.
WorkerThrow(i) ==
    /\ worker[i] \in {"boot", "work", "complete"}
    /\ Becomes(i, "fail")
    /\ UNCHANGED <<status, rows>>
    /\ WorkerOnly

\* setRunStatus(FAILED), exit code 1.
WorkerFail(i) ==
    /\ worker[i] = "fail"
    /\ status' = [status EXCEPT ![RunOf(i)] = AfterFailed(@)]
    /\ Becomes(i, "exit1")
    /\ UNCHANGED rows
    /\ WorkerOnly

\* process.exit(1) of the dataset checks, a lost catch, a signal: no FAILED.
WorkerDies(i) ==
    /\ worker[i] \in {"boot", "work", "complete", "completed", "fail"}
    /\ Becomes(i, "exit1")
    /\ UNCHANGED <<status, rows>>
    /\ WorkerOnly

-----------------------------------------------------------------------------
\* The API process dies and is started again: onModuleInit finds an empty
\* queue.  Nobody waits for a running worker any more.
Crash ==
    /\ faults < MaxFaults
    /\ faults' = faults + 1
    /\ req' = [c \in Clients |-> IdleReq]
    /\ queue' = <<>>
    /\ activeJobKeys' = {}
    /\ runner' = IdleRunner
    /\ lateFail' = {}
    /\ struck' = struck \cup {RunOf(i) : i \in lateFail}
                      \cup (IF Processing THEN {RunOf(runner.id)} ELSE {})
    /\ UNCHANGED <<status, rows, job, issued, worker>>

WorkerStep(i) ==
    \/ WorkerRunning(i) \/ WorkerVariant(i) \/ WorkerDone(i) \/ WorkerComplete(i)
    \/ WorkerExit(i) \/ WorkerThrow(i) \/ WorkerFail(i) \/ WorkerDies(i) \/ WorkerReadError(i)

HandlerStep(c) == RetryWrite(c) \/ PatchWrite(c) \/ CheckKey(c) \/ ReadStatus(c) \/ Push(c)

Next ==
    \/ \E c \in Clients : \/ \E r \in Runs : \/ RequestImport(c, r) \/ RequestEnqueue(c, r)
                                              \/ RequestRetry(c, r) \/ RequestPatch(c, r)
                          \/ HandlerStep(c)
                          \/ ReadError(c)
    \/ Start \/ MarkRunning \/ MarkError \/ Spawn \/ SpawnError \/ OnExit
    \/ \E i \in Ids : LateFailWrite(i) \/ LateFailError(i) \/ WorkerStep(i)
    \/ Crash

Spec == Init /\ [][Next]_vars

\* Node's event loop gets to every ready callback and the poll timer keeps
\* firing; the database answers; a worker that is not stuck in its work ends.
Fairness ==
    /\ \A c \in Clients : WF_vars(HandlerStep(c))
    /\ WF_vars(Start) /\ WF_vars(MarkRunning) /\ WF_vars(Spawn) /\ WF_vars(OnExit)
    /\ \A i \in Ids : WF_vars(LateFailWrite(i)) /\ WF_vars(WorkerStep(i))

FairSpec == Spec /\ Fairness

-----------------------------------------------------------------------------
Queued(i)  == \E n \in 1 .. Len(queue) : queue[n] = i
Running(i) == Processing /\ runner.id = i
Active     == {i \in Ids : Queued(i) \/ Running(i)}

\* The worker of job i may still write to the database.
Live(i) == worker[i] \in {"boot", "work", "complete", "completed", "fail"}

\* A key is in the dedup set only while a job holds it: no exit path of the
\* queue (worker exit, spawn error, failed RUNNING update, crash) leaks a key
\* and so bars its run from ever being enqueued again.
NoKeyLeak == \A k \in activeJobKeys : \E i \in Active : KeyOf(i) = k

\* The queue runs one worker at a time; only a crash of the API leaves a
\* second one behind, for the run that it struck.
OneWorker ==
    \A i \in Ids : Live(i) => \/ runner = [pc |-> "spawned", id |-> i]
                             \/ RunOf(i) \in struck

\* Somebody will settle run r: the loop, its worker or a FAILED write on its way.
Owned(r) == \E i \in Ids : RunOf(i) = r /\ (Running(i) \/ i \in lateFail)

\* The worker of a job left the run short of the variants it expects.
LeftShort(r) == ~Enough(r) /\ \E i \in Ids : RunOf(i) = r /\ worker[i] = "short"

\* A RUNNING run that no database error and no crash has struck has somebody who
\* will settle it, or a worker has left it short of expectedVariants: that run
\* stays RUNNING, with nobody to settle it, until somebody PATCHes it.
RunningIsOwned ==
    \A r \in Runs : status[r] = "RUNNING" /\ r \notin struck => Owned(r) \/ LeftShort(r)

\* The RUNNING updates of the queue and of the worker revive no settled run,
\* though neither looks whether its update matched.
NeverRevived ==
    [][\A r \in Runs : status'[r] = "RUNNING" => status[r] \in InFlight]_status

\* "Dedup: skip if (runId,assetSymbol) or runId (multi-asset) in queue/running".
NoDuplicateJob == \A i, j \in Active : KeyOf(i) = KeyOf(j) => i = j

Life(r) == INSTANCE RunLifecycle WITH status <- status[r]

\* Every run goes through the lifecycle.
FollowsLifecycle ==
    /\ \A r \in Runs : Life(r)!Init
    /\ [][\A r \in Runs : [Life(r)!Next]_(status[r])]_status

\* Every job that gets into the queue is started and gets out of the way, and
\* a run that is RUNNING settles or is left short of variants with no job of
\* its own: what SPY alone, the payload of every retry, does to a run that was
\* imported for several assets.
QueueDrains ==
    /\ \A i \in Ids : Queued(i) ~> i \notin Active
    /\ \A r \in Runs : status[r] = "RUNNING" ~>
         \/ status[r] \in {"COMPLETED", "FAILED"}
         \/ LeftShort(r) /\ \A i \in Active : RunOf(i) # r

\* "reset FAILED run to PENDING and enqueue": when a request asks for a job of
\* a PENDING run, one it has itself reset included, the run gets to a verdict.
RequestsSettle ==
    \A c \in Clients, r \in Runs :
      req[c].pc = "enqueue" /\ RunOf(req[c].id) = r /\ status[r] = "PENDING"
        ~> status[r] \in {"COMPLETED", "FAILED"}
=============================================================================
