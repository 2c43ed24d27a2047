-------------------------- MODULE BacktestWorker --------------------------
(***************************************************************************)
(* apps/worker/src/scripts/backtest-v0.ts and the two scripts it spawns    *)
(* for every variant (decide.ts and compute-crowd-metrics.ts, both without *)
(* --overwrite), on the rows of one run.                                   *)
(*                                                                         *)
(* A variant is an asset and a seed.  The worker goes through the variants *)
(* of its payload in order, does for each what the rows it finds leave to  *)
(* do, and then finalizes the run.  It may throw or be killed between any  *)
(* two database calls; a retry starts it again on the rows that are left.  *)
(* The decisions of a variant are inserted in batches of 1000; its         *)
(* CrowdMetrics and its RunVariantSummary are stood for by the batches     *)
(* they were computed from.                                                *)
(***************************************************************************)
EXTENDS Naturals, Sequences, FiniteSets, Functions, RunStatus

CONSTANTS Symbols,      \* the assets the run was imported for, in order
          RetrySymbols, \* the payload of POST /runs/:id/retry and /jobs/enqueue
          SeedCount,    \* seeds of a payload
          NumBatches,   \* createMany batches the decisions of a variant need
          Workers,      \* worker processes that can run at once
          MaxFailures,  \* bound on throws and kills
          MaxRestarts,  \* bound on restarts of the API
          MaxRequests   \* bound on PATCH, retry and enqueue requests

ASSUME SizeAssumption == SeedCount \in Nat \ {0} /\ NumBatches \in Nat \ {0}
ASSUME BoundAssumption ==
    MaxFailures \in Nat /\ MaxRestarts \in Nat /\ MaxRequests \in Nat

Batches  == 1 .. NumBatches
Variants == Range(Symbols) \X (1 .. SeedCount)

\* An import without symbols is refused; the retry and enqueue handlers send
\* one of the assets the run has.
ASSUME PayloadAssumption ==
    /\ Symbols \in Seq(Range(Symbols)) /\ Symbols # <<>>
    /\ RetrySymbols \in Seq(Range(Symbols)) /\ RetrySymbols # <<>>
ASSUME WorkerAssumption == IsFiniteSet(Workers)

\* configJson.expectedVariants, stored when the run was imported.
ExpectedVariants == Len(Symbols) * SeedCount

\* for (assetSymbol of symbols) for (seed of seeds)
Plan(symbols) ==
    [n \in 1 .. Len(symbols) * SeedCount |->
        <<symbols[(n - 1) \div SeedCount + 1], ((n - 1) % SeedCount) + 1>>]

VARIABLES status,    \* SimulationRun.status
          jobs,      \* the queued jobs of the run, each its symbols
          rows,      \* RunVariant rows
          started,   \* those with startedAt set
          completed, \* those with completedAt set
          decisions, \* batches of AgentDecision present, per variant
          metrics,   \* batches its CrowdMetrics stand for
          summarized,\* variants with a RunVariantSummary
          summary,   \* batches it stands for
          results,   \* BacktestResult rows, per variant
          worker,    \* the processes
          failures, restarts, requests,
          amended,   \* history: a PATCH made the run COMPLETED
          disturbed  \* history: variants a process was at beside another process
                     \* or in a run that was finalized, or left half decided

data == <<rows, started, completed, decisions, metrics, summarized, summary, results>>
bounds == <<failures, restarts, requests>>
vars == <<status, jobs, data, worker, bounds, amended, disturbed>>

Pcs == {"idle", "upsert", "check", "decide", "clear", "insert", "metrics",
        "insertMetrics", "load", "hash", "summary", "dropResult", "result", "stamp",
        "finalize", "complete"}

Processes ==
    [pc : Pcs, plan : Seq(Variants), n : Nat, timed : BOOLEAN, batch : Nat,
     basis : SUBSET Batches, orphan : BOOLEAN]

Idle == [pc |-> "idle", plan |-> <<>>, n |-> 1, timed |-> FALSE, batch |-> 1,
         basis |-> {}, orphan |-> FALSE]

TypeOK ==
    /\ status \in Statuses
    /\ jobs \in Seq({Symbols, RetrySymbols})
    /\ rows \subseteq Variants /\ started \subseteq rows /\ completed \subseteq started
    /\ decisions \in [Variants -> SUBSET Batches]
    /\ metrics \in [Variants -> SUBSET Batches]
    /\ summarized \subseteq rows /\ summary \in [Variants -> SUBSET Batches]
    /\ results \in [Variants -> 0 .. Cardinality(Workers)]
    /\ worker \in [Workers -> Processes]
    /\ failures \in 0 .. MaxFailures /\ restarts \in 0 .. MaxRestarts
    /\ requests \in 0 .. MaxRequests
    /\ amended \in BOOLEAN /\ disturbed \subseteq Variants

Init ==
    /\ status = "PENDING" /\ jobs = <<Symbols>>
    /\ rows = {} /\ started = {} /\ completed = {}
    /\ decisions = [v \in Variants |-> {}] /\ metrics = [v \in Variants |-> {}]
    /\ summarized = {} /\ summary = [v \in Variants |-> {}] /\ results = [v \in Variants |-> 0]
    /\ worker = [w \in Workers |-> Idle]
    /\ failures = 0 /\ restarts = 0 /\ requests = 0
    /\ amended = FALSE /\ disturbed = {}

-----------------------------------------------------------------------------
At(w, pc)  == worker[w].pc = pc
Current(w) == worker[w].plan[worker[w].n]
Go(w, pc)  == worker' = [worker EXCEPT ![w].pc = pc]

\* Nothing but the worker and the named part of the data changes.
Aside == UNCHANGED <<status, jobs, bounds>>

\* The queue runs one worker at a time; one that outlived the API is not its.
Running(v) == ~At(v, "idle") /\ ~worker[v].orphan

\* The queue starts the job; main, steps 1 and 2, marks the run RUNNING (if
\* it has settled meanwhile, it stays as it is and the worker goes on).
Launch(w) ==
    /\ At(w, "idle") /\ jobs # <<>>
    /\ \A v \in Workers : ~Running(v)
    /\ jobs' = Tail(jobs)
    /\ status' = AfterRunning(status)
    /\ worker' = [worker EXCEPT ![w] =
                    [Idle EXCEPT !.pc = "upsert", !.plan = Plan(Head(jobs))]]
    /\ UNCHANGED <<data, bounds>>

\* RunVariant upsert; P2002 of a concurrent create ends up the same.
UpsertVariant(w) ==
    /\ At(w, "upsert")
    /\ rows' = rows \cup {Current(w)}
    /\ Go(w, "check") /\ Aside
    /\ UNCHANGED <<started, completed, decisions, metrics, summarized, summary, results>>

\* Mutation: a variant that was started is not computed again.
AlreadyStarted(w) ==
    /\ At(w, "check") /\ Current(w) \in started
    /\ worker' = [worker EXCEPT ![w].pc = "load", ![w].timed = FALSE]
    /\ Aside /\ UNCHANGED data

\* A variant whose summary exists is not computed again.
AlreadyComputed(w) ==
    /\ At(w, "check") /\ Current(w) \in summarized
    /\ worker' = [worker EXCEPT ![w].pc = "load", ![w].timed = FALSE]
    /\ Aside /\ UNCHANGED data

\* Mutations: startedAt is not written; completedAt is, as a rerun does.
StartVariantUnstamped(w) ==
    /\ At(w, "check") /\ Current(w) \notin summarized
    /\ worker' = [worker EXCEPT ![w].pc = "decide", ![w].timed = TRUE]
    /\ Aside /\ UNCHANGED data
StartVariantFinished(w) ==
    /\ At(w, "check") /\ Current(w) \notin summarized
    /\ started' = started \cup {Current(w)}
    /\ completed' = completed \cup {Current(w)}
    /\ worker' = [worker EXCEPT ![w].pc = "decide", ![w].timed = TRUE]
    /\ Aside /\ UNCHANGED <<rows, decisions, metrics, summarized, summary, results>>

\* startedAt = now, completedAt = null.
StartVariant(w) ==
    /\ At(w, "check") /\ Current(w) \notin summarized
    /\ started' = started \cup {Current(w)}
    /\ completed' = completed \ {Current(w)}
    /\ worker' = [worker EXCEPT ![w].pc = "decide", ![w].timed = TRUE]
    /\ Aside /\ UNCHANGED <<rows, decisions, metrics, summarized, summary, results>>

\* decide: "SKIP decisions (existing N, overwrite=false)".
SkipDecide(w) ==
    /\ At(w, "decide") /\ decisions[Current(w)] # {}
    /\ Go(w, "metrics") /\ Aside /\ UNCHANGED data

\* Mutation: decide computes whatever is there, as with --overwrite.
DecideAlways(w) ==
    /\ At(w, "decide")
    /\ Go(w, "clear") /\ Aside /\ UNCHANGED data

\* decide computes for as long as it takes ...
Decide(w) ==
    /\ At(w, "decide") /\ decisions[Current(w)] = {}
    /\ Go(w, "clear") /\ Aside /\ UNCHANGED data

\* ... deletes what is there by now, and inserts, a batch at a time.
ClearDecisions(w) ==
    /\ At(w, "clear")
    /\ decisions' = [decisions EXCEPT ![Current(w)] = {}]
    /\ worker' = [worker EXCEPT ![w].pc = "insert", ![w].batch = 1]
    /\ Aside /\ UNCHANGED <<rows, started, completed, metrics, summarized, summary, results>>

\* (A batch that is there already violates the unique key: Throw.)
InsertBatch(w) ==
    LET b == worker[w].batch
    IN  /\ At(w, "insert") /\ b \notin decisions[Current(w)]
        /\ decisions' = [decisions EXCEPT ![Current(w)] = @ \cup {b}]
        /\ worker' = [worker EXCEPT ![w].pc = IF b = NumBatches THEN "metrics" ELSE "insert",
                                    ![w].batch = IF b = NumBatches THEN 1 ELSE b + 1]
        /\ Aside /\ UNCHANGED <<rows, started, completed, metrics, summarized, summary, results>>

\* compute-crowd-metrics: "SKIP crowd-metrics (existing N, overwrite=false)".
SkipMetrics(w) ==
    /\ At(w, "metrics") /\ metrics[Current(w)] # {}
    /\ Go(w, "load") /\ Aside /\ UNCHANGED data

ComputeMetrics(w) ==
    /\ At(w, "metrics") /\ metrics[Current(w)] = {}
    /\ worker' = [worker EXCEPT ![w].pc = "insertMetrics", ![w].basis = decisions[Current(w)]]
    /\ Aside /\ UNCHANGED data

InsertMetrics(w) ==
    /\ At(w, "insertMetrics") /\ metrics[Current(w)] = {}
    /\ metrics' = [metrics EXCEPT ![Current(w)] = worker[w].basis]
    /\ worker' = [worker EXCEPT ![w].pc = "load", ![w].basis = {}]
    /\ Aside /\ UNCHANGED <<rows, started, completed, decisions, summarized, summary, results>>

\* Step 7: the decisions are counted per step, for the correlation ...
CountDecisions(w) ==
    /\ At(w, "load")
    /\ worker' = [worker EXCEPT ![w].pc = "hash", ![w].basis = decisions[Current(w)]]
    /\ Aside /\ UNCHANGED data

\* ... and read once more, for their hash.
HashDecisions(w) ==
    /\ At(w, "hash")
    /\ worker' = [worker EXCEPT ![w].pc = "summary", ![w].basis = @ \cap decisions[Current(w)]]
    /\ Aside /\ UNCHANGED data

\* Step 8: a summary of what was read both times, and one BacktestResult.
UpsertSummary(w) ==
    /\ At(w, "summary")
    /\ summarized' = summarized \cup {Current(w)}
    /\ summary' = [summary EXCEPT ![Current(w)] = worker[w].basis]
    /\ worker' = [worker EXCEPT ![w].pc = "dropResult", ![w].basis = {}]
    /\ Aside /\ UNCHANGED <<rows, started, completed, decisions, metrics, results>>

DropResult(w) ==
    /\ At(w, "dropResult")
    /\ results' = [results EXCEPT ![Current(w)] = 0]
    /\ Go(w, "result") /\ Aside
    /\ UNCHANGED <<rows, started, completed, decisions, metrics, summarized, summary>>

\* The next variant of the payload, or finalization.
NextVariant(w) ==
    IF worker[w].n < Len(worker[w].plan)
    THEN worker' = [worker EXCEPT ![w].pc = "upsert", ![w].n = @ + 1]
    ELSE Go(w, "finalize")

\* completedAt is set only by the process that set startedAt.
CreateResult(w) ==
    /\ At(w, "result")
    /\ results' = [results EXCEPT ![Current(w)] = @ + 1]
    /\ IF worker[w].timed THEN Go(w, "stamp") ELSE NextVariant(w)
    /\ Aside /\ UNCHANGED <<rows, started, completed, decisions, metrics, summarized, summary>>

StampVariant(w) ==
    /\ At(w, "stamp")
    /\ completed' = completed \cup {Current(w)}
    /\ NextVariant(w) /\ Aside
    /\ UNCHANGED <<rows, started, decisions, metrics, summarized, summary, results>>

\* completedVariants counts every RunVariant row of the run; the validation
\* block looks at the variants of this invocation.  With variants missing the
\* worker leaves with exit code 0 and the run stays RUNNING.
Finalize(w) ==
    /\ At(w, "finalize")
    /\ IF Cardinality(rows) >= ExpectedVariants
       THEN /\ \A v \in Range(worker[w].plan) : v \in rows /\ v \in summarized
            /\ Go(w, "complete")
       ELSE worker' = [worker EXCEPT ![w] = Idle]
    /\ Aside /\ UNCHANGED data

Complete(w) ==
    /\ At(w, "complete")
    /\ status' = AfterCompleted(status)
    /\ worker' = [worker EXCEPT ![w] = Idle]
    /\ UNCHANGED <<jobs, data, bounds>>

\* Any call may throw, or decide or compute-crowd-metrics exit non-zero:
\* main's catch marks the run FAILED.  Or the process is killed, and the
\* queue marks it FAILED, or not, when the API is gone.
Stop(w) ==
    /\ ~At(w, "idle") /\ failures < MaxFailures
    /\ failures' = failures + 1
    /\ status' \in {status, AfterFailed(status)}
    /\ worker' = [worker EXCEPT ![w] = Idle]
    /\ UNCHANGED <<jobs, data, restarts, requests>>

\* An insert meets the rows of another worker: P2002, the run is FAILED.
Throw(w) ==
    /\ \/ At(w, "insert") /\ worker[w].batch \in decisions[Current(w)]
       \/ At(w, "insertMetrics") /\ metrics[Current(w)] # {}
    /\ status' = AfterFailed(status)
    /\ worker' = [worker EXCEPT ![w] = Idle]
    /\ UNCHANGED <<jobs, data, bounds>>

\* The API is started again: its queue is gone, its worker goes on.
Restart ==
    /\ restarts < MaxRestarts /\ restarts' = restarts + 1
    /\ jobs' = <<>>
    /\ worker' = [w \in Workers |-> [worker[w] EXCEPT !.orphan = ~At(w, "idle")]]
    /\ UNCHANGED <<status, data, failures, requests>>

Request == requests < MaxRequests /\ requests' = requests + 1

\* PATCH /runs/:runId/status COMPLETED, whatever the variants are like.  (Of a
\* COMPLETED run it changes nothing.)
PatchCompleted ==
    /\ Request
    /\ status # "COMPLETED"
    /\ status' = "COMPLETED" /\ amended' = TRUE
    /\ UNCHANGED <<jobs, data, worker, failures, restarts>>

\* PATCH /runs/:runId/status FAILED: how an operator frees a run that hangs.
PatchFailed ==
    /\ Request
    /\ status # "COMPLETED"
    /\ status' = AfterFailed(status)
    /\ UNCHANGED <<jobs, data, worker, failures, restarts>>

\* enqueueBacktest: a job that is queued or running already is refused.
Enqueued ==
    IF \/ RetrySymbols \in Range(jobs)
       \/ \E w \in Workers : Running(w) /\ worker[w].plan = Plan(RetrySymbols)
    THEN jobs ELSE Append(jobs, RetrySymbols)

\* POST /jobs/enqueue of a run that lost its job.
Enqueue ==
    /\ Request
    /\ status = "PENDING" /\ Enqueued # jobs
    /\ jobs' = Enqueued
    /\ UNCHANGED <<status, data, worker, failures, restarts>>

\* POST /runs/:id/retry: back to PENDING, then enqueued.
Retry ==
    /\ Request
    /\ status = "FAILED"
    /\ status' = AfterRetry(status)
    /\ jobs' = Enqueued
    /\ UNCHANGED <<data, worker, failures, restarts>>

VariantStep(w) ==
    \/ UpsertVariant(w) \/ AlreadyComputed(w) \/ StartVariant(w)
    \/ SkipDecide(w) \/ Decide(w) \/ ClearDecisions(w) \/ InsertBatch(w)
    \/ SkipMetrics(w) \/ ComputeMetrics(w) \/ InsertMetrics(w)
    \/ CountDecisions(w) \/ HashDecisions(w) \/ UpsertSummary(w)
    \/ DropResult(w) \/ CreateResult(w) \/ StampVariant(w)

\* The processes that are at a variant; the variants left half decided.
Visitors(v) == {w \in Workers : /\ ~At(w, "idle") /\ ~At(w, "finalize") /\ ~At(w, "complete")
                               /\ Current(w) = v}
Crowded == Cardinality({w \in Workers : ~At(w, "idle")}) > 1
HalfDecided(v) == decisions[v] \notin {{}, Batches} /\ \A w \in Visitors(v) : ~At(w, "insert")

\* A worker has made the run COMPLETED.
Finalized == status = "COMPLETED" /\ ~amended

Step ==
    \/ \E w \in Workers : \/ Launch(w) \/ VariantStep(w) \/ Finalize(w) \/ Complete(w)
                          \/ Stop(w) \/ Throw(w)
    \/ Restart \/ PatchFailed \/ Enqueue \/ Retry

Next ==
    /\ (Step /\ UNCHANGED amended) \/ PatchCompleted
    /\ disturbed' = disturbed \cup
         {v \in Variants : \/ HalfDecided(v)'
                           \/ Visitors(v)' # {} /\ (Crowded' \/ Finalized')}

Spec == Init /\ [][Next]_vars

-----------------------------------------------------------------------------
\* Nothing of the variant is missing, and everything was computed from all of
\* its decisions.
CompleteVariant(v) ==
    /\ v \in rows
    /\ decisions[v] = Batches /\ metrics[v] = Batches /\ summary[v] = Batches
    /\ results[v] = 1

\* "Run completes when completedVariants == expectedVariants": a run that a
\* worker, and not a PATCH, has made COMPLETED has every variant it was imported
\* for, complete, save for what a second process, a kill amid the inserts, or a
\* process that came when the run was finalized did to a variant.
Undisturbed == Variants \ disturbed
FinalizedIsComplete ==
    Finalized => \A v \in Undisturbed : CompleteVariant(v)

\* "AgentDecision immutable unless overwrite=true": once metrics or a summary
\* were computed from the decisions of a variant, no retry changes them.
DecisionsImmutable ==
    [][\A v \in Undisturbed' : metrics[v] # {} \/ v \in summarized
                               => decisions'[v] = decisions[v]]_decisions

\* A variant with completedAt was computed to the end, from all of its
\* decisions, by whichever invocations got it there, and is not being
\* computed again.
CompletedAtIsEarned ==
    \A v \in completed \ disturbed :
      /\ v \in summarized
      /\ decisions[v] = Batches /\ metrics[v] = Batches /\ summary[v] = Batches
=============================================================================
