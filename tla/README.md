# CrowdVest: TLA+ models

CrowdVest simulates crowds of investor agents. An API (NestJS) keeps *simulation
runs* in Postgres, queues backtests for them in its own memory, and spawns a
worker process per job. The worker computes agent decisions, crowd metrics and a
summary for every *variant* (asset and seed) of a run. Users inject events into
finished runs, score forecasts, benchmark whole sets of runs, bet on runs from a
wallet with a ledger, and look at all of it in a dashboard. This directory holds
TLA+ modules for the parts of the system where interleaving, failure, retry and
order matter, the TLC runs that check them, and machine-checked proofs of their
main invariants.

Files: `X.tla` models a component, `MCX.tla` gives it values for TLC, `*.cfg` are
the runs, `X_proofs.tla` holds theorems. `PROJECT.json` maps every definition to
the source lines it models and lists runs, mutants, hazards and theorems.

## 1. Inventory

| Part | State | Operations | Where |
|---|---|---|---|
| Run status row | `SimulationRun.status`, `startedAt`, `finishedAt`, `completedAt`, `failedAt`, `lastError` | `setRunStatus`, `updateRunStatus` (PATCH), `retryRun` | `packages/db/src/set-run-status.ts`, `apps/api/src/runs` |
| Backtest queue | `queue`, `activeJobKeys`, `processing` in memory of the API | `enqueueBacktest`, `processNext`, `onExit`, restart | `apps/api/src/jobs/run-queue.service.ts` |
| Backtest worker | `RunVariant`, `AgentDecision`, `CrowdMetrics`, `RunVariantSummary`, `BacktestResult` | the loop over variants, `decide`, `compute-crowd-metrics`, finalization | `apps/worker/src/scripts` |
| Simulation events | `InfoEvent`, and the decisions and metrics of a variant | inject, reset, undo last, `rerunVariantPipelines` | `apps/api/src/simulation` |
| Forecast accuracy | `ForecastResult`, `RunAccuracy`, `RunSignalDiagnostics` | `computeRunAccuracy` | `apps/api/src/forecast` |
| Bench snapshots and tags | `BenchWindowSnapshot`: mode, payload, `tag`, `isBaseline` | bench, tag, promote candidate, promote mode, run-and-compare, gate | `apps/api/src/bench` |
| Bets, wallet, ledger | `Bet`, `UserWallet`, `UserWalletTransaction` | place a bet, settle (API and script), create, list with backfill, adjust, reset | `apps/api/src/bets`, `wallet`, `settle.ts` |
| Simulation script and core | `RunAgent`, `AgentExperience`, `CrowdSnapshot`; positions of agents in memory | `sim-run`, `runStep`, `decideAction` | `sim-run.ts`, `packages/sim-core` |
| Agent pool | `RunAgent` | `POST /agents/generate` | `apps/api/src/agents/agents-v1.service.ts` |
| Run timeseries | `RunTimeSeries` | creation on demand | `apps/api/src/timeseries`, `settle.ts`, `sim-run.ts` |
| Dashboard strategy backtest | none; a function of the prices and setup scores | entries, stop-loss, cap on open trades | `apps/api/src/dashboard/dashboard.service.ts` |
| Dashboard page | selected variant, URL, what is on the screen, requests under way | select, navigate, fetch, submit an event, refresh | `DashboardClient.tsx`, `LiveEventInjectionPanel.tsx` |
| Everything else | rows it reads | results, signals, leaderboards, profiles, imports, scripts | see `PROJECT.json` |

How they interact:

- A request (import, bench, `POST /jobs/enqueue`, retry) calls `enqueueBacktest`,
  which checks a set of job keys, awaits the run's status, and pushes. A poll
  timer takes one job at a time, marks the run RUNNING, spawns the worker and
  waits for its exit.
- The worker shares nothing with the API but Postgres. It marks the run RUNNING,
  COMPLETED or FAILED itself; the queue writes FAILED as well when the exit code
  is not 0; PATCH and retry write the same row.
- Whatever a worker left in the rows of a variant decides what the next worker
  skips.
- An injected event runs the scripts `decide` and `compute-crowd-metrics` again,
  for one variant and outside the queue; the dashboard waits for the answer and
  fetches again. Both are called with a bare `--overwrite`, which only `decide`
  understands: the metrics are computed again because `decide` has deleted them. Accuracy reads the decisions of all variants.
- Bets, settlements, tags and agent pools are Postgres transactions at READ
  COMMITTED, several of which read what they rely on before they begin.
- `sim-run` is a process of its own. Requests may read, regenerate or delete what
  it is still writing.

What is hard: every `await` between a check and the write that relies on it; a
process that dies between two of its writes; an API restart, which forgets the
queue but not the worker; retries of work that was half done; two requests of a
kind at a time; responses that come back in another order than they were asked
for; and, in the backtest of the dashboard, the order of entries and exits of
one day.

What makes each part correct:

- *Row:* the audit columns tell the status; a settled run is not revived; a
  repeated PATCH changes nothing; single handlers follow one lifecycle.
- *Queue:* no job twice; no key leaked; one worker; who is to settle a RUNNING run;
  jobs get to an end.
- *Worker:* a run that its worker completed has every variant, computed from all
  its decisions; retries change no decision that something was computed from.
- *Events:* what a rerun reports as completed was computed from the events there
  are; undo takes the newest. *Accuracy:* three tables, one computation.
- *Bench:* a tag has one owner; nobody loses one unasked; only a better snapshot
  is promoted.
- *Ledger:* all money on the ledger; a bet is debited once and paid out once;
  limits and funds are respected; one SEED.
- *Simulation:* one that its own script completed has every step; agents buy and sell by turns; the
  curve is whole; a new pool replaces the old.
- *Strategy backtest:* the cap holds, the stop bounds losses, no look-ahead.
- *Page:* at rest it shows the selected variant, as it is on the server; it gets
  to rest.

The hazards behind these, line by line, are in `PROJECT.json`.

## 2. Modules

| Module | Models | Built on |
|---|---|---|
| `RunStatus` | the status column and the guards of its updates | |
| `RunLifecycle` | abstract: what the life of a run is meant to be | |
| `RunRow` | the whole row and all handlers that write it | `RunStatus`; refines `RunLifecycle` per fresh write |
| `RunQueue` | requests, queue, loop, workers, crash | `RunStatus`; refines `RunLifecycle` when sequential |
| `BacktestWorker` | the rows of one run under its workers | `RunStatus` |
| `VariantEvents` | events, reruns and accuracy of a finished run | |
| `BenchSnapshots` | snapshots, their lookup, comparison, tags and promotion | |
| `BetLedger` | one user's wallet, ledger and bets | |
| `SimRun` | one simulation, its curve, its agent pool, its deletion | `RunStatus` |
| `StrategyBacktest` | the trades of a growing price history | |
| `ScenarioView` | the dashboard page and the event panel of two variants | |

**RunRow.** A handler is two actions: `Read` remembers the row it saw (with the
early returns of PATCH and retry), `Write` applies the update to the row of that
moment. `SetRunning`, `SetCompleted`, `SetFailed`, `PatchCompleted`,
`PatchFailed`, `Retried` are the updates column by column; the first two carry the
WHERE clause. Timestamps are values of a bounded clock; `setRunStatus` takes its
timestamp before it reads, PATCH after. `lastError` is `"given"`, `"unknown"` or
null. `finishedAt` is written by `setRunStatus(COMPLETED)` only and never cleared,
so no property speaks of it.

**RunQueue.** One action per stretch of code between two awaits. `req[c]` is the
program counter of a request, `runner` that of the loop (`processing` is
`runner.pc # "idle"`), `worker[i]` that of the worker of job *i*, `lateFail` the
FAILED writes that `onExit` started and does not await. A job key is a run and an
asset, `multi` standing for a multi-asset payload. A run is `Imported` for one payload
and `Expected` to have that many variants; `rows` are the variants that have a
`RunVariant` row, each the first write of a worker at a variant that it `Covers`.
A worker that is done counts them and, if there are not `Enough`, exits with 0 and
leaves the run RUNNING (`"short"`). `PATCH` is a read and a write, like retry. `Crash`
empties the memory and leaves the workers. The poll chains that every exit adds
only call `processNext` more often and are one `Start`.

**BacktestWorker.** One action per database call or script. Decisions are sets of
`createMany` batches; metrics and summary are represented by the batches they
were computed from, so that "computed from everything" can be said. `SkipDecide`,
`SkipMetrics` and `AlreadyComputed` are the three ways to skip. `Stop` is a throw
or a kill anywhere; `Throw` an insert that meets another worker's rows. The queue
is reduced to the list of jobs of this run, with its dedup rule, because its own
races are RunQueue's topic. `Restart` is the API's: jobs and keys are lost, the
worker becomes an orphan and a second one may start. `PatchCompleted`, `PatchFailed`
and `Retry` write the status whatever the variants have got, each in one step here,
because RunRow splits them; `amended` remembers that PATCH has completed the run.

**VariantEvents.** The variants of one run and asset, which share its events. A
request of the event API is `Inject`, `Reset` or `Undo` (with its `DeleteEvent`),
then the rerun: `Stamp`, the script `decide` (`Wipe`, `ReadEvents`, `Clear`, an
`Insert` per batch) and the script `compute-crowd-metrics` (`CountMetrics`, which
answers "completed" at once when the variant has metrics, `ReadDecisions`,
`ReadEventsAgain`, `InsertMetrics`). A decision is the batch it is
in and the events it was decided from; whatever is derived is stood for by its
sources, so that "stale" can be said. The six deletes `decide` begins with, of the
decisions, the metrics and what else was derived from them, are
one, and the tables of `persist=full` are left out. `Fail` is a script that ends
with an error or takes too long; `Crash` is the end of the API,
which loses every request but may leave its scripts running (`orphan`). `computeRunAccuracy` is
`DropReport`, `CountVotes` and three `createMany` that fail on existing rows.

**BenchSnapshots.** A payload is a value per symbol in hundredths, its domain the
key snapshots are looked up by. `FindMatching`, `Differences`, `ShouldPromote` and
`ModeWins` are the lookup and the thresholds; each request is the statements it
makes up to `Move`, the transaction that moves a tag from the owner that was read
to the target. A unique index makes `Move` fail when a third row has got the tag.
A benchmark persists any payload in one step; the runs it waits for are RunQueue's.

**BetLedger.** A transaction is split where it reads what it later relies on;
from its first write on it is one step, since row locks and invisibility of
uncommitted rows let no other transaction tell. Return, direction and price of a
bet are one number per settlement, `pnl = amount * return`. Count and sum of the
open bets are read in one step. One user suffices: nothing relates two wallets.

**SimRun.** `sim` is the script: agents, then per step a `createMany` of
experiences and a snapshot, status, debug row, sum and curve, with a `Kill`
anywhere. `PatchCompleted`, `PatchFailed`, `Retry` and `Backtest` (the queue's
worker on the same run, of which only the status matters) are the other writers of the
status; `amended` remembers that one of them completed the run. `decideAction` and `After` are the rules of sim-core; rewards and
wallets are left out, so whether a position is past take-profit or stop-loss is
any choice (wallets stay positive, which makes `entryWallet > 0` always true). The
curve is a line to the total pnl, represented by the steps the total is of.
`POST /agents/generate` counts before its transaction, sees the agents it deletes
in one step and commits in another; row locks make the script wait (`Locked`), and
the cascade takes the experiences of deleted agents along.

**StrategyBacktest.** The state is a price history that grows by a day at a time;
trades, results and the selection under a cap are functions of it, so every
invariant is checked for every history up to the bounds and `NoLookAhead` can
compare a backtest with itself a day later. A day's bar may also be of a new dataset of
its symbol, which lacks any number of the earliest bars (`lacks`): only the latest
dataset is read, and bars move down in it. `Tradable` is the minimum length a
history must have. `Window` is empty on the first days after `MinLookback`, where the
code's loop looks at the earliest day first, finds it below the minimum and ends;
`ProbabilityNeutral` is then a half, and the conviction, which depends on it, is what it
is for that. Events are put in the order of the code's
comparator (each in the place that is its rank, `Sorted`) and swept in it by recursive
functions (`Sweep`, `Count`). The score, and what signal and agreement add to the
conviction, are data of a bar. The switches of the source are at their values there: shorts and stop-loss on, signal
flip on; returns are integers because they are scaled by the entry price.

**ScenarioView.** The page is React state (`active`, `pending`, what is shown), the
URL and a navigation under way, which renders on the server (`Render`) and commits
in the browser (`Navigate`) later. A fetch is three responses, awaited together and
taken one after the other; the effect's fetch is cancelled by the next one, the
panel's refresh is not. `Miss` is what may go wrong with a fetch: each of the responses
may be refused (`RefuseCrowd`, `RefusePersonas`, `RefuseComparison`), or none comes
or one cannot be read (`Lose`), at any stage. `Commit` is the three effects that run when the URL
changes.

**Refinement.** `RunLifecycle` is instantiated with `status <- row.status` and
with `status <- status[r]` for every run. `FollowsLifecycle` is the full
`Init /\ [][Next]_status` of every run in the sequential run of the queue;
`FreshWritesFollowLifecycle` says the same of every row write whose read is still
current. Both refinements are also proved (section 4).

**History variables.** Some properties hold only when requests do not interfere
in a way the code does not exclude. The models record that in variables no guard
reads: `struck` (RunQueue), `disturbed` and `amended` (BacktestWorker), `overlapped` and
`wasReset` (BetLedger), `overlapped` (VariantEvents, SimRun), `raced` (BenchSnapshots),
`early` and `amended` (SimRun), `overtaken` and `failed` (ScenarioView). Each is needed: TLC violates the property
that mentions it when it is dropped. Section 3 says which behaviour is behind it.

## 3. Runs

| Run | Question | Bounds |
|---|---|---|
| `run_row` | audit columns, revival, idempotence, lifecycle | 2 handlers, 3 instants |
| `run_queue` | key leaks, one worker, ownership | 2 runs, one imported for 2 assets and one for SPY, 2 clients, 3 requests, 1 fault |
| `run_queue_sequential` | exact dedup, refinement, progress | 1 run imported for 2 assets, 1 client, 4 requests, no faults, fairness |
| `run_queue_retry` | *violated:* a retried run gets a verdict | 1 run imported for SPY, 1 client, 3 requests, fairness |
| `backtest_worker` | completeness, decisions that do not change | 1 asset, 2 seeds, 2 batches, 2 workers, 2 failures, 1 restart, 4 requests |
| `variant_events` | currency of reruns, undo, scores of one piece | 2 variants, 2 batches, 2 clients, 4 requests, 1 failure or crash |
| `bench_snapshots` | owners of tags, promotions | 2 modes, 3 payloads, 3 snapshots, window 2, 2 clients, 3 requests |
| `bet_ledger` | money, stakes, payouts, limits, SEED | 2 clients, 5 requests, 2 runs, amounts 1 and 2, limits 2 bets and exposure 3 |
| `bet_ledger_double_credit` | *violated:* single payout under overlap | 1 run, 2 clients, 3 requests |
| `sim_run` | every step, trades by turns, curve, pool | 2 agents (one buys), 5 steps, hold 2, 2 seeds, 2 clients, 3 requests |
| `strategy_backtest` | cap, stop, no look-ahead | 2 symbols, 5 days, 9 bars, horizon 2, neutral look-back 2, minimum 4 bars, caps 1 and 2 |
| `scenario_view` | what is shown at rest, and that there is rest | 2 variants, 2 selections, 2 submits, 1 Back, 1 failure, fairness |

Why the bounds are enough. Every race in the code is between two handlers, so
two clients show it; a third would only repeat one of them.

- *Queue and worker.* Three requests allow a job, a second one for the same or
  another key, and a retry. Two failures, a restart and four requests let a
  two-seed run fail, be freed, be retried and be visited by an orphan, which
  reaches every combination of skip paths; two batches are the least that can be
  half there.
- *Ledger.* Five requests on scaled-down limits reach both limits, a full loss, a
  loss beyond the stake and a forced resettlement.
- *Events.* Four requests allow two injections, an undo or reset, and a
  computation of the scores, in every overlap of two of them.
- *Bench.* Three snapshots and a window of 2 make the newest two of a key hide
  the third, as 50 do in the source. `ThresholdPayloads` lie on either side of
  the promotion thresholds, one with a symbol that falls too far.
- *Simulation.* Five steps hold a first trade, sold at once, a second held for
  `MaxHoldSteps`, and the start of a third. Three requests (for the
  curve, a pool or the deletion) allow two that overlap and one after them; the writers of
  the status are not bounded.
- *Strategy.* With a horizon of 2 a symbol is traded from four bars on, so five days hold
  overlapping trades of both symbols, also when one of them has no bar on one day. With
  a neutral look-back of 2 the loop ends at once on the first two days and counts from
  the third on; a new dataset may replace the history on any day. The closes
  of `SomeBars` are 3% and 4% apart, at and past the stop in either direction, with scores of
  either sign and one below the threshold, and convictions of which one passes when half
  of the days are neutral and one only when fewer are. The constants of the source (5 days of holding,
  look-backs of 50 and 20, 81 bars, 0.7, 0.25, 0.06) are scaled to that size.
- *Page.* Two selections and a Back allow a selection while a navigation renders
  and while a fetch is out; two submits allow one during either.

The passing runs fire every action. Deadlock is not checked where bounds on
requests let the system come to rest, nor for a history that has ended.

### What does not hold

Two properties are violated; `PROJECT.json` quotes under `findings` what the
repository says.

1. A retry resets the run before its enqueue may be refused (`RequestsSettle`). If
   the worker whose key is still held exits with 1, `onExit` writes FAILED again and
   the retry was merely in vain. But a run that was PATCHed FAILED before its worker
   marked it RUNNING is FAILED while that worker goes on: its updates match no row,
   it exits with 0, and a retry that resets the run before that exit leaves it
   PENDING with no job.
2. Settlements read OPEN outside their transaction and update unconditionally;
   two that overlap pay a bet out twice (`CreditedOnce`).

Other properties hold under a condition, and TLC shows that the condition is
needed:

- *Queue.* Two overlapping enqueues both pass the dedup check: `NoDuplicateJob`
  holds one request at a time. A retry of a run that was imported for several
  assets asks for SPY alone; if there is no row yet for some variant, the worker exits
  with 0 and the run stays RUNNING with no job, without any fault, until somebody
  PATCHes it. `RunningIsOwned` and `QueueDrains` name that outcome (`LeftShort`) next
  to the ones that settle the run. `RunningIsOwned` also leaves out the runs that a
  database error or an API restart has struck (`struck`): of these nobody takes
  care until an operator does.
- *Worker.* PATCH may make any run COMPLETED that is not, whatever its variants have
  got (`amended`), although `crowdvest_context.md:161` says "All expectedVariants must
  exist for run to be complete.": `FinalizedIsComplete` is about runs that a worker
  finalized. A kill between two batches of decisions leaves a part, which the
  retry takes for the whole, and the run completes on it; a second worker, after
  a restart, may empty what the first has computed from (`disturbed`). A retry of
  a multi-asset run asks for SPY only; finalization counts rows, not results, and
  completes the run with a variant never computed, which is why the run here has
  one asset. `completedAt` may stay null on a variant that is complete.
- *Ledger.* Overlapping bets exceed the limits or overdraw the wallet; a first
  `GET /wallet` amid a backfill gives two SEEDs. `MoneyConserved` leaves SEED
  entries out and ends at a `reset`: `reset` writes no ledger row by design, and a
  wallet that `adjust` created gets a backfilled SEED of a balance the ledger
  already holds.
- *Events.* Of two overlapping injections both may report "completed" while the
  decisions lack one of the events, or while the metrics are those the other has
  inserted from older decisions: the second script finds metrics and skips. The same
  happens when an API that died has left a script running. Only the named variant is rerun, so that the
  others stay on older events; a cached accuracy is not refreshed by a rerun.
- *Accuracy.* A kill between the inserts of `ForecastResult` and `RunAccuracy`
  makes every `GET` without overwrite fail on the unique key until somebody
  overwrites; two overlapping computations may mix.
- *Bench.* A move that another has overtaken takes the tag of the owner it read,
  whatever tag that has by now, and a promotion may then replace a baseline it
  was not compared with (`raced`). Promoting an aggregation mode says overwrite by
  itself and so may strip a baseline's tag off the snapshot it promotes. A
  comparison of snapshots that share no symbol has score 0 rather than an error.
- *Simulation.* A curve asked for during the simulation keeps the points it then
  had, for good (`early`). Overwriting the agents during a simulation cascades
  its experiences away, and the script's next insert fails with the run left
  PENDING; two overlapping overwrites may keep both pools. PATCH, and a backtest of
  the same run, complete it whatever the simulation has got (`amended`).
- *Page.* An event submitted while a fetch is still out may show the state before
  it (`overtaken`). A Back to an entry of the other variant, with no
  selection awaited, sets selection and URL chasing each other (the URL effect
  navigates to the old selection before the sync effect takes the new one), so
  `SettlesAlone` is about histories without one.
- *Strategy.* A score exactly at the threshold counts as a setup and is then
  turned down by the gate after it (`dashboard.service.ts:4609`); a stopped trade
  keeps its place under the cap up to the horizon. Both are in the model as they
  are in the code. `NoLookAhead` is about symbols that are traded and whose history is
  extended: with its last missing bar a symbol is traded from the first day on, and a
  new dataset may change everything.

### Fairness

`RunQueue!Fairness` is weak fairness of the steps of request handlers (Node's event
loop runs every ready callback and the database answers), of `Start` (the poll
timer is always rearmed), `MarkRunning`, `Spawn` and `OnExit`, of the late FAILED
writes, and of a worker's steps: it is assumed that a worker ends, which the
code does not enforce (there is no timeout). Errors, crashes and new requests, PATCH
among them, are not fair. Progress (`QueueDrains`) is checked without faults, because
after a crash nobody requeues a run.

`ScenarioView!Fairness` is weak fairness of `Render`, `Navigate`, `Recalculate`,
`Refresh` and the steps of each fetch: the server answers, and React runs the
effects and continuations that are due. Selections, submissions, Back and
failures are up to others.

## 4. Proofs

Eight modules prove the theorems below with TLAPS, for every value of the constants
that meets the assumptions their models name:

| Module | Assumptions on the constants |
|---|---|
| `RunQueue_proofs` | `RetryAssumption`, `ImportAssumption`, `CoversAssumption`, `RequestsAssumption`, `FaultsAssumption`; of `RunRow`, `NullAssumption` and `TimeAssumption` |
| `BacktestWorker_proofs` | `SizeAssumption`, `BoundAssumption`, `PayloadAssumption`, `WorkerAssumption` |
| `VariantEvents_proofs` | `AbsentAssumption`, `BatchAssumption`, `EventBoundAssumption` |
| `BenchSnapshots_proofs` | `TagAssumption`, `BenchBoundAssumption` |
| `BetLedger_proofs` | `AmountAssumption`, `LimitAssumption`, `WalletAssumption`, `ClientAssumption` |
| `SimRun_proofs` | `StepAssumption`, `PoolAssumption`, `AgentAssumption` |
| `ScenarioView_proofs` | `VariantAssumption`, `ViewBoundAssumption` |
| `StrategyBacktest_proofs` | `SymbolAssumption`, `BarAssumption`, `StrategyAssumption` |

They are laid out alike: an inductive invariant that is a conjunction of named
parts, a lemma per part or per action, one step per action, and theorems that
follow from the invariant by temporal steps. TLC checked each invariant on the
bounds of section 3 before it was proved.

- `RunRow`: `RowTypeCorrect`, `RowAuditAlwaysConsistent`, `RowSettledStaysSettled`,
  `RowFreshHandlersFollowLifecycle`, in `RunQueue_proofs`, which extends both modules
  (`RunRow` has names of its own for this: `RowInit`, `RowSpec`, ...). The invariant
  is `RowInv`: `RowTypeOK` and `AuditConsistent`.
  A handler computes the columns it writes from the row it read earlier, which may
  have changed since; nothing more than the type of that older row is needed (lemma
  `UpdatedAudit`), because every update sets or clears, in one row write, all of
  the columns the invariant ties to the status it writes. That a fresh write makes
  a transition of `RunLifecycle` needs `RetriesSawFailed` as well: a retry that is
  still to write has read FAILED.
- `RunQueue`: `TypeCorrect`, `KeysNeverLeak`, `AtMostOneWorker`,
  `RunningAlwaysOwned`, `SettledStaysSettled`, from one inductive invariant `IInv`:
  `TypeOK`, `IdsIssued` (whatever is queued, running or live was issued by a
  request, so a fresh id belongs to no one), `NoKeyLeak`, `OneWorker`,
  `WorkerTold` (when the worker of the loop's job has ended with 0, its run is not
  RUNNING or is short of variants, so that its exit leaves no other run unsettled)
  and `RunningIsOwned`.
  Two properties of the sequential run are proved for any number of clients,
  faults and crashes, under exactly the condition that the code does not enforce:
  `OneJobPerKey` states `NoDuplicateJob` while no two requests of one key are
  between the dedup check and the push at once (`KeysApart`), and
  `RunsFollowLifecycle` that every run refines `RunLifecycle` while beside a retry
  between its read of FAILED and its reset there is no other one of that run, nor a
  PATCH to COMPLETED about to write (`RetriesApart`). `OneRequestAtATime` derives both conditions, and with them both
  properties, for a single client. The invariant adds to `IInv` that a key found
  free stays free up to the push (`StillFree`), that every job has its key in the
  set (`KeysHeld`) and only one job each (`OncePerKey`), and that a run read as
  FAILED stays so up to the reset (`StillFailed`).
- `BacktestWorker`: `TypeCorrect`, `CoveredVariantsComplete`, `FinalizedRunIsComplete`,
  `CompletedAtEarned`, `DecisionsStay`. All but the first speak of variants that are
  not `disturbed`, and the two about completeness of runs that are COMPLETED and not
  `amended`; for these variants
  the invariant says that they are decided wholly or not at all save for a
  worker that is at them alone (`Quiet`), that what was computed was computed from all the decisions
  (`Sound`), how far that worker is (`Placed`), and that every variant a worker has left
  behind is complete (`Passed`), whichever of the three ways to skip one it took. `ResultsBounded` bounds the results of a variant by the
  workers there have been. `CoveredVariantsComplete` states completeness for the
  variants of the assets that a retry asks for (`Covered`), whatever these are.
  `FinalizedRunIsComplete`, for all variants, follows when a retry asks for every asset
  of the run (`Range(Symbols) \subseteq Range(RetrySymbols)`), without which it is
  false: see the retry for SPY in section 3.
- `VariantEvents`: `TypeCorrect`, `CompletedStandsForEvents`,
  `UndoTakesTheNewest`, `ScoresOfOneReading`. As with moves of tags, a request relies on what it
  read statements ago: `Fits` says, statement by statement, what it may rely on as
  long as nothing overlaps it (`Current` of an event, `OfOnePiece` of the scores), and
  `Exclusive` that then no other request of its kind, nor a script that an API
  left behind, is under way. Scripts that were
  killed may have left anything, so nothing is claimed of the decisions before the
  rerun has wiped them; from then on the variant has no metrics, and that is why
  `compute-crowd-metrics` does not skip.
- `BenchSnapshots`: `TypeCorrect`, `OneOwnerPerTag`, `NoTagTakenUnasked`,
  `ProductionAlwaysEarned`, `PromotionsAlwaysImprove`. A move relies on rows read
  statements ago, so the
  invariant `Inv` says of every request what it may still rely on (`Fits`): its
  rows exist, and, unless another move came in between, the target and the owner
  are as they were read. With the unique index (`Conflicting`) that gives one
  owner and nothing taken unasked. `EarnedInv` and `ComparedInv` add what the
  comparison established: payloads never change, so a claim to production stays
  good, and the baseline compared with keeps its tag until another move. That a
  lookup returns a row at all (`MaxOfPositions`) rests on the well-foundedness of
  the naturals.
- `BetLedger`: `TypeCorrect`, `MoneyIsConserved`, `StakesAndDebits`,
  `OnceWhenAlone`, `OpensWithinLimits`. Conservation needs no condition on overlap:
  each transaction writes balance and ledger together, and `Walleted` says that
  no entry precedes its wallet. `Staked` and `Listed` tie a bet to its one debit and a settlement
  to bets that exist; `Stands` and, while no requests have overlapped, `Undisturbed` carry the limits, the
  balance and the OPEN bets a request has read up to the step that relies on them.
  Ledgers are of any length: the lemmas about sums over finite sets take a smallest
  set for which they would fail (`FewestExists`), since the induction theorems
  themselves are out of the provers' reach. A run of the settlement script that
  finds nothing to settle writes nothing, as in `settle.ts`.
- `SimRun`: `TypeCorrect`, `SimulatedIsWhole`, `TradesAlternate`,
  `CurveAllOrNothing`, `PoolReplacesEverything`. `StepsDone` ties the script's
  step to the snapshots and experiences written so far, and the status to them unless it was `amended`, `Gone` says what may be
  missing once the agents were replaced, `Positioned` that the script's memory of positions
  agrees with the actions written, `Drawn` that a curve not begun early is drawn
  from every step, `Replacing` what a generation on its own has deleted.
- `ScenarioView`: `TypeCorrect`, `RestShowsSelection`, `RestIsFresh`,
  `ChasesBeginWithBack`, `ChasesEndWithSelection`, `NoChaseAlone`. A fetch
  carries the variant it was started for (`OfActive`, `Received`), a finished
  one replaces all parts (`Replaced`), a panel's refresh and the effect's fetch
  do not overlap unless overtaken (`Apart`), and what has been received is
  `Current`. All of it is claimed outside a *chase* only (`Chasing`: selection
  and URL chase each other, section 3): a navigation is under way in one, so there
  is no rest and the theorems need no such exception. The other three are about the chase
  itself (`ChaseStep`): only a Back sets it off, only a selection ends it, and so a page
  whose URL nobody changes from outside is never in one, which is the safety half of
  `SettlesAlone`.
- `StrategyBacktest`: `NoLookAheadEver`, `LossesAreBounded`, `CapIsEverHeld`. The
  invariant `Inv` is small: bars are rows of the table (`TypeOK`), of a symbol in the
  order of their days (`InOrder`). What is hard is what the model computes of a
  history. For `NoLookAheadEver`, each operator from `Window` to `Result` is shown to
  keep its value when a bar extends the dataset, which then stays long enough to be
  traded (`BarsStay`). For the other two, a recursive function is
  shown to exist and to stay in a set (`Computed`, `Stays`, from an induction up to a
  number over a *set*, `Induct`, which itself rests on the least element, `MinIs`), so
  that trades are trades of bars that exist (`MadeAll`). `SortedPlaces` shows the sort
  to put every event in a place of its own: the comparator is a total order of the
  events, so their ranks are a bijection. `EventsTimetable` is what is used of it:
  when each trade is entered and closed, and that a day's enters come before its
  exits. `Swept` then says that after every event the open trades are the selected
  ones between enter and exit, never more than the cap; `HeldIsOpen` and
  `OpenIsHeld` relate events to days, `Counts` the reported maximum to both, and
  `PassedOver` that a trade of the same day and score entered later would have been
  passed over as well.

Only model-checked. `QueueDrains`, `RequestsSettle` and `SettlesAlone` are liveness
under fairness, which the prover does not do.

## 5. Not modelled

- `setRunStatus(PENDING)`, `BetsService.create`, `settleBetByIdV2`, `updateBalance`
  and `AgentsGenerateService`: no caller. The spare normal that `rng.ts` keeps
  between calls is reached from the last of these only.
- `persist=full` of the worker and the tables it fills: the queue never passes it.
- A retry for SPY of a run imported without SPY: the worker finds no
  `AssetStepReturn` and leaves with code 1, which is `WorkerDies` of `RunQueue`.
- The arithmetic of `decide`, of metrics, forecasts and rewards: floating point
  over data, no control. Of the dashboard, everything but the strategy backtest,
  and of that the statistics derived from its returns: walk-forward quarters,
  friction, attribution, conviction. They read rows and return numbers.
- `POST /:id/tag` with the production tag: it would give it to any snapshot.
- `SIMULATION_INJECT_SKIP_RERUN`, which leaves the rerun out: it is off.
- Closes that an import revises in place, in the dataset they are in.
- Injection checks no run status; the runs of `VariantEvents` have COMPLETED.
- `lastEvents`, `activeRunIds`, logging; filters, drawers and charts of the web
  client; and all read-only services.
- Imports, profiles, datasets, the info events pipeline and the `cv-*` scripts:
  batch code with one writer, run by hand one after the other.

The list is most of the repository by lines: it is mainly numeric evaluation,
reports and presentation, which keep no state and take no turns.

## 6. Plan

Done: all modules of section 2 with their runs, and the proofs of every safety
property that the runs check.

Next:

1. `BacktestWorker`: what a COMPLETED run may lack of the variants that a retry does
   not ask for; `CoveredVariantsComplete` says what it has of the others.
