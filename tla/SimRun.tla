------------------------------- MODULE SimRun -------------------------------
(***************************************************************************)
(* One simulation: the script apps/worker/src/scripts/sim-run.ts, which    *)
(* steps the agents of packages/sim-core and writes what they did step by  *)
(* step, and the requests that meddle with the run meanwhile: the creation *)
(* on demand of its curve (timeseries.service.ts, settle.ts), the          *)
(* generation of an agent pool (agents-v1.service.ts), the other writers   *)
(* of its status (PATCH, retry and the backtests of runs.service.ts) and   *)
(* the deletion of runs (sim-cleanup.ts).                                  *)
(*                                                                         *)
(* No statement of the script shares a transaction with another.  Rewards  *)
(* and wallets are left out: whether a position is past take-profit or     *)
(* stop-loss is any choice, and a sum of pnl is the steps summed up.       *)
(***************************************************************************)
EXTENDS RunStatus, Naturals, FiniteSets, FiniteSetsExt, Functions

CONSTANTS SimAgents, Keen,  \* RunAgents of the script; those whose traits buy
          NumSteps,         \* --steps
          MaxHoldSteps,     \* SellConfig.maxHoldSteps
          Seeds, Script,    \* seeds of generated pools; stands for the script's own pool
          Clients,
          MaxRequests       \* bound

ASSUME AgentAssumption == Keen \subseteq SimAgents
ASSUME StepAssumption  == NumSteps \in Nat \ {0} /\ MaxHoldSteps \in Nat \ {0} /\ MaxRequests \in Nat
ASSUME PoolAssumption  == Script \notin Seeds

Steps   == 0 .. NumSteps - 1
Actions == {"buy", "sell", "hold"}
Pools   == [seed : Seeds \cup {Script}, id : 0 .. MaxRequests]
Values  == [of : 1 .. NumSteps, total : SUBSET Steps]

VARIABLES exists, status,        \* the SimulationRun row
          agents,                \* RunAgent rows, as pools created together
          experiences,           \* AgentExperience: step -> what each agent did
          snapshots,             \* CrowdSnapshot: steps
          curve,                 \* RunTimeSeries: step -> value
          sim,                   \* the script: pc, step, agent states, sum read
          call,                  \* per client: the request in progress
          requests,
          early,                 \* history: a curve was begun before the last snapshot
          amended                \* history: not the script made the run COMPLETED

run  == <<exists, status, agents, experiences, snapshots>>
vars == <<run, curve, sim, call, requests, early, amended>>

Positions == [hasBought : BOOLEAN, hasSoldAfterBuy : BOOLEAN, positionOpen : BOOLEAN, entryStep : Steps]
Sims  == [pc : {"agents", "experiences", "snapshot", "complete", "debug", "sum", "curve", "done", "dead"},
          step : Steps, positions : [SimAgents -> Positions], total : SUBSET Steps]
Calls == [pc : {"idle", "count", "sum", "write", "delete", "create"},
          of : 0 .. NumSteps, total : SUBSET Steps,
          pool : Pools, doomed : SUBSET Pools, overlapped : BOOLEAN]

ScriptPool == [seed |-> Script, id |-> 0]
Fresh == [hasBought |-> FALSE, hasSoldAfterBuy |-> FALSE, positionOpen |-> FALSE, entryStep |-> 0]
Idle  == [pc |-> "idle", of |-> 0, total |-> {}, pool |-> ScriptPool, doomed |-> {}, overlapped |-> FALSE]

Nothing == [s \in {} |-> {}]

TypeOK ==
    /\ exists \in BOOLEAN /\ status \in Statuses
    /\ agents \subseteq Pools
    /\ DOMAIN experiences \subseteq Steps
    /\ \A s \in DOMAIN experiences : experiences[s] \in [SimAgents -> Actions]
    /\ snapshots \subseteq Steps
    /\ DOMAIN curve \subseteq 0 .. NumSteps /\ \A s \in DOMAIN curve : curve[s] \in Values
    /\ sim \in Sims /\ call \in [Clients -> Calls]
    /\ requests \in 0 .. MaxRequests /\ early \in BOOLEAN /\ amended \in BOOLEAN

\* The script has created its run.
Init ==
    /\ exists = TRUE /\ status = "PENDING" /\ agents = {}
    /\ experiences = Nothing /\ snapshots = {} /\ curve = Nothing
    /\ sim = [pc |-> "agents", step |-> 0, positions |-> [a \in SimAgents |-> Fresh], total |-> {}]
    /\ call = [c \in Clients |-> Idle]
    /\ requests = 0 /\ early = FALSE /\ amended = FALSE

-----------------------------------------------------------------------------
(* sim-core: what an agent does in a step.                                 *)

\* Mutation: > for >=.
DecideLate(a, p, step, hit) ==
    IF p.hasBought /\ ~p.hasSoldAfterBuy THEN "sell"
    ELSE IF p.positionOpen
    THEN IF step - p.entryStep > MaxHoldSteps \/ hit THEN "sell" ELSE "hold"
    ELSE IF a \in Keen THEN "buy" ELSE "hold"

\* The first buy is sold at once; an open position when it is old or past a
\* threshold; without one the traits decide.
decideAction(a, p, step, hit) ==
    IF p.hasBought /\ ~p.hasSoldAfterBuy THEN "sell"
    ELSE IF p.positionOpen
    THEN IF step - p.entryStep >= MaxHoldSteps \/ hit THEN "sell" ELSE "hold"
    ELSE IF a \in Keen THEN "buy" ELSE "hold"

\* runStep's bookkeeping.
After(p, action, step) ==
    CASE action = "buy"  -> [p EXCEPT !.hasBought = TRUE, !.positionOpen = TRUE,
                                      !.entryStep = IF p.positionOpen THEN @ ELSE step]
      [] action = "sell" -> [p EXCEPT !.hasSoldAfterBuy = p.hasBought, !.positionOpen = FALSE]
      [] OTHER           -> p

-----------------------------------------------------------------------------
(* sim-run.                                                                *)

SimGo(pc) == sim' = [sim EXCEPT !.pc = pc]
Requests  == <<call, requests, early>>

\* A pool that is being generated overlaps.
CreateAgents ==
    /\ sim.pc = "agents"
    /\ IF exists THEN agents' = agents \cup {ScriptPool} /\ SimGo("experiences")
                 ELSE UNCHANGED agents /\ SimGo("dead")
    /\ call' = [c \in Clients |-> [call[c] EXCEPT !.overlapped = @ \/ call[c].pc \in {"delete", "create"}]]
    /\ UNCHANGED <<exists, status, experiences, snapshots, curve, requests, early, amended>>

\* Rows of agents that a transaction has deleted but not committed wait for it.
Locked == \E c \in Clients : call[c].pc = "create" /\ ScriptPool \in call[c].doomed

\* One runStep and the createMany of its experiences, which name the agents.
InsertExperiences(hit) ==
    LET action == [a \in SimAgents |-> decideAction(a, sim.positions[a], sim.step, a \in hit)]
    IN  /\ sim.pc = "experiences" /\ ~Locked
        /\ IF exists /\ ScriptPool \in agents
           THEN /\ experiences' = [s \in DOMAIN experiences \cup {sim.step} |->
                                     IF s = sim.step THEN action ELSE experiences[s]]
                /\ sim' = [sim EXCEPT !.pc = "snapshot",
                              !.positions = [a \in SimAgents |-> After(@[a], action[a], sim.step)]]
           ELSE SimGo("dead") /\ UNCHANGED experiences
        /\ UNCHANGED <<exists, status, agents, snapshots, curve, Requests, amended>>

\* Mutation: the loop ends a step early.
NextStepShort == IF sim.step + 2 >= NumSteps THEN [sim EXCEPT !.pc = "complete"]
                                             ELSE [sim EXCEPT !.pc = "experiences", !.step = @ + 1]
NextStep == IF sim.step + 1 = NumSteps THEN [sim EXCEPT !.pc = "complete"]
                                       ELSE [sim EXCEPT !.pc = "experiences", !.step = @ + 1]

InsertSnapshot ==
    /\ sim.pc = "snapshot"
    /\ IF exists THEN snapshots' = snapshots \cup {sim.step} /\ sim' = NextStep
                 ELSE SimGo("dead") /\ UNCHANGED snapshots
    /\ UNCHANGED <<exists, status, agents, experiences, curve, Requests, amended>>

\* setRunStatus, which is silent when the run is gone ...
Complete ==
    /\ sim.pc = "complete"
    /\ status' = IF exists THEN AfterCompleted(status) ELSE status
    /\ amended' = (amended /\ status \notin InFlight)
    /\ SimGo("debug")
    /\ UNCHANGED <<exists, agents, experiences, snapshots, curve, Requests>>

\* ... unlike configJson and RunDebug, of which nothing is kept here ...
WriteDebug ==
    /\ sim.pc = "debug"
    /\ SimGo(IF exists THEN "sum" ELSE "dead")
    /\ UNCHANGED <<run, curve, Requests, amended>>

\* ... and the curve, of all steps.
SumPnl ==
    /\ sim.pc = "sum"
    /\ sim' = [sim EXCEPT !.pc = "curve", !.total = DOMAIN experiences]
    /\ UNCHANGED <<run, curve, Requests, amended>>

\* (step / N) * totalPnl, which is 0 at step 0 whatever N, unless N is 0.
Value(s, n, total) == IF s = 0 /\ n # 0 THEN [of |-> 1, total |-> {}] ELSE [of |-> n, total |-> total]

\* Mutation: length: steps for steps + 1.
LineShort(n, total) == [s \in 0 .. n - 1 |-> Value(s, n, total)]
Line(n, total) == [s \in 0 .. n |-> Value(s, n, total)]

\* createMany with skipDuplicates.
Filled(line) == [s \in DOMAIN curve \cup DOMAIN line |-> IF s \in DOMAIN curve THEN curve[s] ELSE line[s]]

WriteCurve ==
    /\ sim.pc = "curve"
    /\ curve' = IF exists THEN Filled(Line(NumSteps, sim.total)) ELSE curve
    /\ SimGo(IF exists THEN "done" ELSE "dead")
    /\ UNCHANGED <<run, Requests, amended>>

Kill ==
    /\ sim.pc \notin {"done", "dead"} /\ SimGo("dead")
    /\ UNCHANGED <<run, curve, Requests, amended>>

-----------------------------------------------------------------------------
(* GET /runs/:id/timeseries, bets at the price of a step, and settlements: *)
(* ensureRunTimeseries; the settle script does the same by itself.         *)

At(c, pc) == call[c].pc = pc
Answer(c) == call' = [call EXCEPT ![c] = Idle]

\* A curve that has a point is taken as it is: nothing to do.
RequestCurve(c) ==
    /\ At(c, "idle") /\ requests < MaxRequests /\ curve = Nothing
    /\ requests' = requests + 1
    /\ call' = [call EXCEPT ![c].pc = "count"]
    /\ UNCHANGED <<run, curve, sim, early, amended>>

\* Mutation: no 404 without snapshots.
CountUnchecked(c) ==
    /\ At(c, "count")
    /\ IF exists
       THEN /\ call' = [call EXCEPT ![c].pc = "sum", ![c].of = Cardinality(snapshots)]
            /\ early' = (early \/ snapshots # Steps)
       ELSE Answer(c) /\ UNCHANGED early
    /\ UNCHANGED <<run, curve, sim, requests, amended>>

\* 404 without snapshots.
CountSnapshots(c) ==
    /\ At(c, "count")
    /\ IF exists /\ snapshots # {}
       THEN /\ call' = [call EXCEPT ![c].pc = "sum", ![c].of = Cardinality(snapshots)]
            /\ early' = (early \/ snapshots # Steps)
       ELSE Answer(c) /\ UNCHANGED early
    /\ UNCHANGED <<run, curve, sim, requests, amended>>

SumExperiences(c) ==
    /\ At(c, "sum")
    /\ call' = [call EXCEPT ![c].pc = "write", ![c].total = DOMAIN experiences]
    /\ UNCHANGED <<run, curve, sim, requests, early, amended>>

CreateCurve(c) ==
    /\ At(c, "write")
    /\ curve' = IF exists THEN Filled(Line(call[c].of, call[c].total)) ELSE curve
    /\ Answer(c)
    /\ UNCHANGED <<run, sim, requests, early, amended>>

-----------------------------------------------------------------------------
(* POST /agents/generate.                                                  *)

Generating(c) == call[c].pc \in {"delete", "create"}

\* existingCount is read before the transaction; without overwrite, agents
\* that exist are left as they are.
RequestGenerate(c, seed, overwrite) ==
    LET others == {d \in Clients : Generating(d)}
        pc     == IF agents # {} THEN "delete" ELSE "create"
    IN  /\ At(c, "idle") /\ requests < MaxRequests /\ exists
        /\ overwrite \/ agents = {}
        /\ requests' = requests + 1
        /\ call' = [d \in Clients |->
                      IF d = c THEN [Idle EXCEPT !.pc = pc, !.pool = [seed |-> seed, id |-> requests + 1],
                                                 !.overlapped = others # {}]
                      ELSE [call[d] EXCEPT !.overlapped = @ \/ d \in others]]
        /\ UNCHANGED <<run, curve, sim, early, amended>>

\* The agents that the deleteMany of the transaction sees.
DeleteAgents(c) ==
    /\ At(c, "delete")
    /\ call' = [call EXCEPT ![c].pc = "create", ![c].doomed = agents]
    /\ UNCHANGED <<run, curve, sim, requests, early, amended>>

Clashes(c) == \E p \in agents \ call[c].doomed : p.seed = call[c].pool.seed

\* Mutation: the agents are kept.
CommitAgentsKeep(c) ==
    /\ At(c, "create")
    /\ agents' = IF Clashes(c) \/ ~exists THEN agents ELSE agents \cup {call[c].pool}
    /\ Answer(c)
    /\ UNCHANGED <<exists, status, experiences, snapshots, curve, sim, requests, early, amended>>

\* The inserts, whose ids follow from run and seed, and the commit; an id that
\* exists rolls back.  What the deleted agents did goes with them.
CommitAgents(c) ==
    /\ At(c, "create")
    /\ IF Clashes(c) \/ ~exists
       THEN UNCHANGED <<agents, experiences>>
       ELSE /\ agents' = (agents \ call[c].doomed) \cup {call[c].pool}
            /\ experiences' = IF ScriptPool \in call[c].doomed THEN Nothing ELSE experiences
    /\ Answer(c)
    /\ UNCHANGED <<exists, status, snapshots, curve, sim, requests, early, amended>>

-----------------------------------------------------------------------------
(* The other writers of the status.                                        *)

\* PATCH /runs/:runId/status, which asks neither the script nor the steps: of
\* any run that is not COMPLETED yet ...
PatchCompleted ==
    /\ exists /\ status # "COMPLETED"
    /\ status' = "COMPLETED" /\ amended' = TRUE
    /\ UNCHANGED <<exists, agents, experiences, snapshots, curve, sim, Requests>>

\* ... or FAILED; and POST /runs/:id/retry.
PatchFailed ==
    /\ exists /\ status # "COMPLETED"
    /\ status' = AfterFailed(status)
    /\ UNCHANGED <<exists, agents, experiences, snapshots, curve, sim, Requests, amended>>

Retry ==
    /\ exists /\ status = "FAILED"
    /\ status' = AfterRetry(status)
    /\ UNCHANGED <<exists, agents, experiences, snapshots, curve, sim, Requests, amended>>

\* A backtest that a retry or POST /jobs/enqueue once queued for the run begins
\* or fails, or is done (with --persist lite: no rows that are read here).
Backtest ==
    /\ exists
    /\ \/ status' \in {AfterRunning(status), AfterFailed(status)} /\ UNCHANGED amended
       \/ status' = AfterCompleted(status) /\ amended' = (amended \/ status \in InFlight)
    /\ UNCHANGED <<exists, agents, experiences, snapshots, curve, sim, Requests>>

-----------------------------------------------------------------------------
\* The API dies, or the transaction takes over 5 s: rolled back.
Abort(c) ==
    /\ ~At(c, "idle") /\ Answer(c)
    /\ UNCHANGED <<run, curve, sim, requests, early, amended>>

\* sim:cleanup, sim:ci --keepLast and DELETE /runs/:id, with all that refers
\* to the run.
DeleteRun ==
    /\ exists /\ requests < MaxRequests /\ requests' = requests + 1
    /\ exists' = FALSE
    /\ agents' = {} /\ experiences' = Nothing /\ snapshots' = {} /\ curve' = Nothing
    /\ UNCHANGED <<status, sim, call, early, amended>>

Simulate ==
    \/ CreateAgents \/ (\E hit \in SUBSET Keen : InsertExperiences(hit)) \/ InsertSnapshot
    \/ Complete \/ WriteDebug \/ SumPnl \/ WriteCurve \/ Kill

Next ==
    \/ Simulate \/ PatchCompleted \/ PatchFailed \/ Retry \/ Backtest \/ DeleteRun
    \/ \E c \in Clients :
         \/ RequestCurve(c) \/ CountSnapshots(c) \/ SumExperiences(c) \/ CreateCurve(c)
         \/ \E seed \in Seeds, overwrite \in BOOLEAN : RequestGenerate(c, seed, overwrite)
         \/ DeleteAgents(c) \/ CommitAgents(c) \/ Abort(c)

Spec == Init /\ [][Next]_vars

-----------------------------------------------------------------------------
\* A simulation that the script has made COMPLETED, or whose script has ended
\* well, has every step, and what its agents did in each unless they were
\* replaced, whoever interferes.  (A PATCH or a backtest makes it COMPLETED
\* whatever it has.)
SimulatedHasEveryStep ==
    exists /\ (sim.pc = "done" \/ (status = "COMPLETED" /\ ~amended)) =>
      /\ snapshots = Steps
      /\ ScriptPool \in agents => DOMAIN experiences = Steps

\* maxHoldSteps and "guarantees sells after buys": agents buy and sell by
\* turns, and hold no longer than MaxHoldSteps.
Trades(a) == {s \in DOMAIN experiences : experiences[s][a] # "hold"}
TradesTakeTurns ==
    \A a \in SimAgents : \A s \in Trades(a) :
      LET before == {t \in Trades(a) : t < s}
      IN  /\ experiences[s][a] = "buy" <=>
               (before = {} \/ experiences[Max(before)][a] = "sell")
          /\ experiences[s][a] = "sell" => s - Max(before) <= MaxHoldSteps
          /\ experiences[s][a] = "buy" /\ s + MaxHoldSteps \in DOMAIN experiences
             => \E t \in Trades(a) : t > s /\ t <= s + MaxHoldSteps

\* When nobody asked for the curve before the last snapshot, whoever writes it
\* then, and however they overlap with the script and each other, the curve
\* is all or nothing and runs up to the pnl of every step.
Truth == [s \in 0 .. NumSteps |-> Value(s, NumSteps, Steps)]
CurveIsWhole == ScriptPool \in agents /\ ~early => curve \in {Nothing, Truth}

\* "overwrite=false: no-op if agents exist; overwrite=true: replace all": a
\* generation leaves its own pool and nothing else, unless two overlap or the
\* script creates its own meanwhile.
PoolReplacesAll ==
    [][\A c \in Clients :
         At(c, "create") /\ call[c].pool \in agents' /\ ~call[c].overlapped
         => agents' = {call[c].pool}]_agents
=============================================================================
