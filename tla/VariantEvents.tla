--------------------------- MODULE VariantEvents ----------------------------
(***************************************************************************)
(* Events injected into a finished run, and what is computed from them:    *)
(* simulation.service.ts (inject, reset, undo), which reruns decide.ts and *)
(* compute-crowd-metrics.ts for one variant, both called with a bare       *)
(* --overwrite, which only decide.ts understands, and forecast.service.ts, *)
(* which derives the accuracy of the run from the decisions of all its     *)
(* variants.  The scripts are processes of their own and may outlive the   *)
(* API.                                                                    *)
(*                                                                         *)
(* The variants are those of one run and asset, which share its InfoEvents.*)
(* A decision row is a batch and the events it was decided from; metrics   *)
(* and accuracy rows are stood for by what they were computed from.  Each  *)
(* action is one database statement, with the computation that follows it; *)
(* the six deletes that decide starts with are one.                        *)
(***************************************************************************)
EXTENDS Naturals, FiniteSetsExt

CONSTANTS Variants, NumBatches, Clients, Absent,
          MaxRequests, MaxFailures \* bounds

ASSUME AbsentAssumption == Absent \notin Variants
ASSUME BatchAssumption == NumBatches \in Nat \ {0}
ASSUME EventBoundAssumption == MaxRequests \in Nat /\ MaxFailures \in Nat

EventIds == 1 .. MaxRequests
Batches  == 1 .. NumBatches
Rows     == [batch : Batches, basis : SUBSET EventIds]

VARIABLES events,    \* InfoEvent rows, numbered in order of creation
          latest,    \* the variant with the newest completedAt
          decisions, \* AgentDecision rows, per variant
          metrics,   \* CrowdMetrics, per variant: what they were computed from
          forecast, accuracy, diagnostics, \* ForecastResult, RunAccuracy, RunSignalDiagnostics
          call,      \* per client: the request in progress
          requests, failures

data   == <<events, latest, decisions, metrics>>
report == <<forecast, accuracy, diagnostics>>
bounds == <<requests, failures>>
vars   == <<data, report, call, bounds>>

\* orphan: the API is gone, its script goes on.  overlapped is history: whether
\* another request of its kind, or the script of one, was in progress at any time
\* since it came.
Calls == [pc : {"idle", "delete", "stamp", "wipe", "read", "clear", "insert", "countMetrics",
                "readDecisions", "readEvents", "insertMetrics",
                "drop", "count", "forecast", "accuracy", "diagnostics"},
          kind : {"none", "events", "accuracy"}, overwrite : BOOLEAN,
          v : Variants \cup {Absent}, event : EventIds \cup {0},
          batch : Batches, basis : SUBSET EventIds, seen : SUBSET Rows,
          votes : [Variants -> SUBSET Rows] \cup {Absent},
          orphan : BOOLEAN, overlapped : BOOLEAN]

Idle == [pc |-> "idle", kind |-> "none", overwrite |-> FALSE, v |-> Absent, event |-> 0,
         batch |-> 1, basis |-> {}, seen |-> {}, votes |-> Absent,
         orphan |-> FALSE, overlapped |-> FALSE]

Derived == [decisions : SUBSET Rows, events : SUBSET EventIds]

TypeOK ==
    /\ events \in SUBSET EventIds /\ latest \in Variants
    /\ decisions \in [Variants -> SUBSET Rows]
    /\ metrics \in [Variants -> Derived \cup {Absent}]
    /\ \A r \in {forecast, accuracy, diagnostics} :
         r \in [Variants -> SUBSET Rows] \cup {Absent}
    /\ call \in [Clients -> Calls]
    /\ requests \in 0 .. MaxRequests /\ failures \in 0 .. MaxFailures

AllRows(E) == [batch : Batches, basis : {E}]

\* A run that has COMPLETED, without events and not yet scored.
Init ==
    /\ events = {} /\ latest \in Variants
    /\ decisions = [v \in Variants |-> AllRows({})]
    /\ metrics = [v \in Variants |-> [decisions |-> AllRows({}), events |-> {}]]
    /\ forecast = Absent /\ accuracy = Absent /\ diagnostics = Absent
    /\ call = [c \in Clients |-> Idle]
    /\ requests = 0 /\ failures = 0

-----------------------------------------------------------------------------
At(c, pc)  == call[c].pc = pc
Go(c, pc)  == call' = [call EXCEPT ![c].pc = pc]
Answer(c)  == call' = [call EXCEPT ![c] = Idle]

\* A request comes; those of its kind that are in progress overlap with it.
Arrive(c, k) ==
    LET others == {d \in Clients \ {c} : call[d].kind = k.kind}
    IN  /\ call[c] = Idle /\ requests < MaxRequests
        /\ requests' = requests + 1
        /\ call' = [d \in Clients |->
                      IF d = c THEN [k EXCEPT !.overlapped = others # {}]
                      ELSE IF d \in others THEN [call[d] EXCEPT !.overlapped = TRUE]
                      ELSE call[d]]
        /\ UNCHANGED failures

Rerun(v) == [Idle EXCEPT !.pc = "stamp", !.kind = "events", !.v = v]

(* The three event requests.                                               *)

\* POST /simulation/inject-event: into the run and asset, whatever variant is
\* named; without a name the latest is rerun.
Inject(c, v) ==
    /\ events' = events \cup {requests + 1}
    /\ Arrive(c, Rerun(v))
    /\ UNCHANGED <<latest, decisions, metrics, report>>
InjectLatest(c) == Inject(c, latest)

\* DELETE /simulation/events: all InfoEvents of run and asset.
Reset(c, v) ==
    /\ events' = {}
    /\ Arrive(c, Rerun(v))
    /\ UNCHANGED <<latest, decisions, metrics, report>>

\* Mutation: the oldest first.
FirstEvent == Min(events)

\* orderBy createdAt desc.
LastEvent == Max(events)

\* DELETE /simulation/events/last finds the newest ("skipped" without one) ...
Undo(c, v) ==
    /\ events # {}
    /\ Arrive(c, [Rerun(v) EXCEPT !.pc = "delete", !.event = LastEvent])
    /\ UNCHANGED <<data, report>>

\* ... and deletes it by id; one that is gone fails the request (P2025).
DeleteEvent(c) ==
    /\ At(c, "delete")
    /\ events' = events \ {call[c].event}
    /\ IF call[c].event \in events
       THEN call' = [call EXCEPT ![c].pc = "stamp", ![c].event = 0]
       ELSE Answer(c)
    /\ UNCHANGED <<latest, decisions, metrics, report, bounds>>

(* rerunVariantPipelines.                                                  *)

Stamp(c) ==
    /\ At(c, "stamp")
    /\ latest' = call[c].v
    /\ Go(c, "wipe")
    /\ UNCHANGED <<events, decisions, metrics, report, bounds>>

\* Mutation: decide leaves the CrowdMetrics to compute-crowd-metrics.
WipeKeepsMetrics(c) ==
    /\ At(c, "wipe")
    /\ decisions' = [decisions EXCEPT ![call[c].v] = {}]
    /\ Go(c, "read")
    /\ UNCHANGED <<events, latest, metrics, report, bounds>>

\* decide --overwrite deletes what the variant has, its CrowdMetrics too ...
Wipe(c) ==
    /\ At(c, "wipe")
    /\ decisions' = [decisions EXCEPT ![call[c].v] = {}]
    /\ metrics' = [metrics EXCEPT ![call[c].v] = Absent]
    /\ Go(c, "read")
    /\ UNCHANGED <<events, latest, report, bounds>>

\* ... reads the events and computes ...
ReadEvents(c) ==
    /\ At(c, "read")
    /\ call' = [call EXCEPT ![c].pc = "clear", ![c].basis = events]
    /\ UNCHANGED <<data, report, bounds>>

\* ... deletes the decisions once more and inserts, a batch at a time.
Clear(c) ==
    /\ At(c, "clear")
    /\ decisions' = [decisions EXCEPT ![call[c].v] = {}]
    /\ call' = [call EXCEPT ![c].pc = "insert", ![c].batch = 1]
    /\ UNCHANGED <<events, latest, metrics, report, bounds>>

\* Mutation: one slice too many.
LastBatchLate(b) == b > NumBatches

\* for (i = 0; i < rows.length; i += 1000)
LastBatch(b) == b = NumBatches

Present(c) == \E r \in decisions[call[c].v] : r.batch = call[c].batch

\* decide is done: the API starts compute-crowd-metrics, if it is there.
Decided(k) ==
    IF k.orphan THEN Idle ELSE [k EXCEPT !.pc = "countMetrics", !.batch = 1, !.basis = {}]

\* A batch that another rerun has inserted violates the unique key: "failed".
Insert(c) ==
    LET k == call[c]
    IN  /\ k.pc = "insert"
        /\ IF Present(c)
           THEN Answer(c) /\ UNCHANGED decisions
           ELSE /\ decisions' = [decisions EXCEPT ![k.v] =
                                    @ \cup {[batch |-> k.batch, basis |-> k.basis]}]
                /\ call' = [call EXCEPT ![c] = IF LastBatch(k.batch) THEN Decided(k)
                                               ELSE [k EXCEPT !.batch = k.batch + 1]]
        /\ UNCHANGED <<events, latest, metrics, report, bounds>>

\* compute-crowd-metrics takes a bare --overwrite for none: "SKIP crowd-metrics
\* (existing N, overwrite=false)" and exit code 0, which is "completed".
CountMetrics(c) ==
    /\ At(c, "countMetrics")
    /\ IF metrics[call[c].v] # Absent THEN Answer(c) ELSE Go(c, "readDecisions")
    /\ UNCHANGED <<data, report, bounds>>

\* Else it reads the decisions ...
ReadDecisions(c) ==
    /\ At(c, "readDecisions")
    /\ call' = [call EXCEPT ![c].pc = "readEvents", ![c].seen = decisions[call[c].v]]
    /\ UNCHANGED <<data, report, bounds>>

\* ... and, by itself, the events ...
ReadEventsAgain(c) ==
    /\ At(c, "readEvents")
    /\ call' = [call EXCEPT ![c].pc = "insertMetrics", ![c].basis = events]
    /\ UNCHANGED <<data, report, bounds>>

\* ... and inserts: "completed", or "failed" when others have been inserted
\* meanwhile.  Without decisions there is nothing to insert.
InsertMetrics(c) ==
    LET k == call[c]
    IN  /\ k.pc = "insertMetrics"
        /\ metrics' = IF metrics[k.v] # Absent \/ k.seen = {} THEN metrics
                      ELSE [metrics EXCEPT ![k.v] = [decisions |-> k.seen, events |-> k.basis]]
        /\ Answer(c)
        /\ UNCHANGED <<events, latest, decisions, report, bounds>>

-----------------------------------------------------------------------------
(* GET /runs/:id/accuracy: computeRunAccuracy.                             *)

\* Without overwrite: whatever RunAccuracy there is, with the diagnostics
\* there are, however old; else it computes.
GetAccuracy(c) ==
    /\ IF accuracy # Absent
       THEN requests < MaxRequests /\ requests' = requests + 1 /\ UNCHANGED <<call, failures>>
       ELSE Arrive(c, [Idle EXCEPT !.pc = "count", !.kind = "accuracy"])
    /\ UNCHANGED <<data, report>>

OverwriteAccuracy(c) ==
    /\ Arrive(c, [Idle EXCEPT !.pc = "drop", !.kind = "accuracy", !.overwrite = TRUE])
    /\ UNCHANGED <<data, report>>

\* Mutation: RunSignalDiagnostics are left.
DropAccuracyOnly(c) ==
    /\ At(c, "drop")
    /\ forecast' = Absent /\ accuracy' = Absent
    /\ Go(c, "count")
    /\ UNCHANGED <<diagnostics, data, bounds>>

\* The three tables in one transaction.
DropReport(c) ==
    /\ At(c, "drop")
    /\ forecast' = Absent /\ accuracy' = Absent /\ diagnostics' = Absent
    /\ Go(c, "count")
    /\ UNCHANGED <<data, bounds>>

\* The votes, over all variants of the run.
CountVotes(c) ==
    /\ At(c, "count")
    /\ call' = [call EXCEPT ![c].pc = "forecast", ![c].votes = decisions]
    /\ UNCHANGED <<data, report, bounds>>

NoVotes(c) == \A v \in Variants : call[c].votes[v] = {}

\* createMany without skipDuplicates, of no rows when there were no votes:
\* rows that are there already fail the request (P2002).
Create(c, table, next) ==
    IF NoVotes(c) \/ table # Absent
    THEN /\ table' = table
         /\ call' = [call EXCEPT ![c] = IF NoVotes(c) THEN next ELSE Idle]
    ELSE /\ table' = call[c].votes
         /\ call' = [call EXCEPT ![c] = next]

CreateForecast(c) ==
    /\ At(c, "forecast") /\ Create(c, forecast, [call[c] EXCEPT !.pc = "accuracy"])
    /\ UNCHANGED <<accuracy, diagnostics, data, bounds>>

CreateAccuracy(c) ==
    /\ At(c, "accuracy") /\ Create(c, accuracy, [call[c] EXCEPT !.pc = "diagnostics"])
    /\ UNCHANGED <<forecast, diagnostics, data, bounds>>

CreateDiagnostics(c) ==
    /\ At(c, "diagnostics") /\ Create(c, diagnostics, Idle)
    /\ UNCHANGED <<forecast, accuracy, data, bounds>>

\* A script fails or takes 15 minutes: no further statement.
Fail(c) ==
    /\ call[c] # Idle /\ failures < MaxFailures
    /\ failures' = failures + 1
    /\ Answer(c)
    /\ UNCHANGED <<data, report, requests>>

\* The API dies with its requests; scripts that are running go on or not.
InScript(c) == call[c].pc \in {"wipe", "read", "clear", "insert", "countMetrics",
                               "readDecisions", "readEvents", "insertMetrics"}
Crash ==
    /\ failures < MaxFailures /\ failures' = failures + 1
    /\ \E left \in SUBSET {c \in Clients : InScript(c)} :
         call' = [c \in Clients |-> IF c \in left THEN [call[c] EXCEPT !.orphan = TRUE] ELSE Idle]
    /\ UNCHANGED <<data, report, requests>>

Pipeline(c) ==
    \/ DeleteEvent(c) \/ Stamp(c) \/ Wipe(c) \/ ReadEvents(c) \/ Clear(c) \/ Insert(c)
    \/ CountMetrics(c) \/ ReadDecisions(c) \/ ReadEventsAgain(c) \/ InsertMetrics(c)

Scoring(c) ==
    DropReport(c) \/ CountVotes(c) \/ CreateForecast(c) \/ CreateAccuracy(c) \/ CreateDiagnostics(c)

Next ==
    \/ \E c \in Clients :
         \/ \E v \in Variants : Inject(c, v) \/ Reset(c, v) \/ Undo(c, v)
         \/ InjectLatest(c) \/ GetAccuracy(c) \/ OverwriteAccuracy(c)
         \/ Pipeline(c) \/ Scoring(c) \/ Fail(c)
    \/ Crash

Spec == Init /\ [][Next]_vars

-----------------------------------------------------------------------------
Answers(c) == call[c] # Idle /\ call'[c] = Idle

\* recalculationStatus "completed", with metrics inserted or skipped: unless two
\* event requests, or a request and the script that another left behind,
\* overlapped, the decisions of the variant stand for the events there are, and
\* its metrics for these decisions and events, whatever earlier reruns left.
Completes(c) ==
    /\ Answers(c) /\ failures' = failures /\ ~call[c].orphan
    /\ At(c, "countMetrics") \/ At(c, "insertMetrics")
CompletedIsCurrent ==
    [][\A c \in Clients :
         Completes(c) /\ ~call[c].overlapped
         => /\ decisions[call[c].v] = AllRows(events)
            /\ metrics'[call[c].v] = [decisions |-> decisions[call[c].v], events |-> events]]_vars

\* Undo takes one event, and of those there were when it came the newest.
UndoTakesNewest ==
    [][\A e \in events \ events' :
         \/ events' = {} /\ requests' # requests
         \/ /\ events \ events' = {e}
            /\ \/ \A f \in events' : f < e
               \/ \E c \in Clients : call[c].event = e /\ call[c].overlapped]_events

\* Scores computed with overwrite are of one reading of the votes, in all three
\* tables, whatever earlier computations left behind and while reruns replace
\* the decisions.  (Computations that overlap may mix; without overwrite, rows
\* that one of them or a kill left make the request fail.)
ScoresAreOfOnePiece ==
    [][\A c \in Clients :
         /\ Answers(c) /\ At(c, "diagnostics") /\ failures' = failures
         /\ call[c].overwrite /\ ~call[c].overlapped /\ ~NoVotes(c)
         => /\ forecast = call[c].votes /\ accuracy = call[c].votes
            /\ diagnostics' = call[c].votes]_vars
=============================================================================
