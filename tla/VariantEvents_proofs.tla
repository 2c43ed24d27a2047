------------------------ MODULE VariantEvents_proofs ------------------------
(***************************************************************************)
(* Theorems about VariantEvents for any variants, number of batches,       *)
(* clients and requests.                                                   *)
(***************************************************************************)
EXTENDS VariantEvents, WellFoundedInduction, TLAPS

\* A set of numbers from 1 to n has a largest.
LEMMA LargestExists ==
  ASSUME NEW n \in Nat, NEW S \in SUBSET (1 .. n), S # {}
  PROVE  Max(S) \in S /\ \A i \in S : i <= Max(S)
<1> DEFINE T == {k \in Nat : n - k \in S}
           R == OpToRel(<, Nat)
<1>1. PICK i \in S : TRUE
  OBVIOUS
<1>2. n - i \in T
  <2>1. n - i \in Nat /\ n - (n - i) = i
    OBVIOUS
  <2>. QED
    BY <2>1
<1>3. PICK m \in T : \A k \in T : <<k, m>> \notin R
  <2>1. T \subseteq Nat /\ T # {}
    BY <1>2
  <2>2. IsWellFoundedOn(R, Nat)
    BY NatLessThanWellFounded
  <2> HIDE DEF T, R
  <2>. QED
    BY <2>1, <2>2, WFMin
<1>4. \A k \in T : ~(k < m)
  BY <1>3 DEF OpToRel
<1>5. ASSUME NEW j \in S PROVE n - m >= j
  <2>1. n - j \in Nat /\ n - (n - j) = j
    OBVIOUS
  <2>2. n - j \in T
    BY <2>1
  <2>. QED
    BY <1>4, <2>2
<1>. QED
  BY <1>3, <1>5 DEF Max

-----------------------------------------------------------------------------
USE AbsentAssumption, BatchAssumption, EventBoundAssumption

\* Where the two kinds of request may be.
EventSteps == {"delete", "stamp", "wipe", "read", "clear", "insert", "countMetrics",
               "readDecisions", "readEvents", "insertMetrics"}
ScoreSteps == {"drop", "count", "forecast", "accuracy", "diagnostics"}

\* A request is idle, or at a step of its kind.
Placed(k) ==
    \/ k = Idle
    \/ k.pc \in EventSteps /\ k.kind = "events" /\ k.v \in Variants /\ ~k.overwrite
    \/ k.pc \in ScoreSteps /\ k.kind = "accuracy" /\ k.event = 0

\* What an event request k that nothing overlaps may rely on: the event it is
\* about to delete is the newest, from the second read of the events on what it
\* has written and read is of the events there are, and the metrics stay away
\* that decide has deleted.
Undecided == {"read", "clear", "insert"}
Measuring == {"countMetrics", "readDecisions", "readEvents", "insertMetrics"}
Current(E, D, M, k) ==
    /\ k.pc = "delete" => k.event \in E /\ \A e \in E : e <= k.event
    /\ k.pc \in {"clear", "insert", "insertMetrics"} => k.basis = E
    /\ k.pc = "insert" => D[k.v] = [batch : 1 .. k.batch - 1, basis : {E}]
    /\ k.pc \in Measuring => D[k.v] = AllRows(E)
    /\ k.pc \in {"readEvents", "insertMetrics"} => k.seen = AllRows(E)
    /\ k.pc \in Undecided \cup Measuring => M[k.v] = Absent

\* What a computation of the scores k with overwrite may rely on that nothing
\* overlaps: each table is as it dropped it or as it wrote it.
Empty(k) == \A v \in Variants : k.votes[v] = {}
OfOnePiece(f, a, d, k) ==
    /\ k.pc \in {"count", "forecast"} => f = Absent
    /\ k.pc \in {"accuracy", "diagnostics"} => Empty(k) \/ f = k.votes
    /\ k.pc \in {"count", "forecast", "accuracy"} => a = Absent
    /\ k.pc = "diagnostics" => Empty(k) \/ a = k.votes
    /\ k.pc \in {"count", "forecast", "accuracy", "diagnostics"} => d = Absent

\* A request that nothing overlaps is the only one of its kind in progress.
Exclusive ==
    \A c, d \in Clients :
      c # d /\ call[c].kind = call[d].kind /\ call[c].kind # "none" => call[c].overlapped

Fits(c) ==
    /\ Placed(call[c])
    /\ call[c].kind = "events" /\ ~call[c].overlapped => Current(events, decisions, metrics, call[c])
    /\ call[c].overwrite /\ ~call[c].overlapped => OfOnePiece(forecast, accuracy, diagnostics, call[c])

Inv == TypeOK /\ Exclusive /\ \A c \in Clients : Fits(c)

-----------------------------------------------------------------------------
LEMMA IdleIsCall == Idle \in Calls
BY DEF Idle, Calls, Batches

\* A request that goes to another step, with what it read there, is a request.
LEMMA StepIsCall ==
  ASSUME NEW k \in Calls, NEW pc \in EventSteps \cup ScoreSteps
  PROVE  /\ \A e \in EventIds \cup {0} : [k EXCEPT !.pc = pc, !.event = e] \in Calls
         /\ \A b \in Batches : [k EXCEPT !.pc = pc, !.batch = b] \in Calls
         /\ \A E \in SUBSET EventIds : [k EXCEPT !.pc = pc, !.basis = E] \in Calls
         /\ \A R \in SUBSET Rows : [k EXCEPT !.pc = pc, !.seen = R] \in Calls
         /\ \A V \in [Variants -> SUBSET Rows] : [k EXCEPT !.pc = pc, !.votes = V] \in Calls
<1> DEFINE n == [k EXCEPT !.pc = pc]
<1>1. n \in Calls
  BY DEF Calls, EventSteps, ScoreSteps
<1> HIDE DEF n
<1>2. \A e \in EventIds \cup {0} : [n EXCEPT !.event = e] \in Calls
  BY <1>1 DEF Calls
<1>3. \A b \in Batches : [n EXCEPT !.batch = b] \in Calls
  BY <1>1 DEF Calls
<1>4. \A E \in SUBSET EventIds : [n EXCEPT !.basis = E] \in Calls
  BY <1>1 DEF Calls
<1>5. \A R \in SUBSET Rows : [n EXCEPT !.seen = R] \in Calls
  BY <1>1 DEF Calls
<1>6. \A V \in [Variants -> SUBSET Rows] : [n EXCEPT !.votes = V] \in Calls
  BY <1>1 DEF Calls
<1>. QED
  BY <1>2, <1>3, <1>4, <1>5, <1>6 DEF n

LEMMA AllRowsAreRows == ASSUME NEW E \in SUBSET EventIds PROVE AllRows(E) \in SUBSET Rows
BY DEF AllRows, Rows

LEMMA InitInv == Init => Inv
<1> SUFFICES ASSUME Init PROVE Inv
  OBVIOUS
<1>1. AllRows({}) \in SUBSET Rows
  BY AllRowsAreRows
<1>2. [decisions |-> AllRows({}), events |-> {}] \in Derived
  BY <1>1 DEF Derived
<1>3. TypeOK
  BY <1>1, <1>2, IdleIsCall DEF Init, TypeOK
<1>4. Exclusive
  BY DEF Init, Exclusive, Idle
<1>5. \A c \in Clients : Fits(c)
  BY DEF Init, Fits, Placed, Current, OfOnePiece, Idle
<1>. QED
  BY <1>3, <1>4, <1>5 DEF Inv

\* The new state k of request c, when it stays of its kind or ends.
Proceeds(c, k) ==
    /\ k \in Calls /\ Placed(k)
    /\ k = Idle \/ (k.kind = call[c].kind /\ k.overlapped = call[c].overlapped)
    /\ call' = [call EXCEPT ![c] = k]

LEMMA CallMoves ==
  ASSUME Inv, NEW c \in Clients, NEW k, Proceeds(c, k)
  PROVE  /\ call' \in [Clients -> Calls]
         /\ \A d \in Clients : call'[d] = IF d = c THEN k ELSE call[d]
         /\ Exclusive'
<1>1. call \in [Clients -> Calls] /\ Exclusive
  BY DEF Inv, TypeOK
<1>2. call' \in [Clients -> Calls]
  BY <1>1 DEF Proceeds
<1>3. \A d \in Clients : call'[d] = IF d = c THEN k ELSE call[d]
  BY <1>1 DEF Proceeds
<1>4. Idle.kind = "none"
  BY DEF Idle
<1>5. Exclusive'
  BY <1>1, <1>3, <1>4 DEF Exclusive, Proceeds
<1>. QED
  BY <1>2, <1>3, <1>5

\* A step of one event request changes nothing another request relies on.
LEMMA EventRequestMoves ==
  ASSUME Inv, NEW c \in Clients, NEW k, Proceeds(c, k), call[c].kind = "events",
         events' \in SUBSET EventIds, latest' \in Variants,
         decisions' \in [Variants -> SUBSET Rows],
         metrics' \in [Variants -> Derived \cup {Absent}],
         UNCHANGED report, requests' \in 0 .. MaxRequests, failures' \in 0 .. MaxFailures,
         k # Idle /\ ~k.overlapped => Current(events', decisions', metrics', k)
  PROVE  Inv'
<1>1. /\ call' \in [Clients -> Calls] /\ Exclusive'
      /\ \A d \in Clients : call'[d] = IF d = c THEN k ELSE call[d]
  BY CallMoves
<1>2. TypeOK'
  BY <1>1 DEF Inv, TypeOK, report
<1>3. k = Idle \/ (k.kind = "events" /\ ~k.overwrite)
  BY DEF Proceeds, Placed, Idle
<1>4. Idle.kind = "none" /\ ~Idle.overwrite
  BY DEF Idle
<1>5. Fits(c)'
  BY <1>1, <1>3, <1>4 DEF Fits, Proceeds
<1>6. ASSUME NEW d \in Clients, d # c PROVE Fits(d)'
  <2>1. call'[d] = call[d] /\ Fits(d)
    BY <1>1, <1>6 DEF Inv
  <2>2. call[d].kind = "events" => call[d].overlapped
    BY <1>6 DEF Inv, Exclusive
  <2>. QED
    BY <2>1, <2>2 DEF Fits, report
<1>. QED
  BY <1>1, <1>2, <1>5, <1>6 DEF Inv

\* Nor does a step of a computation of the scores.
LEMMA ScoreRequestMoves ==
  ASSUME Inv, NEW c \in Clients, NEW k, Proceeds(c, k), call[c].kind = "accuracy",
         UNCHANGED <<data, bounds>>,
         forecast' \in [Variants -> SUBSET Rows] \cup {Absent},
         accuracy' \in [Variants -> SUBSET Rows] \cup {Absent},
         diagnostics' \in [Variants -> SUBSET Rows] \cup {Absent},
         k.overwrite => call[c].overwrite,
         k # Idle /\ k.overwrite /\ ~k.overlapped => OfOnePiece(forecast', accuracy', diagnostics', k)
  PROVE  Inv'
<1>1. /\ call' \in [Clients -> Calls] /\ Exclusive'
      /\ \A d \in Clients : call'[d] = IF d = c THEN k ELSE call[d]
  BY CallMoves
<1>2. TypeOK'
  BY <1>1 DEF Inv, TypeOK, data, bounds
<1>3. k = Idle \/ k.kind = "accuracy"
  BY DEF Proceeds
<1>4. Idle.kind = "none" /\ ~Idle.overwrite
  BY DEF Idle
<1>5. Fits(c)'
  BY <1>1, <1>3, <1>4 DEF Fits, Proceeds
<1>6. ASSUME NEW d \in Clients, d # c PROVE Fits(d)'
  <2>1. call'[d] = call[d] /\ Fits(d) /\ call[d] \in Calls
    BY <1>1, <1>6 DEF Inv, TypeOK
  <2>2. call[d].kind = "accuracy" => call[d].overlapped
    BY <1>6 DEF Inv, Exclusive
  <2>3. call[d].overwrite => call[d].overlapped
    BY <2>1, <2>2, <1>4 DEF Fits, Placed
  <2>. QED
    BY <2>1, <2>3 DEF Fits, data
<1>. QED
  BY <1>1, <1>2, <1>5, <1>6 DEF Inv

\* A record of a request apart from its history and whether it is an orphan.
SameButOverlap(x, k) ==
    /\ x.pc = k.pc /\ x.kind = k.kind /\ x.overwrite = k.overwrite /\ x.v = k.v
    /\ x.event = k.event /\ x.batch = k.batch /\ x.basis = k.basis /\ x.seen = k.seen
    /\ x.votes = k.votes

LEMMA OverlapChanges ==
  ASSUME NEW k \in Calls, NEW b
  PROVE  SameButOverlap([k EXCEPT !.overlapped = b], k)
BY DEF Calls, SameButOverlap

\* A request that comes is alone of its kind, or it and its like overlap.
LEMMA Arrives ==
  ASSUME Inv, NEW c \in Clients, NEW k \in Calls, Placed(k), Arrive(c, k), ~k.overlapped,
         events' \in SUBSET EventIds, UNCHANGED <<latest, decisions, metrics, report>>,
         k.kind = "events" \/ (k.kind = "accuracy" /\ UNCHANGED events),
         k.kind = "events" => Current(events', decisions', metrics', k),
         k.overwrite => k.pc = "drop"
  PROVE  Inv'
<1> DEFINE others == {d \in Clients \ {c} : call[d].kind = k.kind}
           new(d) == IF d = c THEN [k EXCEPT !.overlapped = others # {}]
                     ELSE IF d \in others THEN [call[d] EXCEPT !.overlapped = TRUE]
                     ELSE call[d]
<1>1. call' = [d \in Clients |-> new(d)] /\ requests' = requests + 1 /\ requests < MaxRequests
      /\ failures' = failures
  BY DEF Arrive
<1>2. call \in [Clients -> Calls] /\ \A d \in Clients : Placed(call[d])
  BY DEF Inv, TypeOK, Fits
<1>3. [k EXCEPT !.overlapped = others # {}] \in Calls
  <2>1. (others # {}) \in BOOLEAN
    OBVIOUS
  <2> HIDE DEF others
  <2>. QED
    BY <2>1 DEF Calls
<1>4. \A d \in Clients : [call[d] EXCEPT !.overlapped = TRUE] \in Calls
  BY <1>2 DEF Calls
<1>5. \A d \in Clients : new(d) \in Calls
  BY <1>2, <1>3, <1>4
<1>6. TypeOK'
  <2>1. call' \in [Clients -> Calls]
    BY <1>1, <1>5
  <2>2. requests' \in 0 .. MaxRequests
    BY <1>1 DEF Inv, TypeOK
  <2>. QED
    BY <1>1, <2>1, <2>2 DEF Inv, TypeOK, report
<1>7. \A d \in Clients : call'[d] = new(d)
  BY <1>1
<1>8. Idle.kind = "none" /\ k.kind # "none"
  BY DEF Idle
<1>9. \A d \in Clients : new(d).kind = IF d = c THEN k.kind ELSE call[d].kind
  BY <1>2 DEF Calls
<1>a. others # {} => new(c).overlapped = TRUE
  BY DEF Calls
<1>b. \A d \in others : new(d).overlapped = TRUE
  BY <1>2 DEF Calls
<1>10. Exclusive'
  <2>1. SUFFICES ASSUME NEW d \in Clients, NEW e \in Clients, d # e,
                        new(d).kind = new(e).kind, new(d).kind # "none"
                 PROVE  new(d).overlapped
    BY <1>7 DEF Exclusive
  <2>2. CASE d = c
    <3>1. e \in others
      BY <1>9, <2>1, <2>2
    <3>2. others # {}
      BY <3>1
    <3> HIDE DEF new, others
    <3>. QED
      BY <1>a, <2>2, <3>2
  <2>3. CASE e = c
    <3>1. d \in others
      BY <1>9, <2>1, <2>3
    <3> HIDE DEF new, others
    <3>. QED
      BY <1>b, <3>1
  <2>4. CASE d # c /\ e # c
    <3>1. call[d].overlapped
      BY <1>9, <2>1, <2>4 DEF Inv, Exclusive
    <3> HIDE DEF others
    <3>. QED
      BY <2>4, <3>1, <1>2 DEF Calls
  <2>. QED
    BY <2>2, <2>3, <2>4
<1>11. Fits(c)'
  <2>1. SameButOverlap(new(c), k)
    BY OverlapChanges
  <2>2. Placed(new(c))
    BY <2>1, <1>8 DEF SameButOverlap, Placed
  <2>3. k.kind = "events" => Current(events', decisions', metrics', new(c))
    BY <2>1 DEF SameButOverlap, Current
  <2>4. new(c).overwrite => OfOnePiece(forecast', accuracy', diagnostics', new(c))
    BY <2>1 DEF SameButOverlap, OfOnePiece
  <2>5. new(c).kind = k.kind
    BY <2>1 DEF SameButOverlap
  <2> HIDE DEF new
  <2>. QED
    BY <1>7, <2>2, <2>3, <2>4, <2>5 DEF Fits
<1>12. ASSUME NEW d \in Clients, d # c PROVE Fits(d)'
  <2>1. Fits(d) /\ call[d] \in Calls
    BY <1>2 DEF Inv
  <2>2. CASE d \in others
    <3>1. SameButOverlap(new(d), call[d])
      BY <1>12, <2>1, <2>2, OverlapChanges
    <3>2. call[d] # Idle
      BY <2>2, <1>8
    <3>3. Placed(new(d))
      BY <2>1, <3>1, <3>2 DEF Fits, SameButOverlap, Placed
    <3>4. new(d).overlapped
      BY <1>b, <2>2
    <3> HIDE DEF new
    <3>. QED
      BY <1>7, <3>3, <3>4 DEF Fits
  <2>3. CASE d \notin others
    <3>1. call'[d] = call[d] /\ call[d].kind # k.kind
      BY <1>7, <1>12, <2>3
    <3>2. UNCHANGED report /\ UNCHANGED <<decisions, metrics>>
      OBVIOUS
    <3>3. call[d].kind = "events" => UNCHANGED events
      BY <3>1
    <3>. QED
      BY <2>1, <3>1, <3>2, <3>3 DEF Fits, report
  <2>. QED
    BY <2>2, <2>3
<1>. QED
  BY <1>6, <1>10, <1>11, <1>12 DEF Inv

-----------------------------------------------------------------------------
LEMMA RerunIsCall ==
  ASSUME NEW v \in Variants
  PROVE  /\ Rerun(v) \in Calls /\ Placed(Rerun(v))
         /\ Rerun(v).pc = "stamp" /\ Rerun(v).kind = "events" /\ Rerun(v).v = v
         /\ ~Rerun(v).overlapped /\ ~Rerun(v).overwrite
<1>1. Rerun(v) \in Calls
  BY IdleIsCall DEF Rerun, Calls
<1>2. /\ Rerun(v).pc = "stamp" /\ Rerun(v).kind = "events" /\ Rerun(v).v = v
      /\ ~Rerun(v).overlapped /\ ~Rerun(v).overwrite
  BY DEF Rerun, Idle
<1>. QED
  BY <1>1, <1>2 DEF Placed, EventSteps

LEMMA InjectKeeps ==
  ASSUME Inv, NEW c \in Clients, NEW v \in Variants, Inject(c, v) \/ Reset(c, v)
  PROVE  Inv'
<1>1. Rerun(v) \in Calls /\ Placed(Rerun(v)) /\ Rerun(v).kind = "events" /\ ~Rerun(v).overlapped
      /\ ~Rerun(v).overwrite
  BY RerunIsCall
<1>2. Current(events', decisions', metrics', Rerun(v))
  BY RerunIsCall DEF Current, Undecided, Measuring
<1>3. events' \in SUBSET EventIds
  BY DEF Inject, Reset, Inv, TypeOK, EventIds, Arrive
<1>4. Arrive(c, Rerun(v)) /\ UNCHANGED <<latest, decisions, metrics, report>>
  BY DEF Inject, Reset
<1>. QED
  BY <1>1, <1>2, <1>3, <1>4, Arrives

\* The event that an undo is about to delete is the newest there is.
LEMMA LastEventIsNewest ==
  ASSUME Inv, events # {}
  PROVE  LastEvent \in events /\ \A e \in events : e <= LastEvent
BY LargestExists DEF LastEvent, Inv, TypeOK, EventIds

LEMMA UndoKeeps ==
  ASSUME Inv, NEW c \in Clients, NEW v \in Variants, Undo(c, v)
  PROVE  Inv'
<1> DEFINE k == [Rerun(v) EXCEPT !.pc = "delete", !.event = LastEvent]
<1>1. events # {} /\ Arrive(c, k) /\ UNCHANGED <<data, report>>
  BY DEF Undo
<1>2. LastEvent \in EventIds /\ LastEvent \in events /\ \A e \in events : e <= LastEvent
  BY <1>1, LastEventIsNewest DEF Inv, TypeOK
<1>3. k \in Calls
  <2>1. Rerun(v) \in Calls
    BY RerunIsCall
  <2>2. LastEvent \in EventIds \cup {0}
    BY <1>2
  <2>. QED
    BY <2>1, <2>2 DEF Calls
<1>4. k.kind = "events" /\ k.v = v /\ ~k.overlapped /\ ~k.overwrite /\ k.pc = "delete"
      /\ k.event = LastEvent
  BY RerunIsCall DEF Calls
<1> HIDE DEF k
<1>5. Placed(k)
  BY <1>4 DEF Placed, EventSteps
<1>6. Current(events', decisions', metrics', k)
  BY <1>1, <1>2, <1>4 DEF Current, data, Undecided, Measuring
<1>. QED
  BY <1>1, <1>3, <1>4, <1>5, <1>6, Arrives DEF data, Inv, TypeOK

LEMMA AccuracyKeeps ==
  ASSUME Inv, NEW c \in Clients, GetAccuracy(c) \/ OverwriteAccuracy(c)
  PROVE  Inv'
<1>1. CASE accuracy # Absent /\ GetAccuracy(c)
  BY <1>1 DEF GetAccuracy, Inv, TypeOK, Exclusive, Fits, data, report
<1>2. ASSUME NEW pc \in {"count", "drop"}, NEW w \in BOOLEAN, w => pc = "drop",
             Arrive(c, [Idle EXCEPT !.pc = pc, !.kind = "accuracy", !.overwrite = w]),
             UNCHANGED <<data, report>>
      PROVE  Inv'
  <2> DEFINE k == [Idle EXCEPT !.pc = pc, !.kind = "accuracy", !.overwrite = w]
  <2>1. k \in Calls
    BY IdleIsCall DEF Calls
  <2>2. k.kind = "accuracy" /\ k.event = 0 /\ ~k.overlapped /\ k.overwrite = w /\ k.pc = pc
    BY DEF Idle
  <2>3. Arrive(c, k)
    BY <1>2
  <2> HIDE DEF k
  <2>4. Placed(k)
    BY <2>2 DEF Placed, ScoreSteps
  <2>. QED
    BY <1>2, <2>1, <2>2, <2>3, <2>4, Arrives DEF data, Inv, TypeOK
<1>3. Arrive(c, [Idle EXCEPT !.pc = "count", !.kind = "accuracy"]) =>
        Arrive(c, [Idle EXCEPT !.pc = "count", !.kind = "accuracy", !.overwrite = FALSE])
  <2>1. Idle.overwrite = FALSE
    BY DEF Idle
  <2>2. [Idle EXCEPT !.pc = "count", !.kind = "accuracy"] =
          [Idle EXCEPT !.pc = "count", !.kind = "accuracy", !.overwrite = FALSE]
    BY <2>1, IdleIsCall DEF Calls
  <2>. QED
    BY <2>2
<1>4. CASE accuracy = Absent /\ GetAccuracy(c)
  BY <1>2, <1>3, <1>4 DEF GetAccuracy
<1>5. CASE OverwriteAccuracy(c)
  BY <1>2, <1>5 DEF OverwriteAccuracy
<1>. QED
  BY <1>1, <1>4, <1>5

-----------------------------------------------------------------------------
\* At a step of the pipelines a request is an event request for a variant.
LEMMA InPipeline ==
  ASSUME Inv, NEW c \in Clients, call[c].pc \in EventSteps
  PROVE  /\ call[c] \in Calls /\ call[c].kind = "events" /\ call[c].v \in Variants
         /\ ~call[c].overwrite
         /\ ~call[c].overlapped => Current(events, decisions, metrics, call[c])
         /\ events \in SUBSET EventIds /\ latest \in Variants
         /\ decisions \in [Variants -> SUBSET Rows]
         /\ metrics \in [Variants -> Derived \cup {Absent}]
         /\ requests \in 0 .. MaxRequests /\ failures \in 0 .. MaxFailures
<1>1. call[c] \in Calls /\ Fits(c)
  BY DEF Inv, TypeOK
<1>2. call[c] # Idle /\ call[c].pc \notin ScoreSteps
  BY DEF Idle, EventSteps, ScoreSteps
<1>. QED
  BY <1>1, <1>2 DEF Fits, Placed, Inv, TypeOK

\* It proceeds to another step of them, or ends.
LEMMA ProceedsInPipeline ==
  ASSUME Inv, NEW c \in Clients, call[c].pc \in EventSteps, NEW k \in Calls,
         call' = [call EXCEPT ![c] = k],
         \/ k = Idle
         \/ /\ k.pc \in EventSteps /\ k.kind = call[c].kind /\ k.v = call[c].v
            /\ k.overwrite = call[c].overwrite /\ k.overlapped = call[c].overlapped
  PROVE  Proceeds(c, k)
BY InPipeline DEF Proceeds, Placed

LEMMA DeleteEventKeeps ==
  ASSUME Inv, NEW c \in Clients, DeleteEvent(c)
  PROVE  Inv'
<1> USE DEF DeleteEvent, At
<1>1. call[c].pc \in EventSteps /\ call[c].pc = "delete"
  BY DEF EventSteps
<1>2. events' \in SUBSET EventIds
  BY <1>1, InPipeline
<1>3. CASE call[c].event \in events
  <2> DEFINE k == [call[c] EXCEPT !.pc = "stamp", !.event = 0]
  <2>1. k \in Calls /\ call' = [call EXCEPT ![c] = k]
    BY <1>1, <1>3, InPipeline, StepIsCall DEF EventSteps
  <2>2. /\ k.pc = "stamp" /\ k.kind = call[c].kind /\ k.v = call[c].v
        /\ k.overwrite = call[c].overwrite /\ k.overlapped = call[c].overlapped
    BY <1>1, InPipeline DEF Calls
  <2> HIDE DEF k
  <2>3. Proceeds(c, k)
    BY <1>1, <2>1, <2>2, ProceedsInPipeline DEF EventSteps
  <2>4. Current(events', decisions', metrics', k)
    BY <2>2 DEF Current, Undecided, Measuring
  <2>. QED
    BY <1>1, <1>2, <2>3, <2>4, InPipeline, EventRequestMoves DEF bounds
<1>4. CASE call[c].event \notin events
  <2>1. Proceeds(c, Idle)
    BY <1>1, <1>4, IdleIsCall, ProceedsInPipeline DEF Answer
  <2>. QED
    BY <1>1, <1>2, <2>1, InPipeline, EventRequestMoves DEF bounds
<1>. QED
  BY <1>3, <1>4

LEMMA StampKeeps ==
  ASSUME Inv, NEW c \in Clients, Stamp(c)
  PROVE  Inv'
<1> USE DEF Stamp, At, Go
<1> DEFINE k == [call[c] EXCEPT !.pc = "wipe"]
<1>1. call[c].pc \in EventSteps /\ call[c].pc = "stamp"
  BY DEF EventSteps
<1>2. k \in Calls /\ call' = [call EXCEPT ![c] = k]
  BY <1>1, InPipeline DEF Calls
<1>3. /\ k.pc = "wipe" /\ k.kind = call[c].kind /\ k.v = call[c].v
      /\ k.overwrite = call[c].overwrite /\ k.overlapped = call[c].overlapped
  BY <1>1, InPipeline DEF Calls
<1> HIDE DEF k
<1>4. Proceeds(c, k)
  BY <1>1, <1>2, <1>3, ProceedsInPipeline DEF EventSteps
<1>5. Current(events', decisions', metrics', k)
  BY <1>3 DEF Current, Undecided, Measuring
<1>. QED
  BY <1>1, <1>4, <1>5, InPipeline, EventRequestMoves DEF bounds

LEMMA WipeKeeps ==
  ASSUME Inv, NEW c \in Clients, Wipe(c)
  PROVE  Inv'
<1> USE DEF Wipe, At, Go
<1> DEFINE k == [call[c] EXCEPT !.pc = "read"]
<1>1. call[c].pc \in EventSteps /\ call[c].pc = "wipe"
  BY DEF EventSteps
<1>2. k \in Calls /\ call' = [call EXCEPT ![c] = k]
  BY <1>1, InPipeline DEF Calls
<1>3. /\ k.pc = "read" /\ k.kind = call[c].kind /\ k.v = call[c].v
      /\ k.overwrite = call[c].overwrite /\ k.overlapped = call[c].overlapped
  BY <1>1, InPipeline DEF Calls
<1> HIDE DEF k
<1>4. Proceeds(c, k)
  BY <1>1, <1>2, <1>3, ProceedsInPipeline DEF EventSteps
<1>5. decisions' \in [Variants -> SUBSET Rows] /\ metrics' \in [Variants -> Derived \cup {Absent}]
      /\ metrics'[k.v] = Absent
  BY <1>1, <1>3, InPipeline
<1>6. Current(events', decisions', metrics', k)
  BY <1>3, <1>5 DEF Current, Undecided, Measuring
<1>. QED
  BY <1>1, <1>4, <1>5, <1>6, InPipeline, EventRequestMoves DEF bounds

LEMMA ReadEventsKeeps ==
  ASSUME Inv, NEW c \in Clients, ReadEvents(c)
  PROVE  Inv'
<1> USE DEF ReadEvents, At
<1> DEFINE k == [call[c] EXCEPT !.pc = "clear", !.basis = events]
<1>1. call[c].pc \in EventSteps /\ call[c].pc = "read"
  BY DEF EventSteps
<1>2. k \in Calls /\ call' = [call EXCEPT ![c] = k]
  BY <1>1, InPipeline, StepIsCall DEF EventSteps
<1>3. /\ k.pc = "clear" /\ k.basis = events /\ k.kind = call[c].kind /\ k.v = call[c].v
      /\ k.overwrite = call[c].overwrite /\ k.overlapped = call[c].overlapped
  BY <1>1, InPipeline DEF Calls
<1> HIDE DEF k
<1>4. Proceeds(c, k)
  BY <1>1, <1>2, <1>3, ProceedsInPipeline DEF EventSteps
<1>5. ~k.overlapped => Current(events', decisions', metrics', k)
  BY <1>1, <1>3, InPipeline DEF Current, Undecided, Measuring, data
<1>. QED
  BY <1>1, <1>4, <1>5, InPipeline, EventRequestMoves DEF bounds, data

LEMMA ClearKeeps ==
  ASSUME Inv, NEW c \in Clients, Clear(c)
  PROVE  Inv'
<1> USE DEF Clear, At
<1> DEFINE k == [call[c] EXCEPT !.pc = "insert", !.batch = 1]
<1>1. call[c].pc \in EventSteps /\ call[c].pc = "clear"
  BY DEF EventSteps
<1>2. k \in Calls /\ call' = [call EXCEPT ![c] = k]
  <2>1. 1 \in Batches
    BY DEF Batches
  <2>. QED
    BY <1>1, <2>1, InPipeline, StepIsCall DEF EventSteps
<1>3. /\ k.pc = "insert" /\ k.batch = 1 /\ k.basis = call[c].basis
      /\ k.kind = call[c].kind /\ k.v = call[c].v
      /\ k.overwrite = call[c].overwrite /\ k.overlapped = call[c].overlapped
  BY <1>1, InPipeline DEF Calls
<1> HIDE DEF k
<1>4. Proceeds(c, k)
  BY <1>1, <1>2, <1>3, ProceedsInPipeline DEF EventSteps
<1>5. decisions' \in [Variants -> SUBSET Rows] /\ decisions'[call[c].v] = {}
  BY <1>1, InPipeline
<1>6. [batch : 1 .. 1 - 1, basis : {events}] = {}
  OBVIOUS
<1>7. ~k.overlapped => Current(events', decisions', metrics', k)
  BY <1>1, <1>3, <1>5, <1>6, InPipeline DEF Current, Undecided, Measuring
<1>. QED
  BY <1>1, <1>4, <1>5, <1>7, InPipeline, EventRequestMoves DEF bounds

\* With batch b, the rows of the batches before b become those up to b.
LEMMA OneMoreBatch ==
  ASSUME NEW E, NEW b \in Batches
  PROVE  [batch : 1 .. b - 1, basis : {E}] \cup {[batch |-> b, basis |-> E]} =
           [batch : 1 .. (b + 1) - 1, basis : {E}]
<1> DEFINE R == [batch : 1 .. b - 1, basis : {E}] \cup {[batch |-> b, basis |-> E]}
           T == [batch : 1 .. (b + 1) - 1, basis : {E}]
<1>1. b \in Nat /\ 1 <= b
  BY DEF Batches
<1>2. ASSUME NEW r \in T PROVE r \in R
  <2>1. r = [batch |-> r.batch, basis |-> E] /\ r.batch \in 1 .. (b + 1) - 1
    OBVIOUS
  <2>2. r.batch = b \/ r.batch \in 1 .. b - 1
    BY <1>1, <2>1
  <2>. QED
    BY <2>1, <2>2
<1>3. ASSUME NEW r \in R PROVE r \in T
  BY <1>1
<1>. QED
  BY <1>2, <1>3

\* A batch that is there fails the request; else it is inserted, and after the
\* last of them the variant has all rows.
LEMMA InsertKeeps ==
  ASSUME Inv, NEW c \in Clients, Insert(c)
  PROVE  Inv'
<1> DEFINE b == call[c].batch
<1>1. call[c].pc \in EventSteps /\ call[c].pc = "insert"
  BY DEF Insert, EventSteps
<1>2. UNCHANGED <<events, latest, metrics, report, bounds>>
  BY DEF Insert
<1>3. CASE Present(c)
  <2>1. Proceeds(c, Idle) /\ UNCHANGED decisions
    BY <1>1, <1>3, IdleIsCall, ProceedsInPipeline DEF Insert, Answer
  <2>. QED
    BY <1>1, <1>2, <2>1, InPipeline, EventRequestMoves DEF bounds
<1>4. CASE ~Present(c)
  <2> DEFINE k == IF LastBatch(b) THEN Decided(call[c]) ELSE [call[c] EXCEPT !.batch = b + 1]
             row == [batch |-> b, basis |-> call[c].basis]
  <2>1. call[c] \in Calls /\ call[c].v \in Variants /\ b \in Batches
        /\ call[c].basis \in SUBSET EventIds
    BY <1>1, InPipeline DEF Calls
  <2>2. call' = [call EXCEPT ![c] = k]
    BY <1>4 DEF Insert
  <2>3. decisions' = [decisions EXCEPT ![call[c].v] = @ \cup {row}]
    BY <1>4 DEF Insert
  <2>4. CASE LastBatch(b) /\ call[c].orphan
    <3>1. k = Idle
      BY <2>4 DEF Decided
    <3>2. Proceeds(c, k)
      BY <1>1, <2>2, <3>1, IdleIsCall, ProceedsInPipeline
    <3>3. decisions' \in [Variants -> SUBSET Rows]
      BY <1>1, <2>1, <2>3, InPipeline DEF Rows
    <3>. QED
      BY <1>1, <1>2, <3>1, <3>2, <3>3, InPipeline, EventRequestMoves DEF bounds
  <2>5. CASE ~(LastBatch(b) /\ call[c].orphan)
   <3>1. /\ k.pc = (IF LastBatch(b) THEN "countMetrics" ELSE "insert")
         /\ k.batch = (IF LastBatch(b) THEN 1 ELSE b + 1)
         /\ k.basis = (IF LastBatch(b) THEN {} ELSE call[c].basis)
         /\ k.kind = call[c].kind /\ k.v = call[c].v
         /\ k.overwrite = call[c].overwrite /\ k.overlapped = call[c].overlapped
     BY <1>1, <2>1, <2>5 DEF Calls, Decided
   <3>2. k \in Calls
     <4>1. (IF LastBatch(b) THEN 1 ELSE b + 1) \in Batches
       BY <2>1 DEF LastBatch, Batches
     <4>2. (IF LastBatch(b) THEN {} ELSE call[c].basis) \in SUBSET EventIds
       BY <2>1
     <4> HIDE DEF b
     <4>. QED
       BY <2>1, <2>5, <4>1, <4>2 DEF Calls, Decided
   <3> HIDE DEF k
   <3>3. Proceeds(c, k)
     BY <1>1, <2>2, <3>1, <3>2, ProceedsInPipeline DEF EventSteps
   <3>4. row \in Rows
     BY <2>1 DEF Rows
   <3>5. /\ decisions' \in [Variants -> SUBSET Rows]
         /\ decisions'[k.v] = decisions[k.v] \cup {row}
     <4> HIDE DEF row
     <4>. QED
       BY <1>1, <2>1, <2>3, <3>1, <3>4, InPipeline
   <3>6. ASSUME ~k.overlapped PROVE Current(events', decisions', metrics', k)
     <4>1. Current(events, decisions, metrics, call[c])
       BY <1>1, <3>1, <3>6, InPipeline
     <4>2. /\ call[c].basis = events /\ decisions[k.v] = [batch : 1 .. b - 1, basis : {events}]
           /\ metrics[k.v] = Absent
       BY <1>1, <3>1, <4>1 DEF Current, Undecided
     <4>3. decisions'[k.v] = [batch : 1 .. (b + 1) - 1, basis : {events}]
       BY <2>1, <3>5, <4>2, OneMoreBatch
     <4>4. CASE LastBatch(b)
       <5>1. (b + 1) - 1 = NumBatches
         BY <4>4 DEF LastBatch
       <5>2. decisions'[k.v] = AllRows(events)
         BY <4>3, <5>1 DEF AllRows, Batches
       <5>. QED
         BY <1>2, <3>1, <4>2, <4>4, <5>2 DEF Current
     <4>5. CASE ~LastBatch(b)
       BY <1>2, <3>1, <4>2, <4>3, <4>5 DEF Current, Measuring
     <4>. QED
       BY <4>4, <4>5
   <3>. QED
     BY <1>1, <1>2, <3>3, <3>5, <3>6, InPipeline, EventRequestMoves DEF bounds
  <2>. QED
    BY <2>4, <2>5
<1>. QED
  BY <1>3, <1>4

LEMMA CountMetricsKeeps ==
  ASSUME Inv, NEW c \in Clients, CountMetrics(c)
  PROVE  Inv'
<1> USE DEF CountMetrics, At, Go
<1> DEFINE k == [call[c] EXCEPT !.pc = "readDecisions"]
<1>1. call[c].pc \in EventSteps /\ call[c].pc = "countMetrics"
  BY DEF EventSteps
<1>2. CASE metrics[call[c].v] # Absent
  <2>1. Proceeds(c, Idle)
    BY <1>1, <1>2, IdleIsCall, ProceedsInPipeline DEF Answer
  <2>. QED
    BY <1>1, <2>1, InPipeline, EventRequestMoves DEF bounds, data
<1>3. CASE metrics[call[c].v] = Absent
  <2>1. k \in Calls /\ call' = [call EXCEPT ![c] = k]
    BY <1>1, <1>3, InPipeline DEF Calls
  <2>2. /\ k.pc = "readDecisions" /\ k.kind = call[c].kind /\ k.v = call[c].v
        /\ k.overwrite = call[c].overwrite /\ k.overlapped = call[c].overlapped
    BY <1>1, InPipeline DEF Calls
  <2> HIDE DEF k
  <2>3. Proceeds(c, k)
    BY <1>1, <2>1, <2>2, ProceedsInPipeline DEF EventSteps
  <2>4. ~k.overlapped => Current(events', decisions', metrics', k)
    BY <1>1, <2>2, InPipeline DEF Current, Undecided, Measuring, data
  <2>. QED
    BY <1>1, <2>3, <2>4, InPipeline, EventRequestMoves DEF bounds, data
<1>. QED
  BY <1>2, <1>3

LEMMA ReadDecisionsKeeps ==
  ASSUME Inv, NEW c \in Clients, ReadDecisions(c)
  PROVE  Inv'
<1> USE DEF ReadDecisions, At
<1> DEFINE k == [call[c] EXCEPT !.pc = "readEvents", !.seen = decisions[call[c].v]]
<1>1. call[c].pc \in EventSteps /\ call[c].pc = "readDecisions"
  BY DEF EventSteps
<1>2. k \in Calls /\ call' = [call EXCEPT ![c] = k]
  BY <1>1, InPipeline, StepIsCall DEF EventSteps
<1>3. /\ k.pc = "readEvents" /\ k.seen = decisions[k.v] /\ k.kind = call[c].kind
      /\ k.v = call[c].v
      /\ k.overwrite = call[c].overwrite /\ k.overlapped = call[c].overlapped
  BY <1>1, InPipeline DEF Calls
<1> HIDE DEF k
<1>4. Proceeds(c, k)
  BY <1>1, <1>2, <1>3, ProceedsInPipeline DEF EventSteps
<1>5. ~k.overlapped => Current(events', decisions', metrics', k)
  BY <1>1, <1>3, InPipeline DEF Current, Undecided, Measuring, data
<1>. QED
  BY <1>1, <1>4, <1>5, InPipeline, EventRequestMoves DEF bounds, data

LEMMA ReadEventsAgainKeeps ==
  ASSUME Inv, NEW c \in Clients, ReadEventsAgain(c)
  PROVE  Inv'
<1> USE DEF ReadEventsAgain, At
<1> DEFINE k == [call[c] EXCEPT !.pc = "insertMetrics", !.basis = events]
<1>1. call[c].pc \in EventSteps /\ call[c].pc = "readEvents"
  BY DEF EventSteps
<1>2. k \in Calls /\ call' = [call EXCEPT ![c] = k]
  BY <1>1, InPipeline, StepIsCall DEF EventSteps
<1>3. /\ k.pc = "insertMetrics" /\ k.basis = events /\ k.seen = call[c].seen
      /\ k.kind = call[c].kind /\ k.v = call[c].v
      /\ k.overwrite = call[c].overwrite /\ k.overlapped = call[c].overlapped
  BY <1>1, InPipeline DEF Calls
<1> HIDE DEF k
<1>4. Proceeds(c, k)
  BY <1>1, <1>2, <1>3, ProceedsInPipeline DEF EventSteps
<1>5. ~k.overlapped => Current(events', decisions', metrics', k)
  BY <1>1, <1>3, InPipeline DEF Current, Undecided, Measuring, data
<1>. QED
  BY <1>1, <1>4, <1>5, InPipeline, EventRequestMoves DEF bounds, data

LEMMA InsertMetricsKeeps ==
  ASSUME Inv, NEW c \in Clients, InsertMetrics(c)
  PROVE  Inv'
<1>1. call[c].pc \in EventSteps
  BY DEF InsertMetrics, EventSteps
<1>2. Proceeds(c, Idle)
  BY <1>1, IdleIsCall, ProceedsInPipeline DEF InsertMetrics, Answer
<1>3. [decisions |-> call[c].seen, events |-> call[c].basis] \in Derived
  BY <1>1, InPipeline DEF Calls, Derived
<1>4. metrics' \in [Variants -> Derived \cup {Absent}]
  BY <1>1, <1>3, InPipeline DEF InsertMetrics
<1>. QED
  BY <1>1, <1>2, <1>4, InPipeline, EventRequestMoves DEF InsertMetrics, bounds

-----------------------------------------------------------------------------
\* At a step of the scores a request is a computation of them.
LEMMA InScoring ==
  ASSUME Inv, NEW c \in Clients, call[c].pc \in ScoreSteps
  PROVE  /\ call[c] \in Calls /\ call[c].kind = "accuracy" /\ call[c].event = 0
         /\ call[c].overwrite /\ ~call[c].overlapped =>
              OfOnePiece(forecast, accuracy, diagnostics, call[c])
         /\ decisions \in [Variants -> SUBSET Rows]
         /\ forecast \in [Variants -> SUBSET Rows] \cup {Absent}
         /\ accuracy \in [Variants -> SUBSET Rows] \cup {Absent}
         /\ diagnostics \in [Variants -> SUBSET Rows] \cup {Absent}
<1>1. call[c] \in Calls /\ Fits(c)
  BY DEF Inv, TypeOK
<1>2. call[c] # Idle /\ call[c].pc \notin EventSteps
  BY DEF Idle, EventSteps, ScoreSteps
<1>. QED
  BY <1>1, <1>2 DEF Fits, Placed, Inv, TypeOK

\* It proceeds to another step of them, or ends.
LEMMA ProceedsInScoring ==
  ASSUME Inv, NEW c \in Clients, call[c].pc \in ScoreSteps, NEW k \in Calls,
         call' = [call EXCEPT ![c] = k],
         \/ k = Idle
         \/ /\ k.pc \in ScoreSteps /\ k.kind = call[c].kind /\ k.event = call[c].event
            /\ k.overlapped = call[c].overlapped
  PROVE  Proceeds(c, k)
BY InScoring DEF Proceeds, Placed

LEMMA DropReportKeeps ==
  ASSUME Inv, NEW c \in Clients, DropReport(c)
  PROVE  Inv'
<1> USE DEF DropReport, At, Go
<1> DEFINE k == [call[c] EXCEPT !.pc = "count"]
<1>1. call[c].pc \in ScoreSteps /\ call[c].pc = "drop"
  BY DEF ScoreSteps
<1>2. k \in Calls /\ call' = [call EXCEPT ![c] = k]
  BY <1>1, InScoring DEF Calls
<1>3. /\ k.pc = "count" /\ k.kind = call[c].kind /\ k.event = call[c].event
      /\ k.overwrite = call[c].overwrite /\ k.overlapped = call[c].overlapped
  BY <1>1, InScoring DEF Calls
<1> HIDE DEF k
<1>4. Proceeds(c, k)
  BY <1>1, <1>2, <1>3, ProceedsInScoring DEF ScoreSteps
<1>5. OfOnePiece(forecast', accuracy', diagnostics', k)
  BY <1>3 DEF OfOnePiece
<1>. QED
  BY <1>1, <1>3, <1>4, <1>5, InScoring, ScoreRequestMoves

LEMMA CountVotesKeeps ==
  ASSUME Inv, NEW c \in Clients, CountVotes(c)
  PROVE  Inv'
<1> USE DEF CountVotes, At
<1> DEFINE k == [call[c] EXCEPT !.pc = "forecast", !.votes = decisions]
<1>1. call[c].pc \in ScoreSteps /\ call[c].pc = "count"
  BY DEF ScoreSteps
<1>2. k \in Calls /\ call' = [call EXCEPT ![c] = k]
  BY <1>1, InScoring, StepIsCall DEF ScoreSteps
<1>3. /\ k.pc = "forecast" /\ k.kind = call[c].kind /\ k.event = call[c].event
      /\ k.overwrite = call[c].overwrite /\ k.overlapped = call[c].overlapped
  BY <1>1, InScoring DEF Calls
<1> HIDE DEF k
<1>4. Proceeds(c, k)
  BY <1>1, <1>2, <1>3, ProceedsInScoring DEF ScoreSteps
<1>5. k.overwrite /\ ~k.overlapped => OfOnePiece(forecast', accuracy', diagnostics', k)
  BY <1>1, <1>3, InScoring DEF OfOnePiece, report
<1>. QED
  BY <1>1, <1>3, <1>4, <1>5, InScoring, ScoreRequestMoves DEF report

LEMMA CreateForecastKeeps ==
  ASSUME Inv, NEW c \in Clients, CreateForecast(c)
  PROVE  Inv'
<1> DEFINE k == [call[c] EXCEPT !.pc = "accuracy"]
<1>1. call[c].pc \in ScoreSteps /\ call[c].pc = "forecast"
  BY DEF CreateForecast, At, ScoreSteps
<1>2. UNCHANGED <<accuracy, diagnostics, data, bounds>>
  BY DEF CreateForecast
<1>3. call[c].votes \in [Variants -> SUBSET Rows] \cup {Absent}
  BY <1>1, InScoring DEF Calls
<1>4. forecast' \in [Variants -> SUBSET Rows] \cup {Absent}
  BY <1>1, <1>3, InScoring DEF CreateForecast, Create
<1>5. CASE call' = [call EXCEPT ![c] = Idle] /\ UNCHANGED forecast
  <2>1. Proceeds(c, Idle) /\ ~Idle.overwrite
    BY <1>1, <1>5, IdleIsCall, ProceedsInScoring DEF Idle
  <2>. QED
    BY <1>1, <1>2, <1>4, <1>5, <2>1, InScoring, ScoreRequestMoves DEF data, bounds
<1>6. CASE /\ call' = [call EXCEPT ![c] = k]
           /\ (NoVotes(c) /\ UNCHANGED forecast) \/ forecast' = call[c].votes
  <2>1. k \in Calls
    BY <1>1, InScoring DEF Calls
  <2>2. /\ k.pc = "accuracy" /\ k.votes = call[c].votes /\ k.kind = call[c].kind
        /\ k.event = call[c].event
        /\ k.overwrite = call[c].overwrite /\ k.overlapped = call[c].overlapped
    BY <1>1, InScoring DEF Calls
  <2>3. call' = [call EXCEPT ![c] = k]
    BY <1>6
  <2> HIDE DEF k
  <2>4. Proceeds(c, k)
    BY <1>1, <2>1, <2>2, <2>3, ProceedsInScoring DEF ScoreSteps
  <2>5. Empty(k) \/ forecast' = k.votes
    BY <1>6, <2>2 DEF NoVotes, Empty
  <2>6. k.overwrite /\ ~k.overlapped => OfOnePiece(forecast', accuracy', diagnostics', k)
    BY <1>1, <1>2, <2>2, <2>5, InScoring DEF OfOnePiece, Empty
  <2>. QED
    BY <1>1, <1>2, <1>4, <2>2, <2>4, <2>6, InScoring, ScoreRequestMoves DEF data, bounds
<1>. QED
  BY <1>5, <1>6 DEF CreateForecast, Create

LEMMA CreateAccuracyKeeps ==
  ASSUME Inv, NEW c \in Clients, CreateAccuracy(c)
  PROVE  Inv'
<1> DEFINE k == [call[c] EXCEPT !.pc = "diagnostics"]
<1>1. call[c].pc \in ScoreSteps /\ call[c].pc = "accuracy"
  BY DEF CreateAccuracy, At, ScoreSteps
<1>2. UNCHANGED <<forecast, diagnostics, data, bounds>>
  BY DEF CreateAccuracy
<1>3. call[c].votes \in [Variants -> SUBSET Rows] \cup {Absent}
  BY <1>1, InScoring DEF Calls
<1>4. accuracy' \in [Variants -> SUBSET Rows] \cup {Absent}
  BY <1>1, <1>3, InScoring DEF CreateAccuracy, Create
<1>5. CASE call' = [call EXCEPT ![c] = Idle] /\ UNCHANGED accuracy
  <2>1. Proceeds(c, Idle) /\ ~Idle.overwrite
    BY <1>1, <1>5, IdleIsCall, ProceedsInScoring DEF Idle
  <2>. QED
    BY <1>1, <1>2, <1>4, <1>5, <2>1, InScoring, ScoreRequestMoves DEF data, bounds
<1>6. CASE /\ call' = [call EXCEPT ![c] = k]
           /\ (NoVotes(c) /\ UNCHANGED accuracy) \/ accuracy' = call[c].votes
  <2>1. k \in Calls
    BY <1>1, InScoring DEF Calls
  <2>2. /\ k.pc = "diagnostics" /\ k.votes = call[c].votes /\ k.kind = call[c].kind
        /\ k.event = call[c].event
        /\ k.overwrite = call[c].overwrite /\ k.overlapped = call[c].overlapped
    BY <1>1, InScoring DEF Calls
  <2>3. call' = [call EXCEPT ![c] = k]
    BY <1>6
  <2> HIDE DEF k
  <2>4. Proceeds(c, k)
    BY <1>1, <2>1, <2>2, <2>3, ProceedsInScoring DEF ScoreSteps
  <2>5. Empty(k) \/ accuracy' = k.votes
    BY <1>6, <2>2 DEF NoVotes, Empty
  <2>6. k.overwrite /\ ~k.overlapped => OfOnePiece(forecast', accuracy', diagnostics', k)
    BY <1>1, <1>2, <2>2, <2>5, InScoring DEF OfOnePiece, Empty
  <2>. QED
    BY <1>1, <1>2, <1>4, <2>2, <2>4, <2>6, InScoring, ScoreRequestMoves DEF data, bounds
<1>. QED
  BY <1>5, <1>6 DEF CreateAccuracy, Create

LEMMA CreateDiagnosticsKeeps ==
  ASSUME Inv, NEW c \in Clients, CreateDiagnostics(c)
  PROVE  Inv'
<1>1. call[c].pc \in ScoreSteps
  BY DEF CreateDiagnostics, At, ScoreSteps
<1>2. call[c].votes \in [Variants -> SUBSET Rows] \cup {Absent}
  BY <1>1, InScoring DEF Calls
<1>3. diagnostics' \in [Variants -> SUBSET Rows] \cup {Absent}
  BY <1>1, <1>2, InScoring DEF CreateDiagnostics, Create
<1>4. Proceeds(c, Idle) /\ ~Idle.overwrite
  BY <1>1, IdleIsCall, ProceedsInScoring DEF CreateDiagnostics, Create, Idle
<1>. QED
  BY <1>1, <1>3, <1>4, InScoring, ScoreRequestMoves DEF CreateDiagnostics, data, bounds

LEMMA FailKeeps ==
  ASSUME Inv, NEW c \in Clients, Fail(c)
  PROVE  Inv'
<1>1. call[c] # Idle /\ failures' \in 0 .. MaxFailures /\ call' = [call EXCEPT ![c] = Idle]
      /\ UNCHANGED <<data, report, requests>>
  BY DEF Fail, Answer, Inv, TypeOK
<1>2. call[c].pc \in EventSteps \/ call[c].pc \in ScoreSteps
  BY <1>1 DEF Inv, Fits, Placed
<1>3. Proceeds(c, Idle)
  BY <1>1, <1>2, IdleIsCall, ProceedsInPipeline, ProceedsInScoring
<1>4. /\ call' \in [Clients -> Calls] /\ Exclusive'
      /\ \A d \in Clients : call'[d] = IF d = c THEN Idle ELSE call[d]
  BY <1>3, CallMoves
<1>5. TypeOK'
  BY <1>1, <1>4 DEF Inv, TypeOK, data, report
<1>6. Placed(Idle) /\ Idle.kind = "none" /\ ~Idle.overwrite
  BY DEF Placed, Idle
<1>7. ASSUME NEW d \in Clients PROVE Fits(d)'
  <2>1. Fits(d) /\ call'[d] = IF d = c THEN Idle ELSE call[d]
    BY <1>4 DEF Inv
  <2>. QED
    BY <1>1, <1>6, <2>1 DEF Fits, data, report
<1>. QED
  BY <1>4, <1>5, <1>7 DEF Inv

\* A script that outlives the API relies on what its request relied on.
LEMMA CrashKeeps ==
  ASSUME Inv, Crash
  PROVE  Inv'
<1> DEFINE orphan(c) == [call[c] EXCEPT !.orphan = TRUE]
<1>1. PICK left \in SUBSET {c \in Clients : InScript(c)} :
         call' = [c \in Clients |-> IF c \in left THEN orphan(c) ELSE Idle]
  BY DEF Crash
<1>2. failures' \in 0 .. MaxFailures /\ UNCHANGED <<data, report, requests>>
  BY DEF Crash, Inv, TypeOK
<1>3. ASSUME NEW c \in left
      PROVE  /\ call[c].pc \in EventSteps /\ call[c] \in Calls /\ call[c].kind = "events"
             /\ orphan(c) \in Calls /\ SameButOverlap(orphan(c), call[c])
             /\ orphan(c).overlapped = call[c].overlapped
  <2>1. call[c].pc \in EventSteps
    BY DEF InScript, EventSteps
  <2>2. call[c] \in Calls /\ call[c].kind = "events"
    BY <2>1, InPipeline
  <2>3. TRUE \in BOOLEAN
    OBVIOUS
  <2>4. orphan(c) \in Calls
    BY <2>2, <2>3 DEF Calls
  <2>5. SameButOverlap(orphan(c), call[c]) /\ orphan(c).overlapped = call[c].overlapped
    BY <2>2 DEF Calls, SameButOverlap
  <2>. QED
    BY <2>1, <2>2, <2>4, <2>5
<1> HIDE DEF orphan
<1>4. \A c \in Clients : call'[c] = IF c \in left THEN orphan(c) ELSE Idle
  BY <1>1
<1>5. Idle.kind = "none" /\ ~Idle.overwrite /\ Placed(Idle)
  BY DEF Idle, Placed
<1>6. TypeOK'
  <2>1. call' \in [Clients -> Calls]
    BY <1>1, <1>3, IdleIsCall
  <2>. QED
    BY <1>2, <2>1 DEF Inv, TypeOK, data, report
<1>7. Exclusive'
  <2>1. SUFFICES ASSUME NEW c \in Clients, NEW d \in Clients, c # d,
                        call'[c].kind = call'[d].kind, call'[c].kind # "none"
                 PROVE  call'[c].overlapped
    BY DEF Exclusive
  <2>2. c \in left /\ d \in left
    BY <1>4, <1>5, <2>1
  <2>3. call[c].overlapped
    BY <1>3, <2>1, <2>2 DEF Inv, Exclusive
  <2>. QED
    BY <1>3, <1>4, <2>2, <2>3
<1>8. ASSUME NEW c \in Clients PROVE Fits(c)'
  <2>1. CASE c \notin left
    BY <1>4, <1>5, <2>1 DEF Fits
  <2>2. CASE c \in left
    <3>1. call'[c] = orphan(c) /\ SameButOverlap(orphan(c), call[c])
          /\ call[c].pc \in EventSteps /\ orphan(c).overlapped = call[c].overlapped
      BY <1>3, <1>4, <2>2
    <3>2. /\ call[c].kind = "events" /\ call[c].v \in Variants /\ ~call[c].overwrite
          /\ ~call[c].overlapped => Current(events, decisions, metrics, call[c])
      BY <3>1, InPipeline
    <3>3. Placed(orphan(c)) /\ ~orphan(c).overwrite
      BY <3>1, <3>2 DEF SameButOverlap, Placed
    <3>4. ~orphan(c).overlapped => Current(events, decisions, metrics, orphan(c))
      BY <3>1, <3>2 DEF SameButOverlap, Current
    <3>. QED
      BY <1>2, <3>1, <3>3, <3>4 DEF Fits, data
  <2>. QED
    BY <2>1, <2>2
<1>. QED
  BY <1>6, <1>7, <1>8 DEF Inv

-----------------------------------------------------------------------------
LEMMA NextInv == Inv /\ [Next]_vars => Inv'
<1> SUFFICES ASSUME Inv, [Next]_vars PROVE Inv'
  OBVIOUS
<1>1. CASE UNCHANGED vars
  BY <1>1 DEF Inv, TypeOK, Exclusive, Fits, vars, data, report, bounds
<1>2. ASSUME NEW c \in Clients, NEW v \in Variants, Inject(c, v) \/ Reset(c, v) \/ Undo(c, v)
      PROVE  Inv'
  BY <1>2, InjectKeeps, UndoKeeps
<1>3. ASSUME NEW c \in Clients, InjectLatest(c) PROVE Inv'
  BY <1>3, InjectKeeps DEF InjectLatest, Inv, TypeOK
<1>4. ASSUME NEW c \in Clients, GetAccuracy(c) \/ OverwriteAccuracy(c) PROVE Inv'
  BY <1>4, AccuracyKeeps
<1>5. ASSUME NEW c \in Clients, Pipeline(c) PROVE Inv'
  BY <1>5, DeleteEventKeeps, StampKeeps, WipeKeeps, ReadEventsKeeps, ClearKeeps, InsertKeeps,
     CountMetricsKeeps, ReadDecisionsKeeps, ReadEventsAgainKeeps, InsertMetricsKeeps DEF Pipeline
<1>6. ASSUME NEW c \in Clients, Scoring(c) PROVE Inv'
  BY <1>6, DropReportKeeps, CountVotesKeeps, CreateForecastKeeps, CreateAccuracyKeeps,
     CreateDiagnosticsKeeps DEF Scoring
<1>7. ASSUME NEW c \in Clients, Fail(c) PROVE Inv'
  BY <1>7, FailKeeps
<1>8. CASE Crash
  BY <1>8, CrashKeeps
<1>. QED
  BY <1>1, <1>2, <1>3, <1>4, <1>5, <1>6, <1>7, <1>8 DEF Next

LEMMA InvAlways == Spec => []Inv
BY InitInv, NextInv, PTL DEF Spec

\* What the tables and the requests in progress hold keeps its type, whatever
\* requests overlap and wherever they fail.
THEOREM TypeCorrect == Spec => []TypeOK
<1>1. Inv => TypeOK
  BY DEF Inv
<1>. QED
  BY <1>1, InvAlways, PTL

-----------------------------------------------------------------------------
\* A request that comes answers no other.
LEMMA ArrivalAnswersNone ==
  ASSUME Inv, NEW c \in Clients, NEW d \in Clients, NEW k, Arrive(d, k)
  PROVE  ~Answers(c)
<1> SUFFICES ASSUME Answers(c) PROVE FALSE
  OBVIOUS
<1>1. call[c] \in Calls /\ call[c] # Idle /\ call'[c] = Idle /\ c # d
  BY DEF Inv, TypeOK, Answers, Arrive
<1>2. call[c].pc # "idle"
  BY <1>1 DEF Inv, Fits, Placed, EventSteps, ScoreSteps
<1>3. call'[c] = call[c] \/ call'[c] = [call[c] EXCEPT !.overlapped = TRUE]
  BY <1>1 DEF Arrive
<1>4. [call[c] EXCEPT !.overlapped = TRUE].pc = call[c].pc
  BY <1>1 DEF Calls
<1>. QED
  BY <1>1, <1>2, <1>3, <1>4 DEF Idle

\* A step of a request in progress changes no other request.
LEMMA StepsAreOfOne ==
  ASSUME Inv, NEW c \in Clients, NEW d \in Clients, c # d, Pipeline(d) \/ Scoring(d) \/ Fail(d)
  PROVE  call'[c] = call[c]
<1>1. call \in [Clients -> Calls]
  BY DEF Inv, TypeOK
<1>2. CASE Pipeline(d)
  BY <1>1, <1>2 DEF Pipeline, DeleteEvent, Stamp, Wipe, ReadEvents, Clear, Insert, ReadDecisions,
     CountMetrics, ReadEventsAgain, InsertMetrics, Go, Answer
<1>3. CASE Scoring(d)
  BY <1>1, <1>3 DEF Scoring, DropReport, CountVotes, CreateForecast, CreateAccuracy,
     CreateDiagnostics, Create, Go
<1>4. CASE Fail(d)
  BY <1>1, <1>4 DEF Fail, Answer
<1>. QED
  BY <1>2, <1>3, <1>4

\* So a request that is answered without a failure takes a step itself.
LEMMA AnsweredByItself ==
  ASSUME Inv, [Next]_vars, NEW c \in Clients, Answers(c), failures' = failures
  PROVE  Pipeline(c) \/ Scoring(c)
<1>1. call[c] # Idle /\ call'[c] = Idle
  BY DEF Answers
<1>2. ~UNCHANGED call
  BY <1>1
<1>0. failures \in Nat /\ ~Crash
  BY DEF Inv, TypeOK, Crash
<1>3. PICK d \in Clients :
         \/ \E v \in Variants : Inject(d, v) \/ Reset(d, v) \/ Undo(d, v)
         \/ InjectLatest(d) \/ GetAccuracy(d) \/ OverwriteAccuracy(d)
         \/ Pipeline(d) \/ Scoring(d) \/ Fail(d)
  BY <1>0, <1>2 DEF Next, vars
<1>4. ~\E k : Arrive(d, k)
  BY ArrivalAnswersNone
<1>5. /\ ~\E v \in Variants : Inject(d, v) \/ Reset(d, v) \/ Undo(d, v)
      /\ ~InjectLatest(d) /\ ~OverwriteAccuracy(d)
  BY <1>4 DEF Inject, Reset, Undo, InjectLatest, OverwriteAccuracy
<1>6. ~GetAccuracy(d)
  BY <1>2, <1>4 DEF GetAccuracy
<1>7. ~Fail(d)
  BY <1>0 DEF Fail
<1>8. d = c
  BY <1>1, <1>3, <1>5, <1>6, StepsAreOfOne
<1>. QED
  BY <1>3, <1>5, <1>6, <1>7, <1>8

\* A rerun of the pipelines that answers "completed" leaves decisions that
\* stand for the events there are, and metrics for these decisions and events,
\* unless another event request, or what is left of one, overlapped with it: it
\* does not skip metrics of before, although compute-crowd-metrics takes it for
\* no overwrite, because decide has deleted them.
THEOREM CompletedStandsForEvents == Spec => CompletedIsCurrent
<1>1. ASSUME Inv, [Next]_vars, NEW c \in Clients, Completes(c), ~call[c].overlapped
      PROVE  /\ decisions[call[c].v] = AllRows(events)
             /\ metrics'[call[c].v] = [decisions |-> decisions[call[c].v], events |-> events]
  <2>0. /\ Answers(c) /\ failures' = failures
        /\ At(c, "countMetrics") \/ At(c, "insertMetrics")
    BY <1>1 DEF Completes
  <2>1. InsertMetrics(c)
    <3>1. Pipeline(c) \/ Scoring(c)
      BY <1>1, <2>0, AnsweredByItself
    <3>2. CountMetrics(c) \/ InsertMetrics(c)
      BY <2>0, <3>1 DEF At, Pipeline, DeleteEvent, Stamp, Wipe, ReadEvents, Clear, Insert,
         ReadDecisions, ReadEventsAgain, Scoring, DropReport, CountVotes,
         CreateForecast, CreateAccuracy, CreateDiagnostics
    <3>3. ~CountMetrics(c)
      <4>1. SUFFICES ASSUME CountMetrics(c) PROVE FALSE
        OBVIOUS
      <4>2. call[c].pc = "countMetrics" /\ call[c].pc \in EventSteps
        BY <4>1 DEF CountMetrics, At, EventSteps
      <4>3. metrics[call[c].v] = Absent
        BY <1>1, <4>2, InPipeline DEF Current, Measuring
      <4>4. call[c] \in Calls /\ call \in [Clients -> Calls]
        BY <1>1 DEF Inv, TypeOK
      <4>5. call'[c] = [call[c] EXCEPT !.pc = "readDecisions"]
        BY <4>1, <4>3, <4>4 DEF CountMetrics, Go
      <4>6. call'[c].pc = "readDecisions"
        BY <4>4, <4>5 DEF Calls
      <4>. QED
        BY <2>0, <4>6 DEF Answers, Idle
    <3>. QED
      BY <3>2, <3>3
  <2>2. call[c].pc = "insertMetrics" /\ call[c].pc \in EventSteps
    BY <2>1 DEF InsertMetrics, EventSteps
  <2>3. /\ call[c].basis = events /\ decisions[call[c].v] = AllRows(events)
        /\ call[c].seen = AllRows(events) /\ metrics[call[c].v] = Absent
    BY <1>1, <2>2, InPipeline DEF Current, Measuring
  <2>4. AllRows(events) # {}
    <3>1. [batch |-> 1, basis |-> events] \in AllRows(events)
      BY DEF AllRows, Batches
    <3>. QED
      BY <3>1
  <2>5. metrics' = [metrics EXCEPT ![call[c].v] =
                       [decisions |-> call[c].seen, events |-> call[c].basis]]
    BY <2>1, <2>3, <2>4 DEF InsertMetrics
  <2>6. call[c].v \in DOMAIN metrics
    BY <1>1, <2>2, InPipeline
  <2>. QED
    BY <2>3, <2>5, <2>6
<1>2. Inv /\ [Next]_vars => [\A c \in Clients :
         Completes(c) /\ ~call[c].overlapped
         => /\ decisions[call[c].v] = AllRows(events)
            /\ metrics'[call[c].v] = [decisions |-> decisions[call[c].v], events |-> events]]_vars
  BY <1>1
<1>. QED
  BY <1>2, InvAlways, PTL DEF Spec, CompletedIsCurrent

\* Scores computed with overwrite are of one reading of the votes in all three
\* tables, unless another computation overlapped with it.
THEOREM ScoresOfOneReading == Spec => ScoresAreOfOnePiece
<1>1. ASSUME Inv, [Next]_vars, NEW c \in Clients, Answers(c), At(c, "diagnostics"),
             failures' = failures, call[c].overwrite, ~call[c].overlapped, ~NoVotes(c)
      PROVE  /\ forecast = call[c].votes /\ accuracy = call[c].votes
             /\ diagnostics' = call[c].votes
  <2>1. CreateDiagnostics(c)
    <3>1. Pipeline(c) \/ Scoring(c)
      BY <1>1, AnsweredByItself
    <3>. QED
      BY <1>1, <3>1 DEF At, Pipeline, DeleteEvent, Stamp, Wipe, ReadEvents, Clear, Insert,
         ReadDecisions, CountMetrics, ReadEventsAgain, InsertMetrics, Scoring, DropReport,
         CountVotes, CreateForecast, CreateAccuracy
  <2>2. call[c].pc = "diagnostics" /\ call[c].pc \in ScoreSteps
    BY <1>1 DEF At, ScoreSteps
  <2>3. ~Empty(call[c])
    BY <1>1 DEF NoVotes, Empty
  <2>4. forecast = call[c].votes /\ accuracy = call[c].votes /\ diagnostics = Absent
    BY <1>1, <2>2, <2>3, InScoring DEF OfOnePiece
  <2>. QED
    BY <1>1, <2>1, <2>4 DEF CreateDiagnostics, Create
<1>2. Inv /\ [Next]_vars => [\A c \in Clients :
         /\ Answers(c) /\ At(c, "diagnostics") /\ failures' = failures
         /\ call[c].overwrite /\ ~call[c].overlapped /\ ~NoVotes(c)
         => /\ forecast = call[c].votes /\ accuracy = call[c].votes
            /\ diagnostics' = call[c].votes]_vars
  BY <1>1
<1>. QED
  BY <1>2, InvAlways, PTL DEF Spec, ScoresAreOfOnePiece

\* Which steps take an event: a reset, and the delete of an undo.
LEMMA TakesEvents ==
  ASSUME Inv, [Next]_vars, NEW e \in events \ events'
  PROVE  \/ events' = {} /\ requests' # requests
         \/ \E c \in Clients : DeleteEvent(c)
<1>1. requests \in Nat
  BY DEF Inv, TypeOK
<1>2. ~UNCHANGED events
  OBVIOUS
<1>3. PICK d \in Clients :
         \/ \E v \in Variants : Inject(d, v) \/ Reset(d, v) \/ Undo(d, v)
         \/ InjectLatest(d) \/ GetAccuracy(d) \/ OverwriteAccuracy(d)
         \/ Pipeline(d) \/ Scoring(d) \/ Fail(d)
  BY <1>2 DEF Next, vars, data, Crash
<1>4. ASSUME NEW v, Inject(d, v) PROVE FALSE
  BY <1>4 DEF Inject
<1>5. ASSUME NEW v, Reset(d, v) PROVE events' = {} /\ requests' # requests
  BY <1>1, <1>5 DEF Reset, Arrive
<1>6. ASSUME NEW v, Undo(d, v) PROVE FALSE
  BY <1>2, <1>6 DEF Undo, data
<1>7. ~InjectLatest(d) /\ ~GetAccuracy(d) /\ ~OverwriteAccuracy(d) /\ ~Scoring(d) /\ ~Fail(d)
  BY <1>2, <1>4 DEF InjectLatest, GetAccuracy, OverwriteAccuracy, Scoring, DropReport, CountVotes,
     CreateForecast, CreateAccuracy, CreateDiagnostics, Fail, data
<1>8. Pipeline(d) => DeleteEvent(d)
  BY <1>2 DEF Pipeline, Stamp, Wipe, ReadEvents, Clear, Insert, ReadDecisions, ReadEventsAgain,
     CountMetrics, InsertMetrics, data
<1>. QED
  BY <1>3, <1>4, <1>5, <1>6, <1>7, <1>8

\* An undo takes one event, the newest there was when it came, unless another
\* event request overlapped with it.
THEOREM UndoTakesTheNewest == Spec => UndoTakesNewest
<1>1. ASSUME Inv, [Next]_vars, NEW e \in events \ events'
      PROVE  \/ events' = {} /\ requests' # requests
             \/ /\ events \ events' = {e}
                /\ \/ \A f \in events' : f < e
                   \/ \E c \in Clients : call[c].event = e /\ call[c].overlapped
  <2>1. CASE events' = {} /\ requests' # requests
    BY <2>1
  <2>2. ASSUME NEW c \in Clients, DeleteEvent(c)
        PROVE  /\ events \ events' = {e}
               /\ \/ \A f \in events' : f < e
                  \/ \E d \in Clients : call[d].event = e /\ call[d].overlapped
    <3>1. events' = events \ {call[c].event} /\ call[c].event = e
      BY <1>1, <2>2 DEF DeleteEvent
    <3>2. call[c].pc = "delete" /\ call[c].pc \in EventSteps
      BY <2>2 DEF DeleteEvent, At, EventSteps
    <3>3. ~call[c].overlapped => \A f \in events : f <= e
      BY <1>1, <3>1, <3>2, InPipeline DEF Current
    <3>4. \A f \in events : f \in Nat
      BY <1>1 DEF Inv, TypeOK, EventIds
    <3>5. ~call[c].overlapped => \A f \in events' : f < e
      BY <1>1, <3>1, <3>3, <3>4
    <3>. QED
      BY <1>1, <3>1, <3>5
  <2>. QED
    BY <1>1, <2>1, <2>2, TakesEvents
<1>2. Inv /\ [Next]_vars => [\A e \in events \ events' :
         \/ events' = {} /\ requests' # requests
         \/ /\ events \ events' = {e}
            /\ \/ \A f \in events' : f < e
               \/ \E c \in Clients : call[c].event = e /\ call[c].overlapped]_events
  BY <1>1
<1>. QED
  BY <1>2, InvAlways, PTL DEF Spec, UndoTakesNewest
=============================================================================
