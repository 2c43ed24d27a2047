------------------------ MODULE BacktestWorker_proofs ------------------------
(***************************************************************************)
(* Theorems about BacktestWorker for any payloads, seeds, batches, workers *)
(* and bounds on failures, restarts and requests.                          *)
(***************************************************************************)
EXTENDS BacktestWorker, FiniteSetTheorems, SequenceTheorems, TLAPS

USE SizeAssumption, BoundAssumption, PayloadAssumption, WorkerAssumption

\* A process at a variant, and the variant it is at.
VariantPcs == Pcs \ {"idle", "finalize", "complete"}
Here(k) == k.plan[k.n]

\* The data, typed; results are bounded below.
DataOK ==
    /\ rows \subseteq Variants /\ started \subseteq rows /\ completed \subseteq started
    /\ decisions \in [Variants -> SUBSET Batches]
    /\ metrics \in [Variants -> SUBSET Batches]
    /\ summarized \subseteq rows /\ summary \in [Variants -> SUBSET Batches]
    /\ results \in [Variants -> Nat]

\* A process goes through one of the two payloads; what it passed it wrote.
Busy(k, ro, st) ==
    k.pc # "idle" =>
      /\ k.plan \in {Plan(Symbols), Plan(RetrySymbols)} /\ k.n \in 1 .. Len(k.plan)
      /\ k.pc \in VariantPcs \ {"upsert"} => Here(k) \in ro
      /\ k.pc \in VariantPcs \ {"upsert", "check"} /\ k.timed => Here(k) \in st
      /\ k.pc = "stamp" => k.timed
      /\ k.pc = "insert" => k.batch \in Batches

\* A result more for every process that is about to create one.
Creating(v) == {w \in Workers : At(w, "result") /\ Current(w) = v}
ResultsBounded ==
    \A v \in Variants : results[v] + Cardinality(Creating(v)) <= Cardinality(Workers)

\* A variant that is not disturbed is whole or not begun, save for the batches
\* a process is inserting, and the process at it is alone in a live run.
Quiet ==
    \A v \in Undisturbed :
      /\ ~HalfDecided(v)
      /\ Visitors(v) = {} \/ (~Crowded /\ ~Finalized)

\* ... and what is computed was computed from all of its decisions.
Sound(v) ==
    /\ metrics[v] \in {{}, Batches}
    /\ metrics[v] # {} => decisions[v] = Batches
    /\ v \in summarized =>
         decisions[v] = Batches /\ metrics[v] = Batches /\ summary[v] = Batches
    /\ v \in completed => v \in summarized

\* What the process k has reached, at a variant that is not disturbed, of its
\* decisions D, metrics M, summary S (present if su) and results R.
Reached(k, D, M, S, su, R) ==
    /\ k.pc = "clear" => D = {}
    /\ k.pc = "insert" => D = 1 .. k.batch - 1
    /\ k.pc \in {"metrics", "insertMetrics", "load", "hash", "summary", "dropResult", "result", "stamp"}
       => D = Batches
    /\ k.pc \in {"insertMetrics", "hash", "summary"} => k.basis = Batches
    /\ k.pc \in {"load", "hash", "summary", "dropResult", "result", "stamp"} => M = Batches
    /\ k.pc \in {"dropResult", "result", "stamp"} => S = Batches /\ su
    /\ k.pc = "result" => R = 0
    /\ k.pc = "stamp" => R = 1
Placed(w) ==
    worker[w].pc \in VariantPcs /\ Current(w) \notin disturbed =>
      LET v == Current(w)
      IN  Reached(worker[w], decisions[v], metrics[v], summary[v], v \in summarized, results[v])

\* The variants a process has left behind are complete, or disturbed.
Settled == {v \in Variants : v \in disturbed \/ CompleteVariant(v)}
Passed(k, settled) ==
    k.pc # "idle" =>
      \A i \in 1 .. Len(k.plan) :
        k.pc \in {"finalize", "complete"} \/ (i < k.n /\ k.plan[i] # Here(k))
        => k.plan[i] \in settled

Inv ==
    /\ TypeOK /\ ResultsBounded /\ Quiet
    /\ \A v \in Undisturbed : Sound(v)
    /\ \A w \in Workers :
         Busy(worker[w], rows, started) /\ Placed(w) /\ Passed(worker[w], Settled)

-----------------------------------------------------------------------------
\* Division with remainder.
LEMMA DivMod ==
  ASSUME NEW a \in Nat, NEW m \in Nat \ {0}
  PROVE  a \div m \in Nat /\ (a % m) \in 0 .. m - 1 /\ a = (m * (a \div m)) + (a % m)
OBVIOUS

LEMMA DivLess ==
  ASSUME NEW a \in Nat, NEW m \in Nat \ {0}, NEW l \in Nat, a < l * m
  PROVE  a \div m < l
<1> DEFINE q == a \div m
           r == a % m
<1>0. a \div m \in Nat /\ (a % m) \in 0 .. m - 1 /\ a = (m * (a \div m)) + (a % m)
  BY DivMod
<1>1. q \in Nat /\ r \in Nat /\ a = (m * q) + r
  BY <1>0
<1>2. SUFFICES ASSUME q >= l PROVE FALSE
  BY <1>1
<1> HIDE DEF q, r
<1>3. m * q >= m * l
  BY <1>1, <1>2
<1>. QED
  BY <1>1, <1>2, <1>3

LEMMA DivOf ==
  ASSUME NEW q \in Nat, NEW m \in Nat \ {0}, NEW r \in 0 .. m - 1
  PROVE  (q * m + r) \div m = q /\ ((q * m + r) % m) = r
OBVIOUS

LEMMA ProductIsPositive ==
  ASSUME NEW l \in Nat \ {0}, NEW m \in Nat \ {0}
  PROVE  l * m \in Nat \ {0}
OBVIOUS

\* A payload is worked off as a sequence of variants of the run ...
LEMMA PlanIs ==
  ASSUME NEW s \in Seq(Range(Symbols)), s # <<>>
  PROVE  /\ Len(s) \in Nat \ {0} /\ Len(s) * SeedCount \in Nat \ {0}
         /\ Plan(s) \in Seq(Variants) /\ Len(Plan(s)) = Len(s) * SeedCount
         /\ \A n \in 1 .. Len(s) * SeedCount :
              Plan(s)[n] = <<s[(n - 1) \div SeedCount + 1], ((n - 1) % SeedCount) + 1>>
<1> DEFINE m == SeedCount
           k == Len(s) * m
<1>1. Len(s) \in Nat \ {0} /\ s \in [1 .. Len(s) -> Range(Symbols)]
  BY EmptySeq, LenProperties
<1>2. k \in Nat \ {0}
  BY <1>1, ProductIsPositive, SizeAssumption
<1>3. ASSUME NEW n \in 1 .. k
      PROVE  <<s[(n - 1) \div m + 1], ((n - 1) % m) + 1>> \in Variants
  <2>1. n - 1 \in Nat /\ n - 1 < Len(s) * m /\ m \in Nat \ {0}
    BY <1>1, <1>2, SizeAssumption
  <2>2. (n - 1) \div m \in Nat /\ ((n - 1) % m) \in 0 .. m - 1
    BY <2>1, DivMod
  <2>3. (n - 1) \div m < Len(s)
    BY <2>1, <1>1, DivLess
  <2>4. (n - 1) \div m + 1 \in 1 .. Len(s) /\ ((n - 1) % m) + 1 \in 1 .. m
    BY <2>1, <2>2, <2>3, <1>1
  <2>5. s[(n - 1) \div m + 1] \in Range(Symbols)
    BY <2>4, <1>1
  <2>. QED
    BY <2>4, <2>5 DEF Variants
<1>4. Plan(s) = [n \in 1 .. k |-> <<s[(n - 1) \div m + 1], ((n - 1) % m) + 1>>]
  BY DEF Plan
<1> HIDE DEF k
<1>5. Plan(s) \in [1 .. k -> Variants]
  BY <1>3, <1>4
<1>6. Plan(s) \in Seq(Variants) /\ Len(Plan(s)) = k
  BY <1>2, <1>5
<1>. QED
  BY <1>1, <1>2, <1>4, <1>6 DEF k

\* ... each variant of its assets in its turn.
LEMMA PlanCovers ==
  ASSUME NEW s \in Seq(Range(Symbols)), s # <<>>, NEW v \in Variants, v[1] \in Range(s)
  PROVE  \E n \in 1 .. Len(Plan(s)) : Plan(s)[n] = v
<1>1. PICK x \in Range(s), j \in 1 .. SeedCount : v = <<x, j>>
  BY DEF Variants
<1>2. PICK i \in 1 .. Len(s) : s[i] = x
  BY LenProperties DEF Range
<1> DEFINE m == SeedCount
           n == (i - 1) * m + j
<1>3. m \in Nat \ {0} /\ Len(s) \in Nat \ {0} /\ i - 1 \in Nat /\ j \in 1 .. m /\ j - 1 \in 0 .. m - 1
  BY PlanIs, SizeAssumption
<1>4. (i - 1) * m \in Nat /\ (i - 1) * m + m = i * m
  BY <1>3
<1>5. i * m <= Len(s) * m
  BY <1>3
<1>6. n \in 1 .. Len(s) * m
  <2>1. Len(s) * m \in Nat
    BY <1>3
  <2>. QED
    BY <1>3, <1>4, <1>5, <2>1
<1>7. n - 1 = (i - 1) * m + (j - 1)
  BY <1>3, <1>4
<1>8. (n - 1) \div m = i - 1 /\ ((n - 1) % m) = j - 1
  <2>1. ((i - 1) * m + (j - 1)) \div m = i - 1 /\ (((i - 1) * m + (j - 1)) % m) = j - 1
    BY <1>3, DivOf
  <2> HIDE DEF n
  <2>. QED
    BY <2>1, <1>7
<1> HIDE DEF n
<1>9. Plan(s)[n] = <<s[(n - 1) \div m + 1], ((n - 1) % m) + 1>>
  BY <1>6, PlanIs
<1>10. Plan(s)[n] = v
  <2>1. (n - 1) \div m + 1 = i /\ ((n - 1) % m) + 1 = j
    BY <1>3, <1>8
  <2>. QED
    BY <1>1, <1>2, <1>9, <2>1
<1>. QED
  BY <1>6, <1>10, PlanIs

\* The payloads.
LEMMA Payloads ==
  ASSUME NEW p \in {Plan(Symbols), Plan(RetrySymbols)}
  PROVE  p \in Seq(Variants) /\ Len(p) \in Nat \ {0} /\ \A n \in 1 .. Len(p) : p[n] \in Variants
<1>1. p \in Seq(Variants) /\ Len(p) \in Nat \ {0}
  BY PlanIs
<1>. QED
  BY <1>1, ElementOfSeq

LEMMA BatchesAre == Batches # {} /\ 1 \in Batches /\ NumBatches \in Batches
                    /\ Batches = 1 .. NumBatches
<1>1. 1 \in 1 .. NumBatches /\ NumBatches \in 1 .. NumBatches
  BY SizeAssumption
<1>. QED
  BY <1>1 DEF Batches

LEMMA IdleIsProcess == Idle \in Processes /\ Idle.pc = "idle"
BY DEF Idle, Processes, Pcs

-----------------------------------------------------------------------------
\* In Quiet, the process at a variant that is not disturbed is alone.
LEMMA Alone ==
  ASSUME TypeOK, Quiet, NEW w \in Workers, worker[w].pc \in VariantPcs,
         Current(w) \in Undisturbed
  PROVE  ~Finalized /\ \A u \in Workers \ {w} : worker[u].pc = "idle"
<1> DEFINE busy == {u \in Workers : ~At(u, "idle")}
<1>1. w \in Visitors(Current(w)) /\ w \in busy
  BY DEF Visitors, VariantPcs, At
<1>2. ~Crowded /\ ~Finalized
  BY <1>1 DEF Quiet
<1>3. ASSUME NEW u \in Workers \ {w}, worker[u].pc # "idle"
      PROVE  FALSE
  <2>1. IsFiniteSet(busy)
    BY FS_Subset, WorkerAssumption
  <2>2. {w, u} \in SUBSET busy
    BY <1>1, <1>3 DEF At
  <2>3. Cardinality({w, u}) = 2
    <3>1. {w, u} = {w} \cup {u}
      OBVIOUS
    <3>2. IsFiniteSet({w}) /\ Cardinality({w}) = 1
      BY FS_Singleton
    <3>. QED
      <4>1. u \notin {w}
        OBVIOUS
      <4>2. Cardinality({w} \cup {u}) = Cardinality({w}) + 1
        BY <3>2, <4>1, FS_AddElement
      <4>. QED
        BY <3>1, <3>2, <4>2
  <2>4. Cardinality(busy) >= 2
    <3>1. Cardinality({w, u}) <= Cardinality(busy) /\ Cardinality(busy) \in Nat
      BY <2>1, <2>2, FS_Subset, FS_CardinalityType
    <3>. QED
      BY <2>3, <3>1
  <2>. QED
    BY <1>2, <2>1, <2>4, FS_CardinalityType DEF Crowded
<1>. QED
  BY <1>2, <1>3

\* What Next says of disturbed keeps Quiet whatever the step was.
Disturbing ==
    /\ amended' \in BOOLEAN
    /\ disturbed' = disturbed \cup
         {v \in Variants : \/ HalfDecided(v)'
                           \/ Visitors(v)' # {} /\ (Crowded' \/ Finalized')}
LEMMA QuietKeeps ==
  ASSUME Disturbing, disturbed \subseteq Variants
  PROVE  /\ Quiet' /\ disturbed \subseteq disturbed' /\ disturbed' \subseteq Variants
         /\ Undisturbed' \subseteq Undisturbed /\ amended' \in BOOLEAN
<1>1. Undisturbed' \subseteq Undisturbed /\ disturbed \subseteq disturbed'
      /\ disturbed' \subseteq Variants /\ amended' \in BOOLEAN
  BY DEF Disturbing, Undisturbed
<1>2. ASSUME NEW v \in Undisturbed'
      PROVE  ~HalfDecided(v)' /\ (Visitors(v)' = {} \/ (~Crowded' /\ ~Finalized'))
  BY <1>2 DEF Disturbing, Undisturbed
<1>. QED
  BY <1>1, <1>2 DEF Quiet

-----------------------------------------------------------------------------
\* Nothing that is said of the variant u has changed.
Untouched(u) ==
    /\ u \in rows' <=> u \in rows
    /\ u \in completed' => u \in completed
    /\ u \in summarized' <=> u \in summarized
    /\ decisions'[u] = decisions[u] /\ metrics'[u] = metrics[u]
    /\ summary'[u] = summary[u] /\ results'[u] = results[u]

LEMMA UntouchedStays ==
  ASSUME NEW u, Untouched(u)
  PROVE  /\ Sound(u) => Sound(u)'
         /\ CompleteVariant(u) => CompleteVariant(u)'
<1>1. Sound(u) => Sound(u)'
  BY DEF Untouched, Sound
<1>2. CompleteVariant(u) => CompleteVariant(u)'
  BY DEF Untouched, CompleteVariant
<1>. QED
  BY <1>1, <1>2

LEMMA SubsetCounts ==
  ASSUME NEW S \in SUBSET Workers, NEW T \in SUBSET S
  PROVE  /\ Cardinality(S) \in Nat /\ Cardinality(T) \in Nat
         /\ Cardinality(T) <= Cardinality(S) /\ Cardinality(S) <= Cardinality(Workers)
         /\ Cardinality(Workers) \in Nat
         /\ \A w \in S : w \notin T => Cardinality(T) + 1 <= Cardinality(S)
<1>1. IsFiniteSet(S) /\ Cardinality(S) <= Cardinality(Workers) /\ Cardinality(Workers) \in Nat
  BY FS_Subset, FS_CardinalityType, WorkerAssumption
<1>2. IsFiniteSet(T) /\ Cardinality(T) <= Cardinality(S)
  BY <1>1, FS_Subset
<1>3. Cardinality(S) \in Nat /\ Cardinality(T) \in Nat
  BY <1>1, <1>2, FS_CardinalityType
<1>4. ASSUME NEW w \in S, w \notin T PROVE Cardinality(T) + 1 <= Cardinality(S)
  <2>1. Cardinality(T \cup {w}) = Cardinality(T) + 1
    BY <1>2, <1>4, FS_AddElement
  <2>2. T \cup {w} \in SUBSET S
    OBVIOUS
  <2>. QED
    BY <1>1, <2>1, <2>2, FS_Subset
<1>. QED
  BY <1>1, <1>2, <1>3, <1>4

\* A process at the variant v moves to k, and touches the data of v only.
LEMMA VariantMoves ==
  ASSUME Inv, Disturbing, NEW w \in Workers, NEW k \in Processes, NEW v \in Variants,
         worker[w].pc \in VariantPcs, v = Current(w),
         worker' = [worker EXCEPT ![w] = k], Aside,
         DataOK', rows \subseteq rows', started \subseteq started',
         \A u \in Variants \ {v} : Untouched(u),
         k.plan = worker[w].plan, k.pc # "idle", Busy(k, rows', started'),
         \/ results' = results /\ k.pc # "result"
         \/ results' = [results EXCEPT ![v] = 0] /\ k.pc = "result"
         \/ results' = [results EXCEPT ![v] = @ + 1] /\ worker[w].pc = "result" /\ k.pc # "result",
         v \in Undisturbed' => Sound(v)',
         \/ /\ k.n = worker[w].n /\ k.pc \in VariantPcs
            /\ v \in Undisturbed' =>
                 Reached(k, decisions'[v], metrics'[v], summary'[v], v \in summarized', results'[v])
         \/ /\ v \in Undisturbed' => CompleteVariant(v)'
            /\ \/ k.pc = "upsert" /\ k.n = worker[w].n + 1
               \/ k.pc = "finalize" /\ k.n = worker[w].n /\ k.n = Len(k.plan)
  PROVE  Inv'
<1>1. /\ worker \in [Workers -> Processes] /\ worker' \in [Workers -> Processes]
      /\ worker'[w] = k /\ \A u \in Workers \ {w} : worker'[u] = worker[u]
      /\ DOMAIN results = Variants /\ disturbed \subseteq Variants
      /\ \A x \in Variants : results[x] \in Nat
  BY DEF Inv, TypeOK
<1>2. /\ Quiet' /\ disturbed \subseteq disturbed' /\ disturbed' \subseteq Variants
      /\ Undisturbed' \subseteq Undisturbed /\ amended' \in BOOLEAN
  BY <1>1, QuietKeeps
<1>3. Here(k) = v \/ k.pc \in {"upsert", "finalize"}
  BY DEF Here, Current
<1>4. ASSUME v \in Undisturbed PROVE \A u \in Workers \ {w} : worker[u].pc = "idle"
  BY <1>4, Alone DEF Inv
<1>5. ResultsBounded'
  <2> SUFFICES ASSUME NEW x \in Variants
               PROVE  results'[x] + Cardinality(Creating(x)') <= Cardinality(Workers)
    BY DEF ResultsBounded
  <2>1. results[x] + Cardinality(Creating(x)) <= Cardinality(Workers)
    BY DEF Inv, ResultsBounded
  <2>2. Creating(x) \subseteq Workers /\ Creating(x)' \subseteq Workers
    BY DEF Creating
  <2>3. \A u \in Workers \ {w} : u \in Creating(x)' <=> u \in Creating(x)
    BY <1>1 DEF Creating, At, Current
  <2>4. w \in Creating(x)' => k.pc = "result" /\ x = v
    BY <1>1, <1>3 DEF Creating, At, Current, Here
  <2>5. worker[w].pc = "result" => w \in Creating(v)
    BY DEF Creating, At
  <2>6. results[x] \in Nat
    BY <1>1
  <2>7. CASE w \in Creating(x)'
    <3>1. results'[x] = 0
      BY <2>4, <2>7, <1>1
    <3>2. Cardinality(Creating(x)') <= Cardinality(Workers) /\ Cardinality(Creating(x)') \in Nat
      BY <2>2, SubsetCounts
    <3>. QED
      BY <3>1, <3>2
  <2>8. CASE w \notin Creating(x)'
    <3>1. Creating(x)' \in SUBSET Creating(x)
      BY <2>2, <2>3, <2>8
    <3>2. /\ Cardinality(Creating(x)') \in Nat /\ Cardinality(Creating(x)) \in Nat
          /\ Cardinality(Creating(x)') <= Cardinality(Creating(x))
          /\ Cardinality(Workers) \in Nat
          /\ w \in Creating(x) => Cardinality(Creating(x)') + 1 <= Cardinality(Creating(x))
      BY <2>2, <2>8, <3>1, SubsetCounts
    <3>3. CASE x = v /\ worker[w].pc = "result" /\ results' = [results EXCEPT ![v] = @ + 1]
      <4>1. results'[x] = results[x] + 1
        BY <3>3, <1>1
      <4>2. w \in Creating(x)
        BY <3>3, <2>5
      <4>. QED
        BY <4>1, <4>2, <3>2, <2>1, <2>6
    <3>4. CASE results'[x] \in {0, results[x]}
      BY <3>4, <3>2, <2>1, <2>6
    <3>. QED
      BY <3>3, <3>4, <1>1
  <2>. QED
    BY <2>7, <2>8
<1>6. TypeOK'
  <2>1. results' \in [Variants -> 0 .. Cardinality(Workers)]
    <3>1. ASSUME NEW x \in Variants PROVE results'[x] \in 0 .. Cardinality(Workers)
      <4>1. Creating(x)' \in SUBSET Workers
        BY DEF Creating
      <4>2. Cardinality(Creating(x)') \in Nat /\ Cardinality(Workers) \in Nat
        BY <4>1, SubsetCounts
      <4>3. results'[x] + Cardinality(Creating(x)') <= Cardinality(Workers)
        BY <1>5 DEF ResultsBounded
      <4>4. results'[x] \in Nat
        BY DEF DataOK
      <4>. QED
        BY <4>2, <4>3, <4>4
    <3>. QED
      BY <3>1 DEF DataOK
  <2>2. /\ status' \in Statuses /\ jobs' \in Seq({Symbols, RetrySymbols})
        /\ failures' \in 0 .. MaxFailures /\ restarts' \in 0 .. MaxRestarts
        /\ requests' \in 0 .. MaxRequests
    BY DEF Inv, TypeOK, Aside, bounds
  <2>. QED
    BY <1>1, <1>2, <2>1, <2>2 DEF TypeOK, DataOK
<1>7. ASSUME NEW x \in Undisturbed' PROVE Sound(x)'
  <2>1. CASE x = v
    BY <1>7, <2>1
  <2>2. CASE x # v
    <3>1. x \in Undisturbed /\ x \in Variants \ {v}
      BY <1>2, <2>2 DEF Undisturbed
    <3>. QED
      BY <3>1, UntouchedStays DEF Inv
  <2>. QED
    BY <2>1, <2>2
<1>8. ASSUME NEW x \in Settled, x = v => v \notin Undisturbed' PROVE x \in Settled'
  <2>1. CASE x \in disturbed'
    BY <2>1, <1>8 DEF Settled
  <2>2. CASE x \notin disturbed'
    <3>1. x \in Variants \ {v} /\ x \notin disturbed
      BY <2>2, <1>2, <1>8 DEF Settled, Undisturbed
    <3>2. CompleteVariant(x)
      BY <1>8, <3>1 DEF Settled
    <3>. QED
      BY <3>1, <3>2, UntouchedStays DEF Settled
  <2>. QED
    BY <2>1, <2>2
<1>9. ASSUME NEW u \in Workers \ {w}
      PROVE  Busy(worker'[u], rows', started') /\ Placed(u)' /\ Passed(worker'[u], Settled')
  <2>1. worker'[u] = worker[u]
    BY <1>1
  <2>2. Busy(worker[u], rows, started) /\ Placed(u) /\ Passed(worker[u], Settled)
    BY DEF Inv
  <2>3. Busy(worker[u], rows', started')
    BY <2>2 DEF Busy
  <2>4. worker[u].pc # "idle" => v \notin Undisturbed'
    BY <1>4, <1>2
  <2>5. Passed(worker[u], Settled')
    BY <2>2, <2>4, <1>8 DEF Passed
  <2>6. Placed(u)'
    <3> SUFFICES ASSUME worker[u].pc \in VariantPcs, Current(u) \notin disturbed'
                 PROVE  Reached(worker[u], decisions'[Current(u)], metrics'[Current(u)],
                                summary'[Current(u)], Current(u) \in summarized', results'[Current(u)])
      BY <2>1 DEF Placed, Current
    <3>1. Current(u) \in Variants /\ worker[u].pc # "idle"
      <4>1. worker[u].pc # "idle"
        BY DEF VariantPcs
      <4>2. /\ worker[u].plan \in {Plan(Symbols), Plan(RetrySymbols)}
            /\ worker[u].n \in 1 .. Len(worker[u].plan)
        BY <4>1, <2>2 DEF Busy
      <4>. QED
        BY <4>1, <4>2, Payloads DEF Current
    <3>2. Current(u) # v
      BY <3>1, <2>4 DEF Undisturbed
    <3>3. Untouched(Current(u)) /\ Current(u) \notin disturbed
      BY <3>1, <3>2, <1>2
    <3>4. Reached(worker[u], decisions[Current(u)], metrics[Current(u)],
                  summary[Current(u)], Current(u) \in summarized, results[Current(u)])
      BY <2>2, <3>3 DEF Placed
    <3>. QED
      BY <3>3, <3>4 DEF Untouched, Reached
  <2>. QED
    BY <2>1, <2>3, <2>5, <2>6
<1>10. Busy(worker'[w], rows', started') /\ Placed(w)' /\ Passed(worker'[w], Settled')
  <2>1. Busy(k, rows', started') /\ Busy(worker[w], rows, started) /\ Passed(worker[w], Settled)
    BY DEF Inv
  <2>2. worker[w].pc # "idle" /\ worker[w].pc \notin {"finalize", "complete"}
    BY DEF VariantPcs
  <2>3. v \in Undisturbed \/ v \notin Undisturbed'
    BY <1>2
  <2>4. k.n = worker[w].n /\ k.pc \in VariantPcs => Here(k) = v
    BY DEF Here, Current
  <2>5. Placed(w)'
    <3> SUFFICES ASSUME k.pc \in VariantPcs, Here(k) \notin disturbed'
                 PROVE  Reached(k, decisions'[Here(k)], metrics'[Here(k)], summary'[Here(k)],
                                Here(k) \in summarized', results'[Here(k)])
      BY <1>1 DEF Placed, Current, Here
    <3>1. CASE k.pc = "upsert"
      BY <3>1 DEF Reached
    <3>2. CASE k.pc # "upsert"
      <4>1. k.n = worker[w].n /\ k.pc \in VariantPcs
        BY <3>2 DEF VariantPcs
      <4>2. Here(k) = v /\ v \in Undisturbed'
        BY <4>1, <2>4 DEF Undisturbed
      <4>. QED
        BY <3>2, <4>1, <4>2 DEF Reached
    <3>. QED
      BY <3>1, <3>2
  <2>6. ASSUME v \in Undisturbed' => CompleteVariant(v)'
        PROVE  v \in Settled'
    BY <2>6 DEF Settled, Undisturbed
  <2>7. Passed(k, Settled')
    <3> SUFFICES ASSUME NEW i \in 1 .. Len(k.plan),
                        k.pc \in {"finalize", "complete"} \/ (i < k.n /\ k.plan[i] # Here(k))
                 PROVE  k.plan[i] \in Settled'
      BY DEF Passed
    <3>1. worker[w].n \in 1 .. Len(k.plan) /\ Len(k.plan) \in Nat
      BY <2>1, <2>2, Payloads DEF Busy
    <3>2. \A j \in 1 .. Len(k.plan) : j < worker[w].n /\ k.plan[j] # v => k.plan[j] \in Settled
      BY <2>1, <2>2 DEF Passed, Here, Current
    <3>3. k.plan[worker[w].n] = v
      BY DEF Current
    <3>4. CASE k.n = worker[w].n /\ k.pc \in VariantPcs
      BY <3>1, <3>2, <3>4, <2>4, <1>8 DEF VariantPcs
    <3>5. CASE ~(k.n = worker[w].n /\ k.pc \in VariantPcs)
      <4>1. v \in Settled'
        BY <2>6, <3>5
      <4>2. i < worker[w].n \/ i = worker[w].n
        BY <3>1, <3>5, <2>1
      <4>3. CASE k.plan[i] = v
        BY <4>1, <4>3
      <4>4. CASE k.plan[i] # v
        BY <4>2, <4>4, <3>2, <3>3, <1>8
      <4>. QED
        BY <4>3, <4>4
    <3>. QED
      BY <3>4, <3>5
  <2>. QED
    BY <1>1, <2>1, <2>5, <2>7
<1>. QED
  BY <1>2, <1>5, <1>6, <1>7, <1>9, <1>10 DEF Inv

\* No data changes; processes may start, stop, or pass from finalizing on.
ControlOK ==
    /\ status \in Statuses /\ jobs \in Seq({Symbols, RetrySymbols})
    /\ worker \in [Workers -> Processes]
    /\ failures \in 0 .. MaxFailures /\ restarts \in 0 .. MaxRestarts
    /\ requests \in 0 .. MaxRequests
SamePlace(k, l) ==
    k.pc = l.pc /\ k.plan = l.plan /\ k.n = l.n /\ k.timed = l.timed
    /\ k.batch = l.batch /\ k.basis = l.basis
LEMMA DataStays ==
  ASSUME Inv, Disturbing, UNCHANGED data, ControlOK',
         \A u \in Workers :
           \/ worker'[u].pc = "idle"
           \/ SamePlace(worker'[u], worker[u])
           \/ /\ worker'[u].pc = "upsert" /\ worker'[u].n = 1
              /\ worker'[u].plan \in {Plan(Symbols), Plan(RetrySymbols)}
           \/ worker[u].pc = "finalize" /\ worker'[u] = [worker[u] EXCEPT !.pc = "complete"]
  PROVE  Inv'
<1>1. worker \in [Workers -> Processes] /\ worker' \in [Workers -> Processes]
      /\ disturbed \subseteq Variants
  BY DEF Inv, TypeOK, ControlOK
<1>2. /\ Quiet' /\ disturbed \subseteq disturbed' /\ disturbed' \subseteq Variants
      /\ Undisturbed' \subseteq Undisturbed /\ amended' \in BOOLEAN
  BY <1>1, QuietKeeps
<1>3. /\ rows' = rows /\ started' = started /\ completed' = completed
      /\ decisions' = decisions /\ metrics' = metrics
      /\ summarized' = summarized /\ summary' = summary /\ results' = results
  BY DEF data
<1>4. TypeOK'
  <2>1. /\ rows \subseteq Variants /\ started \subseteq rows /\ completed \subseteq started
        /\ decisions \in [Variants -> SUBSET Batches]
        /\ metrics \in [Variants -> SUBSET Batches]
        /\ summarized \subseteq rows /\ summary \in [Variants -> SUBSET Batches]
        /\ results \in [Variants -> 0 .. Cardinality(Workers)]
    BY DEF Inv, TypeOK
  <2>. QED
    BY <1>2, <1>3, <2>1 DEF TypeOK, ControlOK
<1>5. ASSUME NEW u \in Workers, worker'[u].pc \in VariantPcs, worker'[u].pc # "upsert"
      PROVE  SamePlace(worker'[u], worker[u])
  <2>1. worker[u].pc = "finalize" /\ worker'[u] = [worker[u] EXCEPT !.pc = "complete"]
        => worker'[u].pc = "complete"
    BY <1>1 DEF Processes
  <2>. QED
    BY <1>5, <2>1 DEF VariantPcs
<1>6. ResultsBounded'
  <2> SUFFICES ASSUME NEW x \in Variants
               PROVE  results[x] + Cardinality(Creating(x)') <= Cardinality(Workers)
    BY <1>3 DEF ResultsBounded
  <2>1. results[x] + Cardinality(Creating(x)) <= Cardinality(Workers)
    BY DEF Inv, ResultsBounded
  <2>2. ASSUME NEW u \in Workers, u \in Creating(x)' PROVE u \in Creating(x)
    <3>1. worker'[u].pc = "result"
      BY <2>2 DEF Creating, At
    <3>2. SamePlace(worker'[u], worker[u])
      BY <3>1, <1>5 DEF VariantPcs, Pcs
    <3>. QED
      BY <2>2, <3>2 DEF SamePlace, Creating, At, Current
  <2>3. Creating(x) \in SUBSET Workers /\ Creating(x)' \in SUBSET Creating(x)
    BY <2>2 DEF Creating
  <2>4. /\ Cardinality(Creating(x)') \in Nat /\ Cardinality(Creating(x)) \in Nat
        /\ Cardinality(Creating(x)') <= Cardinality(Creating(x))
        /\ Cardinality(Workers) \in Nat
    BY <2>3, SubsetCounts
  <2>5. results[x] \in Nat
    BY DEF Inv, TypeOK
  <2>. QED
    BY <2>1, <2>4, <2>5
<1>7. \A x \in Undisturbed' : Sound(x)'
  BY <1>2, <1>3 DEF Inv, Sound
<1>8. Settled \subseteq Settled'
  BY <1>2, <1>3 DEF Settled, CompleteVariant
<1>9. ASSUME NEW u \in Workers
      PROVE  Busy(worker'[u], rows', started') /\ Placed(u)' /\ Passed(worker'[u], Settled')
  <2> DEFINE k == worker[u]
             l == worker'[u]
  <2>1. Busy(k, rows, started) /\ Placed(u) /\ Passed(k, Settled)
    BY DEF Inv
  <2>2. k \in Processes /\ l \in Processes
    BY <1>1
  <2>3. Placed(u)'
    <3>1. CASE l.pc \in {"idle", "upsert", "complete", "finalize"}
      BY <3>1 DEF Placed, Reached, VariantPcs
    <3>2. CASE SamePlace(l, k)
      <4>1. Current(u)' = Current(u) /\ l.pc = k.pc /\ l.batch = k.batch /\ l.basis = k.basis
        BY <3>2 DEF SamePlace, Current
      <4>. QED
        BY <4>1, <2>1, <1>2, <1>3 DEF Placed, Reached
    <3>. QED
      <4>1. l.pc \in Pcs
        BY <2>2 DEF Processes
      <4>2. l.pc \in VariantPcs \/ l.pc \in {"idle", "complete", "finalize"}
        BY <4>1 DEF VariantPcs
      <4>. QED
        BY <3>1, <3>2, <1>5, <4>2
  <2>4. CASE l.pc = "idle"
    BY <2>4, <2>3 DEF Busy, Passed
  <2>5. CASE SamePlace(l, k)
    <3>1. Here(l) = Here(k)
      BY <2>5 DEF SamePlace, Here
    <3>2. Busy(l, rows', started')
      BY <3>1, <2>5, <2>1, <1>3 DEF SamePlace, Busy
    <3>3. Passed(l, Settled')
      BY <3>1, <2>5, <2>1, <1>8 DEF SamePlace, Passed
    <3>. QED
      BY <3>2, <3>3, <2>3
  <2>6. CASE l.pc = "upsert" /\ l.n = 1 /\ l.plan \in {Plan(Symbols), Plan(RetrySymbols)}
    <3>1. Len(l.plan) \in Nat \ {0}
      BY <2>6, Payloads
    <3>2. Busy(l, rows', started')
      BY <2>6, <3>1 DEF Busy
    <3>3. Passed(l, Settled')
      BY <2>6, <3>1 DEF Passed
    <3>. QED
      BY <3>2, <3>3, <2>3
  <2>7. CASE k.pc = "finalize" /\ l = [k EXCEPT !.pc = "complete"]
    <3>1. l.pc = "complete" /\ l.plan = k.plan /\ l.n = k.n
      BY <2>7, <2>2 DEF Processes
    <3>2. Busy(l, rows', started')
      BY <3>1, <2>7, <2>1 DEF Busy, VariantPcs
    <3>3. Passed(l, Settled')
      BY <3>1, <2>7, <2>1, <1>8 DEF Passed
    <3>. QED
      BY <3>2, <3>3, <2>3
  <2>. QED
    BY <2>4, <2>5, <2>6, <2>7
<1>. QED
  BY <1>2, <1>4, <1>6, <1>7, <1>9 DEF Inv

\* A process stops.
LEMMA ProcessStops ==
  ASSUME Inv, Disturbing, UNCHANGED data, NEW w \in Workers,
         worker' = [worker EXCEPT ![w] = Idle],
         status' \in Statuses, UNCHANGED jobs, UNCHANGED <<restarts, requests>>,
         failures' \in 0 .. MaxFailures
  PROVE  Inv'
<1>1. worker \in [Workers -> Processes]
  BY DEF Inv, TypeOK
<1>2. worker' \in [Workers -> Processes]
  BY <1>1, IdleIsProcess
<1>3. ControlOK'
  BY <1>2 DEF ControlOK, Inv, TypeOK
<1>4. ASSUME NEW u \in Workers PROVE worker'[u].pc = "idle" \/ SamePlace(worker'[u], worker[u])
  <2>1. CASE u = w
    BY <2>1, <1>1, IdleIsProcess
  <2>2. CASE u # w
    BY <2>2, <1>1 DEF SamePlace
  <2>. QED
    BY <2>1, <2>2
<1>. QED
  BY <1>3, <1>4, DataStays

\* The processes go on as they are.
LEMMA ProcessesStay ==
  ASSUME Inv, Disturbing, UNCHANGED data, ControlOK',
         \A u \in Workers : SamePlace(worker'[u], worker[u])
  PROVE  Inv'
BY DataStays

LEMMA FinalizeKeeps ==
  ASSUME Inv, Disturbing, NEW w \in Workers, Finalize(w)
  PROVE  Inv'
<1>1. UNCHANGED <<status, jobs, failures, restarts, requests>> /\ UNCHANGED data
      /\ At(w, "finalize")
  BY DEF Finalize, Aside, bounds
<1>2. worker \in [Workers -> Processes] /\ status \in Statuses /\ failures \in 0 .. MaxFailures
  BY DEF Inv, TypeOK
<1>3. CASE worker' = [worker EXCEPT ![w] = Idle]
  BY <1>1, <1>2, <1>3, ProcessStops
<1>4. CASE Go(w, "complete")
  <2>1. worker' = [worker EXCEPT ![w] = [worker[w] EXCEPT !.pc = "complete"]]
    BY <1>4, <1>2 DEF Go
  <2>2. worker' \in [Workers -> Processes]
    BY <2>1, <1>2 DEF Processes, Pcs
  <2>3. ControlOK'
    BY <2>2, <1>1 DEF ControlOK, Inv, TypeOK
  <2>4. ASSUME NEW u \in Workers
        PROVE  \/ SamePlace(worker'[u], worker[u])
               \/ worker[u].pc = "finalize" /\ worker'[u] = [worker[u] EXCEPT !.pc = "complete"]
    <3>1. CASE u = w
      BY <3>1, <2>1, <1>1, <1>2 DEF At
    <3>2. CASE u # w
      BY <3>2, <2>1, <1>2 DEF SamePlace
    <3>. QED
      BY <3>1, <3>2
  <2>. QED
    BY <1>1, <2>3, <2>4, DataStays
<1>. QED
  BY <1>3, <1>4 DEF Finalize

LEMMA LaunchKeeps ==
  ASSUME Inv, Disturbing, NEW w \in Workers, Launch(w)
  PROVE  Inv'
<1> DEFINE k == [Idle EXCEPT !.pc = "upsert", !.plan = Plan(Head(jobs))]
<1>1. worker \in [Workers -> Processes] /\ jobs \in Seq({Symbols, RetrySymbols}) /\ jobs # <<>>
  BY DEF Inv, TypeOK, Launch
<1>2. Head(jobs) \in {Symbols, RetrySymbols} /\ Tail(jobs) \in Seq({Symbols, RetrySymbols})
  BY <1>1
<1>3. Plan(Head(jobs)) \in {Plan(Symbols), Plan(RetrySymbols)}
  BY <1>2
<1>4. k \in Processes /\ k.pc = "upsert" /\ k.n = 1 /\ k.plan = Plan(Head(jobs))
  BY <1>3, Payloads DEF Idle, Processes, Pcs
<1>5. worker' = [worker EXCEPT ![w] = k] /\ jobs' = Tail(jobs) /\ status' = AfterRunning(status)
      /\ UNCHANGED data /\ UNCHANGED <<failures, restarts, requests>>
  BY DEF Launch, bounds
<1> HIDE DEF k
<1>6. worker' \in [Workers -> Processes]
  BY <1>1, <1>4, <1>5
<1>7. status' \in Statuses
  BY <1>5 DEF AfterRunning, Statuses, Inv, TypeOK
<1>8. ControlOK'
  BY <1>2, <1>5, <1>6, <1>7 DEF ControlOK, Inv, TypeOK
<1>9. ASSUME NEW u \in Workers
      PROVE  \/ SamePlace(worker'[u], worker[u])
             \/ /\ worker'[u].pc = "upsert" /\ worker'[u].n = 1
                /\ worker'[u].plan \in {Plan(Symbols), Plan(RetrySymbols)}
  <2>1. CASE u = w
    BY <2>1, <1>1, <1>3, <1>4, <1>5
  <2>2. CASE u # w
    BY <2>2, <1>1, <1>5 DEF SamePlace
  <2>. QED
    BY <2>1, <2>2
<1>. QED
  BY <1>5, <1>8, <1>9, DataStays

LEMMA StopKeeps ==
  ASSUME Inv, Disturbing, NEW w \in Workers, Stop(w) \/ Throw(w) \/ Complete(w)
  PROVE  Inv'
<1>1. /\ status \in Statuses /\ failures \in 0 .. MaxFailures /\ restarts \in 0 .. MaxRestarts
      /\ requests \in 0 .. MaxRequests
  BY DEF Inv, TypeOK
<1>2. worker' = [worker EXCEPT ![w] = Idle] /\ UNCHANGED data /\ UNCHANGED jobs
      /\ UNCHANGED <<restarts, requests>>
  BY DEF Stop, Throw, Complete, bounds
<1>3. status' \in Statuses
  BY <1>1 DEF Stop, Throw, Complete, AfterFailed, AfterCompleted, Statuses
<1>4. failures' \in 0 .. MaxFailures
  BY <1>1, BoundAssumption DEF Stop, Throw, Complete, bounds
<1>. QED
  BY <1>2, <1>3, <1>4, ProcessStops

LEMMA RestartKeeps ==
  ASSUME Inv, Disturbing, Restart
  PROVE  Inv'
<1>1. worker \in [Workers -> Processes]
  BY DEF Inv, TypeOK
<1>2. ASSUME NEW u \in Workers
      PROVE  worker'[u] \in Processes /\ SamePlace(worker'[u], worker[u])
  <2>1. worker'[u] = [worker[u] EXCEPT !.orphan = ~At(u, "idle")]
    BY DEF Restart
  <2>2. worker[u] \in Processes
    BY <1>1
  <2>3. (~At(u, "idle")) \in BOOLEAN
    BY DEF At
  <2>. QED
    BY <2>1, <2>2, <2>3 DEF Processes, SamePlace
<1>3. worker' = [u \in Workers |-> worker'[u]]
  BY DEF Restart
<1>4. worker' \in [Workers -> Processes]
  BY <1>2, <1>3
<1>5. ControlOK'
  BY <1>4, BoundAssumption DEF ControlOK, Inv, TypeOK, Restart
<1>. QED
  BY <1>2, <1>5, ProcessesStay DEF Restart

LEMMA RequestsKeep ==
  ASSUME Inv, Disturbing, PatchCompleted \/ PatchFailed \/ Enqueue \/ Retry
  PROVE  Inv'
<1>1. worker \in [Workers -> Processes] /\ jobs \in Seq({Symbols, RetrySymbols})
      /\ requests \in 0 .. MaxRequests /\ status \in Statuses
  BY DEF Inv, TypeOK
<1>2. UNCHANGED <<worker, failures, restarts>> /\ UNCHANGED data /\ requests' = requests + 1
      /\ requests < MaxRequests /\ jobs' \in {jobs, Enqueued}
      /\ status' \in {status, "COMPLETED", AfterFailed(status), AfterRetry(status)}
  BY DEF PatchCompleted, PatchFailed, Enqueue, Retry, Request
<1>3. Enqueued \in Seq({Symbols, RetrySymbols})
  BY <1>1 DEF Enqueued
<1>4. status' \in Statuses
  BY <1>1, <1>2 DEF AfterFailed, AfterRetry, Statuses
<1>5. ControlOK'
  BY <1>1, <1>2, <1>3, <1>4, BoundAssumption DEF ControlOK, Inv, TypeOK
<1>6. \A u \in Workers : SamePlace(worker'[u], worker[u])
  BY <1>2 DEF SamePlace
<1>. QED
  BY <1>2, <1>5, <1>6, ProcessesStay

-----------------------------------------------------------------------------
\* What Inv says of a process at a variant.
LEMMA AtVariant ==
  ASSUME Inv, NEW w \in Workers, worker[w].pc \in VariantPcs
  PROVE  /\ worker \in [Workers -> Processes] /\ worker[w] \in Processes
         /\ Current(w) \in Variants /\ Current(w) = Here(worker[w])
         /\ worker[w].plan \in {Plan(Symbols), Plan(RetrySymbols)}
         /\ worker[w].n \in 1 .. Len(worker[w].plan) /\ Len(worker[w].plan) \in Nat
         /\ worker[w].pc # "upsert" => Current(w) \in rows
         /\ worker[w].pc \notin {"upsert", "check"} /\ worker[w].timed => Current(w) \in started
         /\ worker[w].pc = "stamp" => worker[w].timed
         /\ worker[w].pc = "insert" => worker[w].batch \in Batches
         /\ DataOK
<1>1. worker \in [Workers -> Processes] /\ Busy(worker[w], rows, started)
  BY DEF Inv, TypeOK
<1>2. worker[w].pc # "idle" /\ Current(w) = Here(worker[w])
  BY DEF VariantPcs, Current, Here
<1>3. /\ worker[w].plan \in {Plan(Symbols), Plan(RetrySymbols)}
      /\ worker[w].n \in 1 .. Len(worker[w].plan)
  BY <1>1, <1>2 DEF Busy
<1>4. Current(w) \in Variants /\ Len(worker[w].plan) \in Nat
  BY <1>3, Payloads DEF Current
<1>5. DataOK
  <2>1. Cardinality(Workers) \in Nat
    BY FS_CardinalityType, WorkerAssumption
  <2>2. results \in [Variants -> Nat]
    BY <2>1 DEF Inv, TypeOK
  <2>. QED
    BY <2>2 DEF DataOK, Inv, TypeOK
<1>6. /\ worker[w].pc # "upsert" => Current(w) \in rows
      /\ worker[w].pc \notin {"upsert", "check"} /\ worker[w].timed => Current(w) \in started
      /\ worker[w].pc = "stamp" => worker[w].timed
      /\ worker[w].pc = "insert" => worker[w].batch \in Batches
  BY <1>1, <1>2 DEF Busy
<1>. QED
  BY <1>1, <1>3, <1>2, <1>4, <1>5, <1>6

\* ... and of the variant, when it is not disturbed.
LEMMA AtUndisturbed ==
  ASSUME Inv, NEW w \in Workers, worker[w].pc \in VariantPcs, NEW v \in Undisturbed,
         v = Current(w)
  PROVE  /\ Sound(v)
         /\ Reached(worker[w], decisions[v], metrics[v], summary[v], v \in summarized, results[v])
         /\ worker[w].pc # "insert" => decisions[v] \in {{}, Batches}
<1>1. Sound(v)
  BY DEF Inv
<1>2. Reached(worker[w], decisions[v], metrics[v], summary[v], v \in summarized, results[v])
  <2>1. Placed(w) /\ v \notin disturbed
    BY DEF Inv, Undisturbed
  <2>. QED
    BY <2>1 DEF Placed, Reached
<1>3. ASSUME worker[w].pc # "insert" PROVE decisions[v] \in {{}, Batches}
  <2>1. \A u \in Workers \ {w} : worker[u].pc = "idle"
    BY Alone DEF Inv
  <2>2. \A u \in Visitors(v) : ~At(u, "insert")
    BY <1>3, <2>1 DEF Visitors, At
  <2>3. ~HalfDecided(v)
    BY DEF Inv, Quiet
  <2>. QED
    BY <2>2, <2>3 DEF HalfDecided
<1>. QED
  BY <1>1, <1>2, <1>3

\* A step at a variant touches the data of that variant only.
LEMMA StepTouches ==
  ASSUME Inv, NEW w \in Workers, VariantStep(w), NEW u \in Variants, u # Current(w)
  PROVE  Untouched(u)
<1>1. DOMAIN decisions = Variants /\ DOMAIN metrics = Variants /\ DOMAIN summary = Variants
      /\ DOMAIN results = Variants
  BY DEF Inv, TypeOK
<1>2. UpsertVariant(w) => Untouched(u)
  BY DEF UpsertVariant, Untouched
<1>3. AlreadyComputed(w) \/ SkipDecide(w) \/ Decide(w) \/ SkipMetrics(w) \/ ComputeMetrics(w)
      \/ CountDecisions(w) \/ HashDecisions(w) => Untouched(u)
  BY DEF AlreadyComputed, SkipDecide, Decide, SkipMetrics, ComputeMetrics, CountDecisions,
         HashDecisions, data, Untouched
<1>4. StartVariant(w) => Untouched(u)
  BY DEF StartVariant, Untouched
<1>5. ClearDecisions(w) \/ InsertBatch(w) => Untouched(u)
  BY <1>1 DEF ClearDecisions, InsertBatch, Untouched
<1>6. InsertMetrics(w) => Untouched(u)
  BY <1>1 DEF InsertMetrics, Untouched
<1>7. UpsertSummary(w) => Untouched(u)
  BY <1>1 DEF UpsertSummary, Untouched
<1>8. DropResult(w) => Untouched(u)
  BY <1>1 DEF DropResult, Untouched
<1>9. CreateResult(w) => Untouched(u)
  BY <1>1 DEF CreateResult, Untouched
<1>10. StampVariant(w) => Untouched(u)
  BY <1>1 DEF StampVariant, Untouched
<1>. QED
  BY <1>2, <1>3, <1>4, <1>5, <1>6, <1>7, <1>8, <1>9, <1>10 DEF VariantStep

\* A process goes on at its variant and touches no data.
LEMMA ProcessMoves ==
  ASSUME Inv, Disturbing, NEW w \in Workers, NEW k \in Processes, NEW v \in Variants,
         worker[w].pc \in VariantPcs, v = Current(w),
         worker' = [worker EXCEPT ![w] = k], Aside, UNCHANGED data,
         k.plan = worker[w].plan, k.n = worker[w].n, k.pc \in VariantPcs \ {"result"},
         Busy(k, rows, started),
         v \in Undisturbed =>
           Reached(k, decisions[v], metrics[v], summary[v], v \in summarized, results[v])
  PROVE  Inv'
<1>1. /\ rows' = rows /\ started' = started /\ completed' = completed
      /\ decisions' = decisions /\ metrics' = metrics
      /\ summarized' = summarized /\ summary' = summary /\ results' = results
  BY DEF data
<1>2. DataOK'
  BY <1>1, AtVariant DEF DataOK
<1>3. \A u \in Variants : Untouched(u)
  BY <1>1 DEF Untouched
<1>4. v \in Undisturbed' => v \in Undisturbed
  BY QuietKeeps DEF Inv, TypeOK
<1>5. v \in Undisturbed' => Sound(v)'
  BY <1>3, <1>4, UntouchedStays DEF Inv
<1>6. k.pc # "idle" /\ k.pc # "result" /\ k.pc \in VariantPcs
  BY DEF VariantPcs
<1>7. Busy(k, rows', started')
  BY <1>1
<1>8. v \in Undisturbed' =>
        Reached(k, decisions'[v], metrics'[v], summary'[v], v \in summarized', results'[v])
  BY <1>1, <1>4 DEF Reached
<1>. QED
  BY <1>1, <1>2, <1>3, <1>5, <1>6, <1>7, <1>8, VariantMoves

\* Go keeps all of a process but its pc.
LEMMA GoIs ==
  ASSUME worker \in [Workers -> Processes], NEW w \in Workers, NEW pc \in Pcs, Go(w, pc)
  PROVE  \E k \in Processes :
           /\ worker' = [worker EXCEPT ![w] = k] /\ k.pc = pc /\ k.plan = worker[w].plan
           /\ k.n = worker[w].n /\ k.timed = worker[w].timed /\ k.batch = worker[w].batch
           /\ k.basis = worker[w].basis /\ Here(k) = Here(worker[w])
<1> DEFINE k == [worker[w] EXCEPT !.pc = pc]
<1>1. /\ k \in Processes /\ worker' = [worker EXCEPT ![w] = k]
      /\ k.pc = pc /\ k.plan = worker[w].plan
      /\ k.n = worker[w].n /\ k.timed = worker[w].timed /\ k.batch = worker[w].batch
      /\ k.basis = worker[w].basis
  BY DEF Go, Processes
<1> HIDE DEF k
<1>. QED
  BY <1>1 DEF Here

LEMMA DecideKeeps ==
  ASSUME Inv, Disturbing, NEW w \in Workers, SkipDecide(w) \/ Decide(w) \/ SkipMetrics(w)
  PROVE  Inv'
<1> DEFINE v == Current(w)
<1>1. worker[w].pc \in VariantPcs \ {"upsert", "check"} /\ worker[w].pc # "insert"
  BY DEF SkipDecide, Decide, SkipMetrics, At, VariantPcs, Pcs
<1>2. PICK pc \in {"metrics", "clear", "load"} : Go(w, pc) /\
        \/ pc = "metrics" /\ decisions[v] # {}
        \/ pc = "clear" /\ decisions[v] = {}
        \/ pc = "load" /\ metrics[v] # {} /\ worker[w].pc = "metrics"
  BY DEF SkipDecide, Decide, SkipMetrics, At
<1>3. pc \in Pcs /\ pc \in VariantPcs \ {"result", "upsert", "check", "insert"}
  BY DEF Pcs, VariantPcs
<1>4. /\ worker \in [Workers -> Processes] /\ v \in Variants /\ v = Here(worker[w]) /\ v \in rows
      /\ worker[w].plan \in {Plan(Symbols), Plan(RetrySymbols)}
      /\ worker[w].n \in 1 .. Len(worker[w].plan) /\ (worker[w].timed => v \in started)
  BY <1>1, AtVariant
<1>5. PICK k \in Processes :
        /\ worker' = [worker EXCEPT ![w] = k] /\ k.pc = pc /\ k.plan = worker[w].plan
        /\ k.n = worker[w].n /\ k.timed = worker[w].timed /\ Here(k) = v
  BY <1>2, <1>3, <1>4, GoIs
<1>6. Aside /\ UNCHANGED data
  BY DEF SkipDecide, Decide, SkipMetrics
<1>7. Busy(k, rows, started)
  BY <1>3, <1>4, <1>5 DEF Busy
<1>8. ASSUME v \in Undisturbed
      PROVE  Reached(k, decisions[v], metrics[v], summary[v], v \in summarized, results[v])
  <2>1. /\ Sound(v) /\ decisions[v] \in {{}, Batches}
        /\ Reached(worker[w], decisions[v], metrics[v], summary[v], v \in summarized, results[v])
    BY <1>1, <1>8, AtUndisturbed
  <2>. QED
    BY <1>2, <1>5, <2>1 DEF Reached, Sound
<1> HIDE DEF v
<1>9. worker[w].pc \in VariantPcs /\ v = Current(w)
  BY <1>1 DEF v
<1>. QED
  BY <1>3, <1>4, <1>5, <1>6, <1>7, <1>8, <1>9, ProcessMoves

LEMMA AlreadyComputedKeeps ==
  ASSUME Inv, Disturbing, NEW w \in Workers, AlreadyComputed(w)
  PROVE  Inv'
<1> DEFINE v == Current(w)
           k == [worker[w] EXCEPT !.pc = "load", !.timed = FALSE]
<1>1. worker[w].pc = "check" /\ worker[w].pc \in VariantPcs /\ worker[w].pc # "upsert"
  BY DEF AlreadyComputed, At, VariantPcs, Pcs
<1>2. /\ worker[w] \in Processes /\ v \in Variants /\ v = Here(worker[w]) /\ v \in rows
      /\ worker[w].plan \in {Plan(Symbols), Plan(RetrySymbols)}
      /\ worker[w].n \in 1 .. Len(worker[w].plan)
  BY <1>1, AtVariant
<1>3. /\ k \in Processes /\ k.pc = "load" /\ k.plan = worker[w].plan
      /\ k.n = worker[w].n /\ k.timed = FALSE
  BY <1>2 DEF Processes, Pcs
<1>4. worker' = [worker EXCEPT ![w] = k] /\ Aside /\ UNCHANGED data /\ v \in summarized
  <2>1. worker \in [Workers -> Processes]
    BY <1>1, AtVariant
  <2>. QED
    BY <2>1 DEF AlreadyComputed, Processes
<1> HIDE DEF k
<1>5. Here(k) = v
  BY <1>2, <1>3 DEF Here
<1>6. Busy(k, rows, started)
  BY <1>2, <1>3, <1>5 DEF Busy
<1>7. ASSUME v \in Undisturbed
      PROVE  Reached(k, decisions[v], metrics[v], summary[v], v \in summarized, results[v])
  <2>1. Sound(v)
    BY <1>1, <1>7, AtUndisturbed
  <2>. QED
    BY <1>3, <1>4, <2>1 DEF Reached, Sound
<1>8. k.pc \in VariantPcs \ {"result"} /\ v = Current(w)
  BY <1>3 DEF VariantPcs, Pcs
<1> HIDE DEF v
<1>. QED
  BY <1>1, <1>2, <1>3, <1>4, <1>6, <1>7, <1>8, ProcessMoves

\* A process takes the decisions there are as its basis, or what is left of it.
LEMMA BasisKeeps ==
  ASSUME Inv, Disturbing, NEW w \in Workers,
         ComputeMetrics(w) \/ CountDecisions(w) \/ HashDecisions(w)
  PROVE  Inv'
<1> DEFINE v == Current(w)
<1>1. worker[w].pc \in VariantPcs \ {"upsert", "check", "insert"}
  BY DEF ComputeMetrics, CountDecisions, HashDecisions, At, VariantPcs, Pcs
<1>2. /\ worker[w] \in Processes /\ v \in Variants /\ v = Here(worker[w]) /\ v \in rows
      /\ worker[w].plan \in {Plan(Symbols), Plan(RetrySymbols)}
      /\ worker[w].n \in 1 .. Len(worker[w].plan) /\ (worker[w].timed => v \in started)
      /\ worker \in [Workers -> Processes] /\ DataOK
  BY <1>1, AtVariant
<1>3. decisions[v] \in SUBSET Batches /\ worker[w].basis \in SUBSET Batches
  BY <1>2 DEF DataOK, Processes
<1>4. PICK pc \in {"insertMetrics", "hash", "summary"}, B \in SUBSET Batches :
        /\ worker' = [worker EXCEPT ![w] = [worker[w] EXCEPT !.pc = pc, !.basis = B]]
        /\ \/ pc = "insertMetrics" /\ worker[w].pc = "metrics" /\ B = decisions[v]
           \/ pc = "hash" /\ worker[w].pc = "load" /\ B = decisions[v]
           \/ pc = "summary" /\ worker[w].pc = "hash" /\ B = worker[w].basis \cap decisions[v]
  <2>1. CASE ComputeMetrics(w)
    BY <1>2, <1>3, <2>1 DEF ComputeMetrics, At, Processes
  <2>2. CASE CountDecisions(w)
    BY <1>2, <1>3, <2>2 DEF CountDecisions, At, Processes
  <2>3. CASE HashDecisions(w)
    <3>1. worker[w].basis \cap decisions[v] \in SUBSET Batches
      BY <1>3
    <3>. QED
      BY <1>2, <2>3, <3>1 DEF HashDecisions, At, Processes
  <2>. QED
    BY <2>1, <2>2, <2>3
<1> DEFINE k == [worker[w] EXCEPT !.pc = pc, !.basis = B]
<1>5. /\ k \in Processes /\ k.pc = pc /\ k.plan = worker[w].plan
      /\ k.n = worker[w].n /\ k.timed = worker[w].timed /\ k.basis = B
  <2>1. pc \in Pcs
    BY DEF Pcs
  <2>. QED
    BY <1>2, <2>1 DEF Processes
<1>6. worker' = [worker EXCEPT ![w] = k] /\ Aside /\ UNCHANGED data
  BY <1>4 DEF ComputeMetrics, CountDecisions, HashDecisions
<1> HIDE DEF k
<1>7. Here(k) = v
  BY <1>2, <1>5 DEF Here
<1>8. Busy(k, rows, started)
  BY <1>2, <1>5, <1>7 DEF Busy
<1>9. ASSUME v \in Undisturbed
      PROVE  Reached(k, decisions[v], metrics[v], summary[v], v \in summarized, results[v])
  <2>1. Reached(worker[w], decisions[v], metrics[v], summary[v], v \in summarized, results[v])
    BY <1>1, <1>9, AtUndisturbed
  <2>2. decisions[v] = Batches /\ B = Batches
    BY <1>4, <2>1 DEF Reached
  <2>. QED
    BY <1>4, <1>5, <2>1, <2>2 DEF Reached
<1>10. k.pc \in VariantPcs \ {"result"} /\ v = Current(w) /\ worker[w].pc \in VariantPcs
  BY <1>1, <1>5 DEF VariantPcs, Pcs
<1> HIDE DEF v
<1>. QED
  BY <1>2, <1>5, <1>6, <1>8, <1>9, <1>10, ProcessMoves

LEMMA UpsertVariantKeeps ==
  ASSUME Inv, Disturbing, NEW w \in Workers, UpsertVariant(w)
  PROVE  Inv'
<1>1. worker[w].pc = "upsert" /\ worker[w].pc \in VariantPcs
  BY DEF UpsertVariant, At, VariantPcs, Pcs
<1>2. PICK v \in Variants : v = Current(w)
  BY <1>1, AtVariant
<1>at. /\ worker \in [Workers -> Processes] /\ v = Here(worker[w])
      /\ worker[w].plan \in {Plan(Symbols), Plan(RetrySymbols)}
      /\ worker[w].n \in 1 .. Len(worker[w].plan) /\ DataOK
  BY <1>1, <1>2, AtVariant
<1>3. PICK k \in Processes :
        /\ worker' = [worker EXCEPT ![w] = k] /\ k.pc = "check" /\ k.plan = worker[w].plan
        /\ k.n = worker[w].n /\ Here(k) = v
  <2>1. "check" \in Pcs
    BY DEF Pcs
  <2>. QED
    BY <1>2, <1>at, <2>1, GoIs DEF UpsertVariant
<1>4. /\ Aside /\ rows' = rows \cup {v} /\ started' = started /\ completed' = completed
      /\ decisions' = decisions /\ metrics' = metrics
      /\ summarized' = summarized /\ summary' = summary /\ results' = results
  BY <1>2 DEF UpsertVariant
<1>5. DataOK'
  BY <1>2, <1>at, <1>4 DEF DataOK
<1>6. Busy(k, rows', started')
  BY <1>2, <1>at, <1>3, <1>4 DEF Busy
<1>7. ASSUME v \in Undisturbed'
      PROVE  Sound(v)' /\ Reached(k, decisions'[v], metrics'[v], summary'[v], v \in summarized', results'[v])
  <2>1. v \in Undisturbed
    BY <1>7, QuietKeeps DEF Inv, TypeOK
  <2>2. Sound(v)
    BY <2>1 DEF Inv
  <2>. QED
    BY <1>3, <1>4, <2>2 DEF Sound, Reached
<1>8. \A u \in Variants \ {v} : Untouched(u)
  BY <1>2, StepTouches DEF VariantStep
<1>9. k.pc \in VariantPcs /\ k.pc # "idle" /\ k.pc # "result"
  BY <1>3 DEF VariantPcs, Pcs
<1>10. rows \subseteq rows' /\ started \subseteq started'
  BY <1>4
<1>11. v \in Undisturbed' => Sound(v)'
  BY <1>7
<1>. QED
  BY <1>1, <1>2, <1>at, <1>3, <1>4, <1>5, <1>6, <1>7, <1>8, <1>9, <1>10, <1>11, VariantMoves

LEMMA StartVariantKeeps ==
  ASSUME Inv, Disturbing, NEW w \in Workers, StartVariant(w)
  PROVE  Inv'
<1> DEFINE k == [worker[w] EXCEPT !.pc = "decide", !.timed = TRUE]
<1>1. worker[w].pc = "check" /\ worker[w].pc \in VariantPcs /\ worker[w].pc # "upsert"
  BY DEF StartVariant, At, VariantPcs, Pcs
<1>2. PICK v \in Variants : v = Current(w)
  BY <1>1, AtVariant
<1>at. /\ worker \in [Workers -> Processes] /\ worker[w] \in Processes /\ v = Here(worker[w]) /\ v \in rows
      /\ worker[w].plan \in {Plan(Symbols), Plan(RetrySymbols)}
      /\ worker[w].n \in 1 .. Len(worker[w].plan) /\ DataOK
  BY <1>1, <1>2, AtVariant
<1>3. /\ k \in Processes /\ k.pc = "decide" /\ k.plan = worker[w].plan
      /\ k.n = worker[w].n /\ k.timed = TRUE
  BY <1>2, <1>at DEF Processes, Pcs
<1>4. worker' = [worker EXCEPT ![w] = k]
  BY <1>2, <1>at DEF StartVariant, Processes
<1>5. /\ Aside /\ rows' = rows /\ started' = started \cup {v} /\ completed' = completed \ {v}
      /\ decisions' = decisions /\ metrics' = metrics
      /\ summarized' = summarized /\ summary' = summary /\ results' = results
  BY <1>2 DEF StartVariant
<1> HIDE DEF k
<1>6. Here(k) = v
  BY <1>2, <1>at, <1>3 DEF Here
<1>7. Busy(k, rows', started')
  BY <1>2, <1>at, <1>3, <1>5, <1>6 DEF Busy
<1>8. DataOK'
  <2>1. completed' \subseteq started'
    BY <1>2, <1>at, <1>5 DEF DataOK
  <2>. QED
    BY <1>2, <1>at, <1>5, <2>1 DEF DataOK
<1>9. ASSUME v \in Undisturbed'
      PROVE  Sound(v)' /\ Reached(k, decisions'[v], metrics'[v], summary'[v], v \in summarized', results'[v])
  <2>1. v \in Undisturbed
    BY <1>9, QuietKeeps DEF Inv, TypeOK
  <2>2. Sound(v)
    BY <2>1 DEF Inv
  <2>. QED
    BY <1>3, <1>5, <2>2 DEF Sound, Reached
<1>10. \A u \in Variants \ {v} : Untouched(u)
  BY <1>2, StepTouches DEF VariantStep
<1>11. k.pc \in VariantPcs /\ k.pc # "idle" /\ k.pc # "result"
  BY <1>3 DEF VariantPcs, Pcs
<1>12. rows \subseteq rows' /\ started \subseteq started' /\ (v \in Undisturbed' => Sound(v)')
  BY <1>5, <1>9
<1>. QED
  BY <1>1, <1>2, <1>at, <1>3, <1>4, <1>5, <1>7, <1>8, <1>9, <1>10, <1>11, <1>12, VariantMoves

\* A step on the decisions of a variant.
LEMMA DecisionsMove ==
  ASSUME Inv, Disturbing, NEW w \in Workers, NEW v \in Variants, v = Current(w),
         NEW k \in Processes, NEW D \in SUBSET Batches,
         worker[w].pc \in VariantPcs \ {"upsert", "check"}, VariantStep(w),
         worker' = [worker EXCEPT ![w] = k], Aside, decisions' = [decisions EXCEPT ![v] = D],
         UNCHANGED <<rows, started, completed, metrics, summarized, summary, results>>,
         k.plan = worker[w].plan, k.n = worker[w].n, k.timed = worker[w].timed,
         k.pc \in {"insert", "metrics"}, k.pc = "insert" => k.batch \in Batches,
         v \in Undisturbed =>
           /\ metrics[v] = {} /\ v \notin summarized
           /\ D = IF k.pc = "insert" THEN 1 .. k.batch - 1 ELSE Batches
  PROVE  Inv'
<1>1. /\ worker \in [Workers -> Processes] /\ v = Here(worker[w]) /\ v \in rows
      /\ worker[w].plan \in {Plan(Symbols), Plan(RetrySymbols)}
      /\ worker[w].n \in 1 .. Len(worker[w].plan) /\ (worker[w].timed => v \in started) /\ DataOK
  BY AtVariant
<1>2. Here(k) = v
  BY <1>1 DEF Here
<1>3. Busy(k, rows', started')
  BY <1>1, <1>2 DEF Busy
<1>4. DataOK'
  BY <1>1 DEF DataOK
<1>5. decisions'[v] = D /\ metrics'[v] = metrics[v] /\ summarized' = summarized
      /\ completed' = completed /\ summary' = summary /\ results' = results
  BY <1>1 DEF DataOK
<1>6. ASSUME v \in Undisturbed'
      PROVE  Sound(v)' /\ Reached(k, decisions'[v], metrics'[v], summary'[v], v \in summarized', results'[v])
  <2>1. v \in Undisturbed
    BY <1>6, QuietKeeps DEF Inv, TypeOK
  <2>2. Sound(v)
    BY <2>1 DEF Inv
  <2>3. Sound(v)'
    BY <1>5, <2>1, <2>2 DEF Sound
  <2>. QED
    BY <1>5, <2>1, <2>3 DEF Reached
<1>7. \A u \in Variants \ {v} : Untouched(u)
  BY StepTouches
<1>8. k.pc \in VariantPcs /\ k.pc # "idle" /\ k.pc # "result" /\ worker[w].pc \in VariantPcs
      /\ rows \subseteq rows' /\ started \subseteq started'
  BY DEF VariantPcs, Pcs
<1>9. v \in Undisturbed' => Sound(v)'
  BY <1>6
<1>. QED
  BY <1>3, <1>4, <1>5, <1>6, <1>7, <1>8, <1>9, VariantMoves

LEMMA ClearDecisionsKeeps ==
  ASSUME Inv, Disturbing, NEW w \in Workers, ClearDecisions(w)
  PROVE  Inv'
<1> DEFINE v == Current(w)
           k == [worker[w] EXCEPT !.pc = "insert", !.batch = 1]
<1>1. worker[w].pc = "clear" /\ worker[w].pc \in VariantPcs \ {"upsert", "check"}
  BY DEF ClearDecisions, At, VariantPcs, Pcs
<1>2. /\ worker \in [Workers -> Processes] /\ worker[w] \in Processes /\ v \in Variants
  BY <1>1, AtVariant
<1>3. /\ k \in Processes /\ k.pc = "insert" /\ k.batch = 1 /\ k.plan = worker[w].plan
      /\ k.n = worker[w].n /\ k.timed = worker[w].timed
  BY <1>2 DEF Processes, Pcs
<1>4. /\ worker' = [worker EXCEPT ![w] = k] /\ Aside /\ decisions' = [decisions EXCEPT ![v] = {}]
      /\ UNCHANGED <<rows, started, completed, metrics, summarized, summary, results>>
  BY <1>2 DEF ClearDecisions, Processes
<1>5. ASSUME v \in Undisturbed
      PROVE  metrics[v] = {} /\ v \notin summarized /\ {} = 1 .. k.batch - 1
  <2>1. Sound(v) /\ decisions[v] = {}
    BY <1>1, <1>5, AtUndisturbed DEF Reached
  <2>2. 1 .. k.batch - 1 = {}
    BY <1>3
  <2>. QED
    BY <2>1, <2>2, BatchesAre DEF Sound
<1>6. VariantStep(w) /\ v = Current(w)
  BY DEF VariantStep
<1> HIDE DEF k, v
<1>. QED
  BY <1>1, <1>2, <1>3, <1>4, <1>5, <1>6, BatchesAre, DecisionsMove

LEMMA InsertBatchKeeps ==
  ASSUME Inv, Disturbing, NEW w \in Workers, InsertBatch(w)
  PROVE  Inv'
<1> DEFINE v == Current(w)
           b == worker[w].batch
           k == [worker[w] EXCEPT !.pc = IF b = NumBatches THEN "metrics" ELSE "insert",
                                  !.batch = IF b = NumBatches THEN 1 ELSE b + 1]
           D == decisions[v] \cup {b}
<1>1. worker[w].pc = "insert" /\ worker[w].pc \in VariantPcs \ {"upsert", "check"}
      /\ b \notin decisions[v]
  BY DEF InsertBatch, At, VariantPcs, Pcs
<1>2. /\ worker \in [Workers -> Processes] /\ worker[w] \in Processes /\ v \in Variants
      /\ b \in Batches /\ DataOK
  BY <1>1, AtVariant
<1>3. b \in Nat /\ 1 <= b /\ b <= NumBatches /\ NumBatches \in Nat
  BY <1>2, SizeAssumption DEF Batches
<1>next. (IF b = NumBatches THEN "metrics" ELSE "insert") \in Pcs
      /\ (IF b = NumBatches THEN 1 ELSE b + 1) \in Nat
  BY <1>3 DEF Pcs
<1>4. /\ k \in Processes /\ k.plan = worker[w].plan
      /\ k.pc = (IF b = NumBatches THEN "metrics" ELSE "insert")
      /\ k.batch = (IF b = NumBatches THEN 1 ELSE b + 1)
      /\ k.n = worker[w].n /\ k.timed = worker[w].timed
  BY <1>2, <1>next DEF Processes
<1>5. /\ Aside /\ decisions' = [decisions EXCEPT ![v] = D]
      /\ UNCHANGED <<rows, started, completed, metrics, summarized, summary, results>>
  BY <1>2 DEF InsertBatch, DataOK
<1>6. worker' = [worker EXCEPT ![w] = k]
  BY <1>2 DEF InsertBatch, Processes
<1>7. D \in SUBSET Batches
  BY <1>2 DEF DataOK
<1>8. k.pc \in {"insert", "metrics"} /\ (k.pc = "insert" => k.batch \in Batches)
  BY <1>3, <1>4 DEF Batches
<1>9. ASSUME v \in Undisturbed
      PROVE  /\ metrics[v] = {} /\ v \notin summarized
             /\ D = IF k.pc = "insert" THEN 1 .. k.batch - 1 ELSE Batches
  <2>1. Sound(v) /\ decisions[v] = 1 .. b - 1
    BY <1>1, <1>9, AtUndisturbed DEF Reached
  <2>2. decisions[v] # Batches
    BY <1>1, <1>2
  <2>3. D = 1 .. b
    <3>1. (1 .. b - 1) \cup {b} = 1 .. b
      BY <1>3
    <3>. QED
      BY <2>1, <3>1
  <2>4. CASE b = NumBatches
    <3>1. k.pc = "metrics" /\ Batches = 1 .. b
      BY <1>4, <2>4 DEF Batches
    <3>. QED
      BY <2>1, <2>2, <2>3, <3>1 DEF Sound
  <2>5. CASE b # NumBatches
    <3>1. k.pc = "insert" /\ k.batch - 1 = b
      BY <1>3, <1>4, <2>5
    <3>. QED
      BY <2>1, <2>2, <2>3, <3>1 DEF Sound
  <2>. QED
    BY <2>4, <2>5
<1>10. VariantStep(w) /\ v = Current(w)
  BY DEF VariantStep
<1> HIDE DEF k, v, D, b
<1>. QED
  BY <1>1, <1>2, <1>4, <1>5, <1>6, <1>7, <1>8, <1>9, <1>10, DecisionsMove

LEMMA InsertMetricsKeeps ==
  ASSUME Inv, Disturbing, NEW w \in Workers, InsertMetrics(w)
  PROVE  Inv'
<1> DEFINE k == [worker[w] EXCEPT !.pc = "load", !.basis = {}]
<1>1. worker[w].pc = "insertMetrics" /\ worker[w].pc \in VariantPcs /\ worker[w].pc # "upsert"
      /\ worker[w].pc # "check"
  BY DEF InsertMetrics, At, VariantPcs, Pcs
<1>2. PICK v \in Variants : v = Current(w)
  BY <1>1, AtVariant
<1>3. /\ worker \in [Workers -> Processes] /\ worker[w] \in Processes
      /\ v = Here(worker[w]) /\ v \in rows
      /\ worker[w].plan \in {Plan(Symbols), Plan(RetrySymbols)}
      /\ worker[w].n \in 1 .. Len(worker[w].plan)
      /\ (worker[w].timed => v \in started) /\ DataOK
  BY <1>1, <1>2, AtVariant
<1>4. /\ k \in Processes /\ k.pc = "load" /\ k.plan = worker[w].plan
      /\ k.n = worker[w].n /\ k.timed = worker[w].timed
  BY <1>3 DEF Processes, Pcs
<1>5. worker' = [worker EXCEPT ![w] = k]
  BY <1>3 DEF InsertMetrics, Processes
<1>6. /\ Aside /\ rows' = rows /\ started' = started /\ completed' = completed
      /\ decisions' = decisions /\ metrics' = [metrics EXCEPT ![v] = worker[w].basis]
      /\ summarized' = summarized /\ summary' = summary /\ results' = results
  BY <1>2 DEF InsertMetrics
<1> HIDE DEF k
<1>7. Here(k) = v
  BY <1>3, <1>4 DEF Here
<1>8. Busy(k, rows', started')
  BY <1>3, <1>4, <1>6, <1>7 DEF Busy
<1>9. DataOK' /\ metrics'[v] = worker[w].basis
  BY <1>3, <1>6 DEF DataOK, Processes
<1>10. ASSUME v \in Undisturbed'
       PROVE  Sound(v)' /\ Reached(k, decisions'[v], metrics'[v], summary'[v], v \in summarized', results'[v])
  <2>1. v \in Undisturbed
    BY <1>10, QuietKeeps DEF Inv, TypeOK
  <2>2. Sound(v) /\ decisions[v] = Batches /\ worker[w].basis = Batches
    BY <1>1, <1>2, <2>1, AtUndisturbed DEF Reached
  <2>. QED
    BY <1>4, <1>6, <1>9, <2>2 DEF Sound, Reached
<1>11. \A u \in Variants \ {v} : Untouched(u)
  BY <1>2, StepTouches DEF VariantStep
<1>12. k.pc \in VariantPcs /\ k.pc # "idle" /\ k.pc # "result"
       /\ rows \subseteq rows' /\ started \subseteq started' /\ (v \in Undisturbed' => Sound(v)')
  BY <1>4, <1>6, <1>10 DEF VariantPcs, Pcs
<1>. QED
  BY <1>1, <1>2, <1>4, <1>5, <1>6, <1>8, <1>9, <1>10, <1>11, <1>12, VariantMoves

LEMMA UpsertSummaryKeeps ==
  ASSUME Inv, Disturbing, NEW w \in Workers, UpsertSummary(w)
  PROVE  Inv'
<1> DEFINE k == [worker[w] EXCEPT !.pc = "dropResult", !.basis = {}]
<1>1. worker[w].pc = "summary" /\ worker[w].pc \in VariantPcs /\ worker[w].pc # "upsert"
      /\ worker[w].pc # "check"
  BY DEF UpsertSummary, At, VariantPcs, Pcs
<1>2. PICK v \in Variants : v = Current(w)
  BY <1>1, AtVariant
<1>3. /\ worker \in [Workers -> Processes] /\ worker[w] \in Processes
      /\ v = Here(worker[w]) /\ v \in rows
      /\ worker[w].plan \in {Plan(Symbols), Plan(RetrySymbols)}
      /\ worker[w].n \in 1 .. Len(worker[w].plan)
      /\ (worker[w].timed => v \in started) /\ DataOK
  BY <1>1, <1>2, AtVariant
<1>4. /\ k \in Processes /\ k.pc = "dropResult" /\ k.plan = worker[w].plan
      /\ k.n = worker[w].n /\ k.timed = worker[w].timed
  BY <1>3 DEF Processes, Pcs
<1>5. worker' = [worker EXCEPT ![w] = k]
  BY <1>3 DEF UpsertSummary, Processes
<1>6. /\ Aside /\ rows' = rows /\ started' = started /\ completed' = completed
      /\ decisions' = decisions /\ metrics' = metrics
      /\ summarized' = summarized \cup {v} /\ summary' = [summary EXCEPT ![v] = worker[w].basis]
      /\ results' = results
  BY <1>2 DEF UpsertSummary
<1> HIDE DEF k
<1>7. Here(k) = v
  BY <1>3, <1>4 DEF Here
<1>8. Busy(k, rows', started')
  BY <1>3, <1>4, <1>6, <1>7 DEF Busy
<1>9. DataOK' /\ summary'[v] = worker[w].basis
  BY <1>3, <1>6 DEF DataOK, Processes
<1>10. ASSUME v \in Undisturbed'
       PROVE  Sound(v)' /\ Reached(k, decisions'[v], metrics'[v], summary'[v], v \in summarized', results'[v])
  <2>1. v \in Undisturbed
    BY <1>10, QuietKeeps DEF Inv, TypeOK
  <2>2. /\ Sound(v) /\ decisions[v] = Batches /\ metrics[v] = Batches
        /\ worker[w].basis = Batches
    BY <1>1, <1>2, <2>1, AtUndisturbed DEF Reached
  <2>. QED
    BY <1>4, <1>6, <1>9, <2>2 DEF Sound, Reached
<1>11. \A u \in Variants \ {v} : Untouched(u)
  BY <1>2, StepTouches DEF VariantStep
<1>12. k.pc \in VariantPcs /\ k.pc # "idle" /\ k.pc # "result"
       /\ rows \subseteq rows' /\ started \subseteq started' /\ (v \in Undisturbed' => Sound(v)')
  BY <1>4, <1>6, <1>10 DEF VariantPcs, Pcs
<1>. QED
  BY <1>1, <1>2, <1>4, <1>5, <1>6, <1>8, <1>9, <1>10, <1>11, <1>12, VariantMoves

LEMMA DropResultKeeps ==
  ASSUME Inv, Disturbing, NEW w \in Workers, DropResult(w)
  PROVE  Inv'
<1>1. worker[w].pc = "dropResult" /\ worker[w].pc \in VariantPcs /\ worker[w].pc # "upsert"
      /\ worker[w].pc # "check"
  BY DEF DropResult, At, VariantPcs, Pcs
<1>2. PICK v \in Variants : v = Current(w)
  BY <1>1, AtVariant
<1>3. /\ worker \in [Workers -> Processes] /\ worker[w] \in Processes
      /\ v = Here(worker[w]) /\ v \in rows
      /\ worker[w].plan \in {Plan(Symbols), Plan(RetrySymbols)}
      /\ worker[w].n \in 1 .. Len(worker[w].plan)
      /\ (worker[w].timed => v \in started) /\ DataOK
  BY <1>1, <1>2, AtVariant
<1>4. PICK k \in Processes :
        /\ worker' = [worker EXCEPT ![w] = k] /\ k.pc = "result" /\ k.plan = worker[w].plan
        /\ k.n = worker[w].n /\ k.timed = worker[w].timed /\ Here(k) = v
  <2>1. "result" \in Pcs
    BY DEF Pcs
  <2>. QED
    BY <1>3, <2>1, GoIs DEF DropResult
<1>5. /\ Aside /\ rows' = rows /\ started' = started /\ completed' = completed
      /\ decisions' = decisions /\ metrics' = metrics
      /\ summarized' = summarized /\ summary' = summary
      /\ results' = [results EXCEPT ![v] = 0]
  BY <1>2 DEF DropResult
<1>6. Busy(k, rows', started')
  BY <1>3, <1>4, <1>5 DEF Busy
<1>7. DataOK' /\ results'[v] = 0
  BY <1>3, <1>5 DEF DataOK
<1>8. ASSUME v \in Undisturbed'
      PROVE  Sound(v)' /\ Reached(k, decisions'[v], metrics'[v], summary'[v], v \in summarized', results'[v])
  <2>1. v \in Undisturbed
    BY <1>8, QuietKeeps DEF Inv, TypeOK
  <2>2. /\ Sound(v) /\ decisions[v] = Batches /\ metrics[v] = Batches
        /\ summary[v] = Batches /\ v \in summarized
    BY <1>1, <1>2, <2>1, AtUndisturbed DEF Reached
  <2>. QED
    BY <1>4, <1>5, <1>7, <2>2 DEF Sound, Reached
<1>9. \A u \in Variants \ {v} : Untouched(u)
  BY <1>2, StepTouches DEF VariantStep
<1>10. k.pc \in VariantPcs /\ k.pc # "idle"
       /\ rows \subseteq rows' /\ started \subseteq started' /\ (v \in Undisturbed' => Sound(v)')
  BY <1>4, <1>5, <1>8 DEF VariantPcs, Pcs
<1>. QED
  BY <1>1, <1>2, <1>4, <1>5, <1>6, <1>7, <1>8, <1>9, <1>10, VariantMoves

\* The process that goes on to the next variant, or to finalize.
LEMMA NextVariantIs ==
  ASSUME Inv, NEW w \in Workers, worker[w].pc \in VariantPcs, NextVariant(w)
  PROVE  \E k \in Processes :
           /\ worker' = [worker EXCEPT ![w] = k] /\ k.plan = worker[w].plan
           /\ Busy(k, rows', started')
           /\ \/ k.pc = "upsert" /\ k.n = worker[w].n + 1
              \/ k.pc = "finalize" /\ k.n = worker[w].n /\ k.n = Len(k.plan)
<1>1. /\ worker \in [Workers -> Processes] /\ worker[w] \in Processes
      /\ worker[w].plan \in {Plan(Symbols), Plan(RetrySymbols)}
      /\ worker[w].n \in 1 .. Len(worker[w].plan) /\ Len(worker[w].plan) \in Nat
  BY AtVariant
<1>2. CASE worker[w].n < Len(worker[w].plan)
  <2> DEFINE k == [worker[w] EXCEPT !.pc = "upsert", !.n = worker[w].n + 1]
  <2>1. /\ k \in Processes /\ k.pc = "upsert" /\ k.n = worker[w].n + 1 /\ k.plan = worker[w].plan
    <3>1. worker[w].n + 1 \in Nat
      BY <1>1
    <3>. QED
      BY <1>1, <3>1 DEF Processes, Pcs
  <2>2. worker' = [worker EXCEPT ![w] = k]
    BY <1>1, <1>2 DEF NextVariant, Processes
  <2> HIDE DEF k
  <2>3. Busy(k, rows', started')
    BY <1>1, <1>2, <2>1 DEF Busy
  <2>. QED
    BY <2>1, <2>2, <2>3
<1>3. CASE ~(worker[w].n < Len(worker[w].plan))
  <2>1. Go(w, "finalize") /\ "finalize" \in Pcs
    BY <1>3 DEF NextVariant, Pcs
  <2>2. PICK k \in Processes :
          /\ worker' = [worker EXCEPT ![w] = k] /\ k.pc = "finalize"
          /\ k.plan = worker[w].plan /\ k.n = worker[w].n
    BY <1>1, <2>1, GoIs
  <2>3. k.n = Len(k.plan)
    BY <1>1, <1>3, <2>2
  <2>4. Busy(k, rows', started')
    BY <1>1, <2>2 DEF Busy, VariantPcs
  <2>. QED
    BY <2>2, <2>3, <2>4
<1>. QED
  BY <1>2, <1>3

LEMMA CreateResultKeeps ==
  ASSUME Inv, Disturbing, NEW w \in Workers, CreateResult(w)
  PROVE  Inv'
<1>1. worker[w].pc = "result" /\ worker[w].pc \in VariantPcs /\ worker[w].pc # "upsert"
      /\ worker[w].pc # "check"
  BY DEF CreateResult, At, VariantPcs, Pcs
<1>2. PICK v \in Variants : v = Current(w)
  BY <1>1, AtVariant
<1>3. /\ worker \in [Workers -> Processes] /\ worker[w] \in Processes
      /\ v = Here(worker[w]) /\ v \in rows
      /\ worker[w].plan \in {Plan(Symbols), Plan(RetrySymbols)}
      /\ worker[w].n \in 1 .. Len(worker[w].plan)
      /\ (worker[w].timed => v \in started) /\ DataOK
  BY <1>1, <1>2, AtVariant
<1>4. /\ Aside /\ rows' = rows /\ started' = started /\ completed' = completed
      /\ decisions' = decisions /\ metrics' = metrics
      /\ summarized' = summarized /\ summary' = summary
      /\ results' = [results EXCEPT ![v] = @ + 1]
  BY <1>2 DEF CreateResult
<1>5. DataOK' /\ results'[v] = results[v] + 1
  BY <1>3, <1>4 DEF DataOK
<1>6. ASSUME v \in Undisturbed'
      PROVE  /\ Sound(v)' /\ decisions[v] = Batches /\ metrics[v] = Batches
             /\ summary[v] = Batches /\ v \in summarized /\ results[v] = 0
  <2>1. v \in Undisturbed
    BY <1>6, QuietKeeps DEF Inv, TypeOK
  <2>2. /\ Sound(v) /\ decisions[v] = Batches /\ metrics[v] = Batches
        /\ summary[v] = Batches /\ v \in summarized /\ results[v] = 0
    BY <1>1, <1>2, <2>1, AtUndisturbed DEF Reached
  <2>3. Sound(v)'
    BY <1>4, <2>2 DEF Sound
  <2>. QED
    BY <2>2, <2>3
<1>7. \A u \in Variants \ {v} : Untouched(u)
  BY <1>2, StepTouches DEF VariantStep
<1>8. rows \subseteq rows' /\ started \subseteq started' /\ (v \in Undisturbed' => Sound(v)')
  BY <1>4, <1>6
<1>9. CASE worker[w].timed
  <2>1. PICK k \in Processes :
          /\ worker' = [worker EXCEPT ![w] = k] /\ k.pc = "stamp" /\ k.plan = worker[w].plan
          /\ k.n = worker[w].n /\ k.timed = worker[w].timed /\ Here(k) = v
    <3>1. "stamp" \in Pcs /\ Go(w, "stamp")
      BY <1>9 DEF Pcs, CreateResult
    <3>. QED
      BY <1>3, <3>1, GoIs
  <2>2. Busy(k, rows', started')
    BY <1>3, <1>4, <1>9, <2>1 DEF Busy
  <2>3. v \in Undisturbed' =>
          Reached(k, decisions'[v], metrics'[v], summary'[v], v \in summarized', results'[v])
    BY <1>4, <1>5, <1>6, <2>1 DEF Reached
  <2>4. k.pc \in VariantPcs /\ k.pc # "idle" /\ k.pc # "result"
    BY <2>1 DEF VariantPcs, Pcs
  <2>. QED
    BY <1>1, <1>2, <1>4, <1>5, <1>7, <1>8, <2>1, <2>2, <2>3, <2>4, VariantMoves
<1>10. CASE ~worker[w].timed
  <2>1. NextVariant(w)
    BY <1>10 DEF CreateResult
  <2>2. PICK k \in Processes :
          /\ worker' = [worker EXCEPT ![w] = k] /\ k.plan = worker[w].plan
          /\ Busy(k, rows', started')
          /\ \/ k.pc = "upsert" /\ k.n = worker[w].n + 1
             \/ k.pc = "finalize" /\ k.n = worker[w].n /\ k.n = Len(k.plan)
    BY <1>1, <2>1, NextVariantIs
  <2>3. v \in Undisturbed' => CompleteVariant(v)'
    BY <1>3, <1>4, <1>5, <1>6 DEF CompleteVariant
  <2>4. k.pc # "idle" /\ k.pc # "result"
    BY <2>2
  <2>. QED
    BY <1>1, <1>2, <1>4, <1>5, <1>7, <1>8, <2>2, <2>3, <2>4, VariantMoves
<1>. QED
  BY <1>9, <1>10

LEMMA StampVariantKeeps ==
  ASSUME Inv, Disturbing, NEW w \in Workers, StampVariant(w)
  PROVE  Inv'
<1>1. worker[w].pc = "stamp" /\ worker[w].pc \in VariantPcs /\ worker[w].pc # "upsert"
      /\ worker[w].pc # "check"
  BY DEF StampVariant, At, VariantPcs, Pcs
<1>2. PICK v \in Variants : v = Current(w)
  BY <1>1, AtVariant
<1>3. v \in rows /\ v \in started /\ DataOK
  BY <1>1, <1>2, AtVariant
<1>4. /\ Aside /\ rows' = rows /\ started' = started /\ completed' = completed \cup {v}
      /\ decisions' = decisions /\ metrics' = metrics
      /\ summarized' = summarized /\ summary' = summary /\ results' = results
  BY <1>2 DEF StampVariant
<1>5. DataOK'
  BY <1>3, <1>4 DEF DataOK
<1>6. ASSUME v \in Undisturbed'
      PROVE  Sound(v)' /\ CompleteVariant(v)'
  <2>1. v \in Undisturbed
    BY <1>6, QuietKeeps DEF Inv, TypeOK
  <2>2. /\ Sound(v) /\ decisions[v] = Batches /\ metrics[v] = Batches
        /\ summary[v] = Batches /\ v \in summarized /\ results[v] = 1
    BY <1>1, <1>2, <2>1, AtUndisturbed DEF Reached
  <2>. QED
    BY <1>3, <1>4, <2>2 DEF Sound, CompleteVariant
<1>7. \A u \in Variants \ {v} : Untouched(u)
  BY <1>2, StepTouches DEF VariantStep
<1>8. rows \subseteq rows' /\ started \subseteq started' /\ (v \in Undisturbed' => Sound(v)')
      /\ (v \in Undisturbed' => CompleteVariant(v)')
  BY <1>4, <1>6
<1>9. PICK k \in Processes :
        /\ worker' = [worker EXCEPT ![w] = k] /\ k.plan = worker[w].plan
        /\ Busy(k, rows', started')
        /\ \/ k.pc = "upsert" /\ k.n = worker[w].n + 1
           \/ k.pc = "finalize" /\ k.n = worker[w].n /\ k.n = Len(k.plan)
  BY <1>1, NextVariantIs DEF StampVariant
<1>10. k.pc # "idle" /\ k.pc # "result"
  BY <1>9
<1>. QED
  BY <1>1, <1>2, <1>4, <1>5, <1>7, <1>8, <1>9, <1>10, VariantMoves

-----------------------------------------------------------------------------
LEMMA InitInv == Init => Inv
<1> SUFFICES ASSUME Init PROVE Inv
  OBVIOUS
<1> USE DEF Init
<1>1. Cardinality(Workers) \in Nat
  BY FS_CardinalityType, WorkerAssumption
<1>2. \A w \in Workers : worker[w] = Idle /\ worker[w].pc = "idle"
  BY IdleIsProcess
<1>3. TypeOK
  <2>1. Idle \in Processes
    BY IdleIsProcess
  <2>2. <<Symbols>> \in Seq({Symbols, RetrySymbols})
    OBVIOUS
  <2>3. amended \in BOOLEAN
    BY Zenon
  <2>. QED
    BY <1>1, <2>1, <2>2, <2>3, BoundAssumption DEF TypeOK, Statuses
<1>4. ResultsBounded
  <2> SUFFICES ASSUME NEW v \in Variants
               PROVE  results[v] + Cardinality(Creating(v)) <= Cardinality(Workers)
    BY DEF ResultsBounded
  <2>1. Creating(v) \in SUBSET Workers
    BY DEF Creating
  <2>2. Cardinality(Creating(v)) \in Nat /\ Cardinality(Creating(v)) <= Cardinality(Workers)
    BY <2>1, SubsetCounts
  <2>3. results[v] = 0
    OBVIOUS
  <2>. QED
    BY <1>1, <2>2, <2>3
<1>5. Quiet
  <2>1. \A v \in Variants : decisions[v] = {}
    OBVIOUS
  <2>2. \A v \in Variants : ~HalfDecided(v)
    BY <2>1 DEF HalfDecided
  <2>3. \A v \in Variants : Visitors(v) = {}
    BY <1>2 DEF Visitors, At
  <2>. QED
    BY <2>2, <2>3 DEF Quiet, Undisturbed
<1>6. \A v \in Undisturbed : Sound(v)
  BY DEF Sound, Undisturbed
<1>7. \A w \in Workers : Busy(worker[w], rows, started) /\ Placed(w) /\ Passed(worker[w], Settled)
  BY <1>2 DEF Busy, Placed, Passed, VariantPcs
<1>. QED
  BY <1>3, <1>4, <1>5, <1>6, <1>7 DEF Inv

LEMMA StutterInv ==
  ASSUME Inv, UNCHANGED vars
  PROVE  Inv'
<1>1. /\ status' = status /\ jobs' = jobs /\ rows' = rows /\ started' = started
      /\ completed' = completed /\ decisions' = decisions /\ metrics' = metrics
      /\ summarized' = summarized /\ summary' = summary /\ results' = results
      /\ worker' = worker /\ failures' = failures /\ restarts' = restarts
      /\ requests' = requests /\ amended' = amended /\ disturbed' = disturbed
  BY DEF vars, data, bounds
<1>2. TypeOK'
  BY <1>1 DEF Inv, TypeOK
<1>3. ResultsBounded'
  BY <1>1 DEF Inv, ResultsBounded, Creating, At, Current
<1>4. Quiet'
  <2>1. Quiet
    BY DEF Inv
  <2>2. Finalized' <=> Finalized
    BY <1>1, Zenon DEF Finalized
  <2>3. \A w \in Workers : At(w, "insert")' <=> At(w, "insert")
    BY <1>1 DEF At
  <2>4. ASSUME NEW v PROVE Visitors(v)' = Visitors(v)
    BY <1>1 DEF Visitors, At, Current
  <2>5. Crowded' <=> Crowded
    BY <1>1 DEF Crowded, At
  <2>6. ASSUME NEW v PROVE HalfDecided(v)' <=> HalfDecided(v)
    <3>1. \A w \in Visitors(v) : w \in Workers
      BY DEF Visitors
    <3>2. (\A w \in Visitors(v)' : ~At(w, "insert")') <=> (\A w \in Visitors(v) : ~At(w, "insert"))
      BY <2>3, <2>4, <3>1
    <3>. QED
      BY <1>1, <3>2 DEF HalfDecided
  <2>7. Undisturbed' = Undisturbed
    BY <1>1 DEF Undisturbed
  <2>. QED
    BY <2>1, <2>2, <2>4, <2>5, <2>6, <2>7, Zenon DEF Quiet
<1>5. \A v \in Undisturbed' : Sound(v)'
  BY <1>1 DEF Inv, Undisturbed, Sound
<1>6. ASSUME NEW w \in Workers
      PROVE  Busy(worker[w], rows, started)' /\ Placed(w)' /\ Passed(worker[w], Settled)'
  <2>1. Busy(worker[w], rows, started) /\ Placed(w) /\ Passed(worker[w], Settled)
    BY DEF Inv
  <2>2. Settled' = Settled
    BY <1>1 DEF Settled, CompleteVariant
  <2>3. Placed(w)'
    BY <1>1, <2>1 DEF Placed, Reached, Current
  <2>. QED
    BY <1>1, <2>1, <2>2, <2>3
<1>. QED
  BY <1>2, <1>3, <1>4, <1>5, <1>6 DEF Inv

LEMMA VariantStepKeeps ==
  ASSUME Inv, Disturbing, NEW w \in Workers, VariantStep(w)
  PROVE  Inv'
BY UpsertVariantKeeps, AlreadyComputedKeeps, StartVariantKeeps, DecideKeeps,
   ClearDecisionsKeeps, InsertBatchKeeps, BasisKeeps, InsertMetricsKeeps,
   UpsertSummaryKeeps, DropResultKeeps, CreateResultKeeps, StampVariantKeeps
   DEF VariantStep

LEMMA NextDisturbs == Inv /\ Next => Disturbing
BY DEF Next, PatchCompleted, Disturbing, Inv, TypeOK

LEMMA NextInv == Inv /\ [Next]_vars => Inv'
<1>1. ASSUME Inv, Step \/ PatchCompleted, Disturbing PROVE Inv'
  BY <1>1, LaunchKeeps, VariantStepKeeps, FinalizeKeeps, StopKeeps, RestartKeeps,
     RequestsKeep DEF Step
<1>2. ASSUME Inv, UNCHANGED vars PROVE Inv'
  BY <1>2, StutterInv
<1>. QED
  BY <1>1, <1>2, NextDisturbs DEF Next

LEMMA InvAlways == Spec => []Inv
BY InitInv, NextInv, PTL DEF Spec

\* Whatever stops, hangs, restarts or is asked for again, the rows are those of
\* the run, and a variant never has more results than there are workers.
THEOREM TypeCorrect == Spec => []TypeOK
<1>1. Inv => TypeOK
  BY DEF Inv
<1>. QED
  BY <1>1, InvAlways, PTL

\* completedAt (backtest-v0.ts) is earned: a variant that has it was summarized
\* over metrics of all of its decisions, whichever invocations computed them,
\* unless it was disturbed.
THEOREM CompletedAtEarned == Spec => []CompletedAtIsEarned
<1>1. Inv => CompletedAtIsEarned
  <2> SUFFICES ASSUME Inv, NEW v \in completed \ disturbed
               PROVE  /\ v \in summarized
                      /\ decisions[v] = Batches /\ metrics[v] = Batches /\ summary[v] = Batches
    BY DEF CompletedAtIsEarned
  <2>1. v \in Undisturbed
    BY DEF Inv, TypeOK, Undisturbed
  <2>2. Sound(v)
    BY <2>1 DEF Inv
  <2>. QED
    BY <2>2 DEF Sound
<1>. QED
  BY <1>1, InvAlways, PTL

LEMMA StepImmutable ==
  ASSUME Inv, Step \/ PatchCompleted, Disturbing, NEW v \in Undisturbed', metrics[v] # {} \/ v \in summarized
  PROVE  decisions'[v] = decisions[v]
<1>1. v \in Undisturbed /\ v \in Variants /\ Sound(v)
  BY QuietKeeps DEF Inv, TypeOK, Undisturbed
<1>2. decisions[v] = Batches
  BY <1>1 DEF Sound
<1>3. ASSUME NEW w \in Workers, VariantStep(w) PROVE decisions'[v] = decisions[v]
  <2>1. CASE v # Current(w)
    BY <1>1, <1>3, <2>1, StepTouches DEF Untouched
  <2>2. CASE v = Current(w)
    <3>1. ~ClearDecisions(w)
      <4> SUFFICES ASSUME ClearDecisions(w) PROVE FALSE
        OBVIOUS
      <4>1. worker[w].pc = "clear" /\ worker[w].pc \in VariantPcs
        BY DEF ClearDecisions, At, VariantPcs, Pcs
      <4>2. decisions[v] = {}
        BY <1>1, <2>2, <4>1, AtUndisturbed DEF Reached
      <4>. QED
        BY <1>2, <4>2, BatchesAre
    <3>2. ~InsertBatch(w)
      <4> SUFFICES ASSUME InsertBatch(w) PROVE FALSE
        OBVIOUS
      <4>1. worker[w].pc = "insert" /\ worker[w].pc \in VariantPcs
            /\ worker[w].batch \notin decisions[v]
        BY <2>2 DEF InsertBatch, At, VariantPcs, Pcs
      <4>. QED
        BY <1>2, <4>1, AtVariant
    <3>. QED
      BY <1>3, <3>1, <3>2
         DEF VariantStep, UpsertVariant, AlreadyComputed, StartVariant, SkipDecide, Decide,
             SkipMetrics, ComputeMetrics, InsertMetrics, CountDecisions, HashDecisions, UpsertSummary,
             DropResult, CreateResult, StampVariant, data
  <2>. QED
    BY <2>1, <2>2
<1>4. ASSUME UNCHANGED data PROVE decisions'[v] = decisions[v]
  BY <1>4 DEF data
<1>. QED
  BY <1>3, <1>4 DEF Step, Launch, Finalize, Complete, Stop, Throw, Restart, PatchCompleted,
                    PatchFailed, Enqueue, Retry

\* "AgentDecision immutable unless overwrite=true" (decide.ts): the decisions
\* that metrics or a summary were computed from stay as they were, unless the
\* variant is disturbed.
THEOREM DecisionsStay == Spec => DecisionsImmutable
<1>1. Inv /\ [Next]_vars =>
        [\A v \in Undisturbed' : metrics[v] # {} \/ v \in summarized
                                 => decisions'[v] = decisions[v]]_decisions
  <2>1. ASSUME Inv, Next
        PROVE  \A v \in Undisturbed' : metrics[v] # {} \/ v \in summarized
                                       => decisions'[v] = decisions[v]
    BY <2>1, NextDisturbs, StepImmutable DEF Next
  <2>2. UNCHANGED vars => UNCHANGED decisions
    BY DEF vars, data
  <2>. QED
    BY <2>1, <2>2
<1>. QED
  BY <1>1, InvAlways, PTL DEF Spec, DecisionsImmutable

\* The variants that every worker of the run goes through, whether it was
\* started by the import or by a retry.
Covered == {v \in Variants : v[1] \in Range(RetrySymbols)}
CoveredIsComplete ==
    Finalized => \A v \in Undisturbed \cap Covered : CompleteVariant(v)

\* A step of a run that is not finalized after it, or was before, as the only
\* one that makes it so is Complete.
LEMMA StepCompletes ==
  ASSUME Inv, Step, UNCHANGED amended, Disturbing, CoveredIsComplete
  PROVE  CoveredIsComplete'
<1> SUFFICES ASSUME Finalized', NEW v \in Covered, v \in Undisturbed'
             PROVE  CompleteVariant(v)'
  BY DEF CoveredIsComplete, Covered
<1>1. v \in Undisturbed \cap Covered /\ v \in Variants
  BY QuietKeeps DEF Inv, TypeOK, Undisturbed, Covered
<1>2. ASSUME NEW w \in Workers, VariantStep(w) PROVE CompleteVariant(v)'
  <2>1. Aside /\ worker[w].pc \in VariantPcs
    BY <1>2 DEF VariantStep, UpsertVariant, AlreadyComputed, StartVariant, SkipDecide, Decide,
                ClearDecisions, InsertBatch, SkipMetrics, ComputeMetrics, InsertMetrics,
                CountDecisions, HashDecisions, UpsertSummary, DropResult, CreateResult, StampVariant, At,
                VariantPcs, Pcs
  <2>2. Finalized
    BY <2>1 DEF Aside, Finalized
  <2>3. v # Current(w)
    BY <1>1, <2>1, <2>2, Alone DEF Inv
  <2>. QED
    BY <1>1, <1>2, <2>2, <2>3, StepTouches, UntouchedStays DEF CoveredIsComplete
<1>3. ASSUME NEW w \in Workers, Complete(w) PROVE CompleteVariant(v)'
  <2>1. worker[w].pc = "complete" /\ UNCHANGED data
    BY <1>3 DEF Complete, At
  <2>2. /\ worker[w].plan \in {Plan(Symbols), Plan(RetrySymbols)}
        /\ Passed(worker[w], Settled)
    BY <2>1 DEF Inv, Busy
  <2>3. PICK i \in 1 .. Len(worker[w].plan) : worker[w].plan[i] = v
    <3>1. v[1] \in Range(Symbols) /\ v[1] \in Range(RetrySymbols)
      BY <1>1 DEF Covered, Variants
    <3>. QED
      BY <1>1, <2>2, <3>1, PlanCovers
  <2>4. v \in Settled
    BY <2>1, <2>2, <2>3 DEF Passed
  <2>5. CompleteVariant(v)
    BY <1>1, <2>4 DEF Settled, Undisturbed
  <2>. QED
    BY <2>1, <2>5 DEF CompleteVariant, data
<1>4. ASSUME UNCHANGED data, Finalized PROVE CompleteVariant(v)'
  <2>1. CompleteVariant(v)
    BY <1>1, <1>4 DEF CoveredIsComplete
  <2>. QED
    BY <1>4, <2>1 DEF CompleteVariant, data
<1>5. ASSUME \/ \E w \in Workers : Launch(w) \/ Finalize(w) \/ Stop(w) \/ Throw(w)
             \/ Restart \/ PatchFailed \/ Enqueue \/ Retry
      PROVE  UNCHANGED data /\ Finalized
  <2>1. UNCHANGED data
    BY <1>5 DEF Launch, Finalize, Stop, Throw, Restart, PatchFailed, Enqueue, Retry
  <2>2. status' \in {status, AfterRunning(status), "FAILED", "PENDING"}
    BY <1>5 DEF Launch, Finalize, Stop, Throw, Restart, PatchFailed, Enqueue, Retry, Aside,
                AfterFailed, AfterRetry
  <2>3. AfterRunning(status) \in {"RUNNING", status}
    BY DEF AfterRunning
  <2>. QED
    BY <2>1, <2>2, <2>3 DEF Finalized
<1>. QED
  BY <1>2, <1>3, <1>4, <1>5 DEF Step

\* Whatever retries ask for, a run that a worker, and not a PATCH, made COMPLETED
\* has every variant complete that is of an asset they ask for and was not
\* disturbed: no process, however it skipped what it found, finalizes the run
\* without it.
THEOREM CoveredVariantsComplete == Spec => []CoveredIsComplete
<1>1. Init => CoveredIsComplete
  BY DEF Init, Finalized, CoveredIsComplete
<1>2. Inv /\ CoveredIsComplete /\ [Next]_vars => CoveredIsComplete'
  <2>1. ASSUME Inv, CoveredIsComplete, Next PROVE CoveredIsComplete'
    <3>1. CASE Step /\ UNCHANGED amended
      BY <2>1, <3>1, NextDisturbs, StepCompletes
    <3>2. CASE PatchCompleted
      BY <3>2 DEF PatchCompleted, CoveredIsComplete, Finalized
    <3>. QED
      BY <2>1, <3>1, <3>2 DEF Next
  <2>2. ASSUME CoveredIsComplete, UNCHANGED vars PROVE CoveredIsComplete'
    BY <2>2 DEF vars, data, CoveredIsComplete, Finalized, Covered, Undisturbed, CompleteVariant
  <2>. QED
    BY <2>1, <2>2
<1>. QED
  BY <1>1, <1>2, InvAlways, PTL DEF Spec

\* "Run completes when completedVariants == expectedVariants" (backtest-v0.ts):
\* provided that the payload of a retry covers the assets of the run, a run that
\* a worker made COMPLETED has every variant complete that was not disturbed.  A
\* PATCH (runs.service.ts) makes any run COMPLETED, and nothing is claimed of it.
THEOREM FinalizedRunIsComplete ==
  ASSUME Range(Symbols) \subseteq Range(RetrySymbols)
  PROVE  Spec => []FinalizedIsComplete
<1>1. Covered = Variants
  BY DEF Covered, Variants
<1>2. CoveredIsComplete => FinalizedIsComplete
  BY <1>1 DEF CoveredIsComplete, FinalizedIsComplete, Undisturbed
<1>. QED
  BY <1>2, CoveredVariantsComplete, PTL
=============================================================================
