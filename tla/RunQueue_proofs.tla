------------------------- MODULE RunQueue_proofs -------------------------
(***************************************************************************)
(* Theorems about RunQueue for any set of runs, assets and clients and any *)
(* bound on requests and faults, and about RunRow, the row of a run that   *)
(* its jobs and requests update.                                           *)
(***************************************************************************)
EXTENDS RunQueue, RunRow, SequenceTheorems, TLAPS

USE RetryAssumption, ImportAssumption, CoversAssumption, RequestsAssumption, FaultsAssumption

\* A job that anyone still knows has been asked for.
IdsIssued ==
    /\ \A c \in Clients : req[c].pc # "idle" => req[c].id \in 1 .. issued
    /\ \A n \in 1 .. Len(queue) : queue[n] \in 1 .. issued
    /\ runner.pc # "idle" => runner.id \in 1 .. issued
    /\ \A i \in Ids : worker[i] # "none" \/ i \in lateFail => i \in 1 .. issued
    /\ \A i \in 1 .. issued : job[i] \in Jobs

\* When the queue's worker is past its COMPLETED update, its run is not
\* RUNNING any more, and when it has left the run short, so the run still is:
\* nobody else makes it RUNNING or adds a variant to it, an orphan of a crash
\* excepted.
WorkerTold ==
    runner.pc = "spawned" /\ RunOf(runner.id) \notin struck =>
      /\ worker[runner.id] \in {"completed", "exit0"} => status[RunOf(runner.id)] # "RUNNING"
      /\ worker[runner.id] = "short" => ~Enough(RunOf(runner.id))

IInv == /\ TypeOK
        /\ IdsIssued
        /\ NoKeyLeak
        /\ OneWorker
        /\ WorkerTold
        /\ RunningIsOwned

\* A request of any kind, and what its first step does: it is given a number
\* and, if it is a retry, has read FAILED.
Asks(c, r) == RequestImport(c, r) \/ RequestEnqueue(c, r) \/ RequestRetry(c, r) \/ RequestPatch(c, r)

FirstPcs == {"enqueue", "retryWrite", "patchCompleted", "patchFailed"}

LEMMA AsksIssue ==
  ASSUME NEW c, NEW r \in Runs, Asks(c, r)
  PROVE  /\ \E a \in Assets, pc \in FirstPcs :
              Issue(c, r, a, pc) /\ (pc = "retryWrite" => status[r] = "FAILED")
         /\ UNCHANGED <<status, rows, queue, activeJobKeys, runner, worker, lateFail, faults, struck>>
BY DEF Asks, RequestImport, RequestEnqueue, RequestRetry, RequestPatch, FirstPcs

\* Next by name: what each disjunct is.
LEMMA NextCases ==
  ASSUME Next, NEW P,
         \A c \in Clients, r \in Runs : Asks(c, r) => P,
         \A c \in Clients : RetryWrite(c) \/ PatchWrite(c) \/ CheckKey(c) \/ ReadStatus(c)
                            \/ Push(c) \/ ReadError(c) => P,
         Start \/ MarkRunning \/ MarkError \/ Spawn \/ SpawnError \/ OnExit => P,
         \A i \in Ids : LateFailWrite(i) \/ LateFailError(i) \/ WorkerStep(i) => P,
         Crash => P
  PROVE  P
BY Zenon DEF Next, HandlerStep, Asks

\* What no step of a worker touches.
LEMMA WorkerFrame ==
  ASSUME NEW i, WorkerStep(i)
  PROVE  /\ Live(i) /\ \E pc \in WorkerPcs \ {"none", "boot", "gone"} : Becomes(i, pc)
         /\ UNCHANGED <<job, issued, req, queue, activeJobKeys, runner, lateFail, struck>>
BY DEF WorkerStep, WorkerRunning, WorkerVariant, WorkerDone, WorkerComplete, WorkerExit,
       WorkerThrow, WorkerFail, WorkerDies, WorkerReadError, WorkerOnly, Live, WorkerPcs

LEMMA StatusOperators ==
  \A s \in Statuses : /\ AfterRunning(s) \in Statuses
                      /\ AfterCompleted(s) \in Statuses
                      /\ AfterFailed(s) \in Statuses
                      /\ AfterRetry(s) \in Statuses
BY DEF AfterRunning, AfterCompleted, AfterFailed, AfterRetry, Statuses

\* Taking the head off a queue of ids and appending an id to it.
LEMMA QueueTail ==
  ASSUME NEW q \in Seq(Ids), q # <<>>
  PROVE  /\ Head(q) \in Ids /\ Head(q) = q[1] /\ 1 \in 1 .. Len(q)
         /\ Tail(q) \in Seq(Ids)
         /\ \A n \in 1 .. Len(Tail(q)) : n + 1 \in 1 .. Len(q) /\ Tail(q)[n] = q[n + 1]
         /\ \A n \in 1 .. Len(q) : n # 1 => /\ n - 1 \in 1 .. Len(Tail(q))
                                            /\ Tail(q)[n - 1] = q[n]
<1>1. Len(q) \in Nat \ {0}
  BY EmptySeq
<1>2. /\ Head(q) \in Ids /\ Tail(q) \in Seq(Ids) /\ Len(Tail(q)) = Len(q) - 1
      /\ \A i \in 1 .. Len(Tail(q)) : Tail(q)[i] = q[i + 1]
  BY HeadTailProperties
<1>3. Head(q) = q[1]
  OBVIOUS
<1>. QED
  BY <1>1, <1>2, <1>3

LEMMA QueueAppend ==
  ASSUME NEW q \in Seq(Ids), NEW e \in Ids
  PROVE  /\ Append(q, e) \in Seq(Ids)
         /\ Len(q) \in Nat /\ Len(Append(q, e)) = Len(q) + 1
         /\ \A n \in 1 .. Len(q) : Append(q, e)[n] = q[n]
         /\ Append(q, e)[Len(q) + 1] = e
BY AppendProperties, LenProperties

-----------------------------------------------------------------------------
LEMMA TypeInit == Init => TypeOK
<1>1. <<>> \in Seq(Ids)
  BY EmptySeq
<1>. QED
  BY <1>1 DEF Init, TypeOK, Statuses, Ids, IdleReq, IdleRunner, ReqPcs, RunnerPcs,
              WorkerPcs, NoId

LEMMA TypeStep == TypeOK /\ IdsIssued /\ [Next]_vars => TypeOK'
<1> SUFFICES ASSUME TypeOK, IdsIssued, Next PROVE TypeOK'
  BY DEF TypeOK, vars
<1> USE DEF TypeOK, Ids, NoId
<1>1. ASSUME NEW c \in Clients, NEW r \in Runs, Asks(c, r) PROVE TypeOK'
  <2>1. PICK a \in Assets, pc \in FirstPcs : Issue(c, r, a, pc)
    BY <1>1, AsksIssue
  <2>2. UNCHANGED <<status, rows, queue, activeJobKeys, runner, worker, lateFail, faults, struck>>
    BY <1>1, AsksIssue
  <2>3. issued + 1 \in Ids /\ [run |-> r, asset |-> a] \in Jobs /\ pc \in ReqPcs
    BY <2>1 DEF Issue, Jobs, ReqPcs, FirstPcs
  <2>. QED
    BY <2>1, <2>2, <2>3 DEF Issue
<1>3. ASSUME NEW c \in Clients, RetryWrite(c) \/ PatchWrite(c) PROVE TypeOK'
  <2>1. CASE RetryWrite(c)
    BY <2>1, StatusOperators DEF RetryWrite, ReqPcs
  <2>2. CASE PatchWrite(c)
    BY <2>2 DEF PatchWrite, IdleReq, ReqPcs, Statuses
  <2>. QED
    BY <1>3, <2>1, <2>2
<1>4. ASSUME NEW c \in Clients, CheckKey(c) \/ ReadStatus(c) \/ ReadError(c)
      PROVE  TypeOK'
  <2>1. CASE CheckKey(c)
    BY <2>1 DEF CheckKey, ReqPcs, IdleReq
  <2>2. CASE ReadStatus(c)
    BY <2>2 DEF ReadStatus, ReqPcs, IdleReq
  <2>3. CASE ReadError(c)
    BY <2>3 DEF ReadError, ReqPcs, IdleReq
  <2>. QED
    BY <1>4, <2>1, <2>2, <2>3
<1>5. ASSUME NEW c \in Clients, Push(c) PROVE TypeOK'
  <2>1. req[c].id \in 1 .. issued /\ req[c].id \in Ids /\ job[req[c].id] \in Jobs
    BY <1>5 DEF Push, IdsIssued
  <2>2. KeyOf(req[c].id) \in Runs \X Assets
    BY <2>1 DEF KeyOf, JobKey, Jobs
  <2>3. queue' \in Seq(Ids)
    BY <1>5, <2>1, QueueAppend DEF Push
  <2>. QED
    BY <1>5, <2>2, <2>3 DEF Push, ReqPcs, IdleReq
<1>6. CASE Start
  BY <1>6, QueueTail DEF Start, RunnerPcs
<1>7. CASE MarkRunning
  BY <1>7, StatusOperators DEF MarkRunning, RunnerPcs
<1>8. CASE MarkError
  <2>1. RunOf(runner.id) \in Runs
    BY <1>8 DEF MarkError, IdsIssued, RunOf, Jobs
  <2>. QED
    BY <1>8, <2>1 DEF MarkError, Release, IdleRunner, RunnerPcs
<1>9. CASE Spawn
  BY <1>9 DEF Spawn, RunnerPcs, WorkerPcs
<1>10. CASE SpawnError
  <2>1. runner.id \in Ids
    BY <1>10 DEF SpawnError, IdsIssued
  <2>2. lateFail' \subseteq Ids
    BY <1>10, <2>1 DEF SpawnError
  <2>. QED
    BY <1>10, <2>2 DEF SpawnError, Release, IdleRunner, RunnerPcs
<1>11. CASE OnExit
  <2>1. runner.id \in Ids
    BY <1>11 DEF OnExit, IdsIssued
  <2>2. lateFail' \subseteq Ids
    BY <1>11, <2>1 DEF OnExit
  <2>. QED
    BY <1>11, <2>2 DEF OnExit, Release, IdleRunner, RunnerPcs, WorkerPcs
<1>12. ASSUME NEW i \in Ids, LateFailWrite(i) \/ LateFailError(i) PROVE TypeOK'
  <2>1. CASE LateFailWrite(i)
    BY <2>1, StatusOperators DEF LateFailWrite
  <2>2. CASE LateFailError(i)
    <3>1. RunOf(i) \in Runs
      BY <2>2 DEF LateFailError, IdsIssued, RunOf, Jobs
    <3>. QED
      BY <2>2, <3>1 DEF LateFailError
  <2>. QED
    BY <1>12, <2>1, <2>2
<1>13. ASSUME NEW i \in Ids, WorkerStep(i) PROVE TypeOK'
  <2>1. CASE WorkerRunning(i)
    BY <2>1, StatusOperators DEF WorkerRunning, Becomes, WorkerOnly, WorkerPcs
  <2>2. CASE WorkerComplete(i)
    BY <2>2, StatusOperators DEF WorkerComplete, Becomes, WorkerOnly, WorkerPcs
  <2>3. CASE WorkerFail(i)
    BY <2>3, StatusOperators DEF WorkerFail, Becomes, WorkerOnly, WorkerPcs
  <2>4. CASE WorkerDone(i) \/ WorkerExit(i) \/ WorkerThrow(i) \/ WorkerDies(i)
    BY <2>4 DEF WorkerDone, WorkerExit, WorkerThrow, WorkerDies, Becomes, WorkerOnly,
                WorkerPcs
  <2>5. CASE WorkerReadError(i)
    BY <2>5 DEF WorkerReadError, Becomes, WorkerOnly, WorkerPcs
  <2>6. CASE WorkerVariant(i)
    <3>1. job[i].asset \in Assets
      BY <2>6 DEF WorkerVariant, IdsIssued, Jobs
    <3>2. PICK v \in Variants : rows' = [rows EXCEPT ![RunOf(i)] = @ \cup {v}]
      BY <2>6, <3>1 DEF WorkerVariant
    <3>. QED
      BY <2>6, <3>2 DEF WorkerVariant, Becomes, WorkerOnly, WorkerPcs
  <2>. QED
    BY <1>13, <2>1, <2>2, <2>3, <2>4, <2>5, <2>6 DEF WorkerStep
<1>14. CASE Crash
  <2>1. \A i \in lateFail : RunOf(i) \in Runs
    BY DEF IdsIssued, RunOf, Jobs
  <2>2. Processing => RunOf(runner.id) \in Runs
    BY DEF Processing, IdsIssued, RunOf, Jobs
  <2>3. struck' \subseteq Runs
    BY <1>14, <2>1, <2>2 DEF Crash
  <2>. QED
    BY <1>14, <2>3, EmptySeq DEF Crash, IdleReq, IdleRunner, ReqPcs, RunnerPcs
<1>. HIDE DEF TypeOK
<1>. QED
  BY <1>1, <1>3, <1>4, <1>5, <1>6, <1>7, <1>8, <1>9, <1>10, <1>11, <1>12,
     <1>13, <1>14, NextCases, Zenon

-----------------------------------------------------------------------------
LEMMA IdsInit == Init => IdsIssued
BY DEF Init, IdsIssued, IdleReq, IdleRunner, Ids

\* Jobs are never renamed: only a new request touches `job', at a new number.
LEMMA JobsFixed ==
  ASSUME TypeOK, IdsIssued, Next
  PROVE  /\ issued \in Nat /\ issued' \in Nat /\ issued <= issued'
         /\ \A i \in 1 .. issued : i \in Ids /\ job'[i] = job[i]
         /\ \A i \in 1 .. issued' : job'[i] \in Jobs
<1> USE DEF Ids
<1>1. issued \in Nat /\ issued <= MaxRequests /\ job \in [Ids -> Jobs \cup {NoJob}]
  BY DEF TypeOK
<1> DEFINE New == \E c \in Clients, r \in Runs, a \in Assets, pc \in FirstPcs : Issue(c, r, a, pc)
<1>3. ASSUME New
      PROVE  /\ issued' \in Nat /\ issued <= issued'
             /\ \A i \in 1 .. issued : job'[i] = job[i]
             /\ \A i \in 1 .. issued' : job'[i] \in Jobs
  <2>1. PICK c \in Clients, r \in Runs, a \in Assets, pc \in FirstPcs : Issue(c, r, a, pc)
    BY <1>3
  <2> DEFINE j == [run |-> r, asset |-> a]
  <2>2. j \in Jobs
    BY DEF Jobs
  <2>3. /\ issued' = issued + 1 /\ issued' <= MaxRequests
        /\ job' = [job EXCEPT ![issued + 1] = j]
    BY <1>1, <2>1 DEF Issue
  <2> HIDE DEF j
  <2>4. \A i \in 1 .. issued : i \in Ids /\ i # issued + 1 /\ job[i] \in Jobs
    BY <1>1 DEF IdsIssued
  <2>5. issued + 1 \in Ids /\ \A i \in 1 .. issued' : i = issued + 1 \/ i \in 1 .. issued
    BY <1>1, <2>3
  <2>. QED
    BY <1>1, <2>2, <2>3, <2>4, <2>5
<1>4. CASE UNCHANGED <<job, issued>>
  BY <1>1, <1>4 DEF IdsIssued
<1>5. UNCHANGED <<job, issued>> \/ New
  <2>1. ASSUME NEW c \in Clients, NEW r \in Runs, Asks(c, r) PROVE New
    BY <2>1, AsksIssue
  <2>3. ASSUME NEW c \in Clients,
               RetryWrite(c) \/ PatchWrite(c) \/ CheckKey(c) \/ ReadStatus(c) \/ Push(c)
                 \/ ReadError(c)
        PROVE  UNCHANGED <<job, issued>>
    BY <2>3 DEF RetryWrite, PatchWrite, CheckKey, ReadStatus, Push, ReadError
  <2>4. Start \/ MarkRunning \/ MarkError \/ Spawn \/ SpawnError \/ OnExit \/ Crash
          => UNCHANGED <<job, issued>>
    BY DEF Start, MarkRunning, MarkError, Spawn, SpawnError, OnExit, Crash
  <2>5. ASSUME NEW i \in Ids, LateFailWrite(i) \/ LateFailError(i) \/ WorkerStep(i)
        PROVE  UNCHANGED <<job, issued>>
    BY <2>5, WorkerFrame DEF LateFailWrite, LateFailError
  <2>. HIDE DEF New
  <2>. QED
    BY <2>1, <2>3, <2>4, <2>5, NextCases, Zenon
<1>. QED
  BY <1>1, <1>3, <1>4, <1>5

LEMMA IdsStep == TypeOK /\ IdsIssued /\ [Next]_vars => IdsIssued'
<1> SUFFICES ASSUME TypeOK, IdsIssued, Next PROVE IdsIssued'
  BY DEF IdsIssued, vars
<1>0. /\ issued \in Nat /\ issued' \in Nat /\ issued <= issued'
      /\ \A i \in 1 .. issued : i \in Ids /\ i \in 1 .. issued'
      /\ \A i \in 1 .. issued' : job'[i] \in Jobs
  BY JobsFixed
<1>1. ASSUME NEW c \in Clients, NEW r \in Runs, NEW a \in Assets, NEW pc, Issue(c, r, a, pc),
             UNCHANGED <<queue, runner, worker, lateFail>>
      PROVE  IdsIssued'
  <2>1. issued' \in 1 .. issued'
    BY <1>0, <1>1 DEF Issue
  <2>2. ASSUME NEW d \in Clients, req'[d].pc # "idle" PROVE req'[d].id \in 1 .. issued'
    <3>1. req'[c] = [pc |-> pc, id |-> issued'] /\ (d # c => req'[d] = req[d])
      BY <1>1 DEF Issue, TypeOK
    <3>. QED
      BY <3>1, <2>1, <2>2, <1>0 DEF IdsIssued
  <2>. QED
    BY <1>0, <1>1, <2>2 DEF IdsIssued
<1>2. ASSUME NEW c \in Clients, NEW r \in Runs, Asks(c, r) PROVE IdsIssued'
  BY <1>1, <1>2, AsksIssue
<1>4. ASSUME NEW c \in Clients,
             RetryWrite(c) \/ PatchWrite(c) \/ CheckKey(c) \/ ReadStatus(c) \/ ReadError(c)
      PROVE  IdsIssued'
  <2>1. UNCHANGED <<issued, queue, runner, worker, lateFail>>
    BY <1>4 DEF RetryWrite, PatchWrite, CheckKey, ReadStatus, ReadError
  <2>2. req[c].pc # "idle"
    BY <1>4 DEF RetryWrite, PatchWrite, CheckKey, ReadStatus, ReadError
  <2>3. \A d \in Clients : d # c => req'[d] = req[d]
    BY <1>4 DEF RetryWrite, PatchWrite, CheckKey, ReadStatus, ReadError, TypeOK
  <2>4. req'[c].pc = "idle" \/ req'[c].id = req[c].id
    <3>1. CASE RetryWrite(c)
      BY <3>1 DEF RetryWrite, TypeOK
    <3>2. CASE CheckKey(c)
      BY <3>2 DEF CheckKey, TypeOK, IdleReq
    <3>3. CASE ReadStatus(c)
      BY <3>3 DEF ReadStatus, TypeOK, IdleReq
    <3>4. CASE ReadError(c)
      BY <3>4 DEF ReadError, TypeOK, IdleReq
    <3>5. CASE PatchWrite(c)
      BY <3>5 DEF PatchWrite, TypeOK, IdleReq
    <3>. QED
      BY <1>4, <3>1, <3>2, <3>3, <3>4, <3>5
  <2>. QED
    BY <1>0, <2>1, <2>2, <2>3, <2>4 DEF IdsIssued
<1>5. ASSUME NEW c \in Clients, Push(c) PROVE IdsIssued'
  <2>1. UNCHANGED <<issued, runner, worker, lateFail>> /\ req[c].id \in 1 .. issued
    BY <1>5 DEF Push, IdsIssued
  <2>2. \A d \in Clients : req'[d].pc = "idle" \/ req'[d] = req[d]
    BY <1>5 DEF Push, TypeOK, IdleReq
  <2>3. queue' = Append(queue, req[c].id) /\ queue \in Seq(Ids) /\ req[c].id \in Ids
    BY <1>5, <2>1, <1>0 DEF Push, TypeOK
  <2>4. \A n \in 1 .. Len(queue') : queue'[n] \in 1 .. issued
    BY <2>1, <2>3, QueueAppend DEF IdsIssued
  <2>. QED
    BY <1>0, <2>1, <2>2, <2>4 DEF IdsIssued
<1>6. CASE Start
  <2>1. /\ queue' = Tail(queue) /\ queue \in Seq(Ids) /\ queue # <<>>
        /\ runner'.id = Head(queue)
        /\ UNCHANGED <<issued, req, worker, lateFail>>
    BY <1>6 DEF Start, TypeOK
  <2>2. /\ \A n \in 1 .. Len(queue') : queue'[n] \in 1 .. issued
        /\ runner'.id \in 1 .. issued
    BY <2>1, QueueTail DEF IdsIssued
  <2>. QED
    BY <1>0, <2>1, <2>2 DEF IdsIssued
<1>7. CASE MarkRunning \/ MarkError
  BY <1>0, <1>7 DEF MarkRunning, MarkError, Release, IdleRunner, IdsIssued, TypeOK
<1>8. CASE Spawn
  BY <1>0, <1>8 DEF Spawn, IdsIssued, TypeOK
<1>9. CASE SpawnError \/ OnExit
  <2>1. runner.pc # "idle" /\ runner'.pc = "idle" /\ UNCHANGED <<issued, req, queue>>
    BY <1>9 DEF SpawnError, OnExit, Release, IdleRunner
  <2>2. \A i \in Ids : worker'[i] # "none" \/ i \in lateFail'
          => i = runner.id \/ worker[i] # "none" \/ i \in lateFail
    BY <1>9 DEF SpawnError, OnExit, TypeOK
  <2>. QED
    BY <1>0, <2>1, <2>2 DEF IdsIssued
<1>10. ASSUME NEW i \in Ids, LateFailWrite(i) \/ LateFailError(i) PROVE IdsIssued'
  BY <1>0, <1>10 DEF LateFailWrite, LateFailError, IdsIssued
<1>11. ASSUME NEW i \in Ids, WorkerStep(i) PROVE IdsIssued'
  <2>1. /\ UNCHANGED <<issued, req, queue, runner, lateFail>>
        /\ Live(i) /\ \E pc : Becomes(i, pc)
    BY <1>11, WorkerFrame
  <2>2. \A j \in Ids : worker'[j] # "none" => worker[j] # "none"
    BY <2>1 DEF Becomes, Live, TypeOK
  <2>. QED
    BY <1>0, <2>1, <2>2 DEF IdsIssued
<1>12. CASE Crash
  BY <1>0, <1>12 DEF Crash, IdleReq, IdleRunner, IdsIssued
<1>. QED
  BY <1>2, <1>4, <1>5, <1>6, <1>7, <1>8, <1>9, <1>10, <1>11, <1>12, NextCases, Zenon

-----------------------------------------------------------------------------
LEMMA NoKeyLeakStep == TypeOK /\ IdsIssued /\ NoKeyLeak /\ [Next]_vars => NoKeyLeak'
<1> SUFFICES ASSUME TypeOK, IdsIssued, NoKeyLeak, Next PROVE NoKeyLeak'
  BY DEF NoKeyLeak, Active, Queued, Running, Processing, KeyOf, vars
<1> USE DEF Processing, Running, Queued
\* The jobs queued or running keep their keys.
<1>1. \A i \in Active : i \in Ids /\ KeyOf(i)' = KeyOf(i)
  BY JobsFixed DEF Active, KeyOf, IdsIssued
<1>2. \A k \in activeJobKeys : \E i \in Active : KeyOf(i)' = k
  BY <1>1 DEF NoKeyLeak
\* A step that drops no active job and adds no key.
<1>3. ASSUME activeJobKeys' \subseteq activeJobKeys, Active \subseteq Active'
      PROVE  NoKeyLeak'
  BY <1>2, <1>3 DEF NoKeyLeak
<1>4. ASSUME UNCHANGED <<queue, activeJobKeys>>, runner'.id = runner.id,
             runner.pc # "idle" => runner'.pc # "idle"
      PROVE  NoKeyLeak'
  BY <1>3, <1>4 DEF Active
\* A step that ends the running job and releases its key.
<1>5. ASSUME Release(runner.id), UNCHANGED queue
      PROVE  NoKeyLeak'
  <2>1. \A k \in activeJobKeys' : k \in activeJobKeys /\ k # KeyOf(runner.id)
    BY <1>5 DEF Release
  <2>2. \A i \in Active : i = runner.id \/ i \in Active'
    BY <1>5 DEF Active
  <2>3. \A k \in activeJobKeys' : \E i \in Active : KeyOf(i) = k /\ i # runner.id
    BY <2>1 DEF NoKeyLeak
  <2>. QED
    BY <1>1, <2>2, <2>3 DEF NoKeyLeak
<1>6. ASSUME NEW c \in Clients, Push(c) PROVE NoKeyLeak'
  <2>0. PICK id \in Ids : id = req[c].id /\ job'[id] = job[id]
    BY <1>6, JobsFixed DEF Push, IdsIssued
  <2>1. /\ job'[id] = job[id]
        /\ queue \in Seq(Ids) /\ queue' = Append(queue, id) /\ UNCHANGED runner
        /\ activeJobKeys' = activeJobKeys \cup {KeyOf(id)}
    BY <1>6, <2>0 DEF Push, TypeOK
  <2>2. id \in Active'
    <3>1. Len(queue) + 1 \in 1 .. Len(queue') /\ queue'[Len(queue) + 1] = id
      BY <2>1, QueueAppend
    <3>. QED
      BY <2>1, <3>1 DEF Active
  <2>3. Active \subseteq Active'
    BY <2>1, QueueAppend DEF Active
  <2>4. KeyOf(id)' = KeyOf(id)
    BY <2>1 DEF KeyOf
  <2>. QED
    BY <1>2, <2>1, <2>2, <2>3, <2>4 DEF NoKeyLeak
<1>7. CASE Start
  <2>1. /\ runner.pc = "idle" /\ runner'.pc # "idle" /\ runner'.id = Head(queue)
        /\ queue \in Seq(Ids) /\ queue # <<>> /\ queue' = Tail(queue)
        /\ UNCHANGED activeJobKeys
    BY <1>7 DEF Start, TypeOK
  <2>2. ASSUME NEW i \in Active PROVE i \in Active'
    <3>1. PICK n \in 1 .. Len(queue) : queue[n] = i
      BY <2>1 DEF Active
    <3>2. CASE n = 1
      BY <3>1, <3>2, <2>1, QueueTail DEF Active
    <3>3. CASE n # 1
      <4>1. n - 1 \in 1 .. Len(queue') /\ queue'[n - 1] = i
        BY <3>1, <3>3, <2>1, QueueTail
      <4>. QED
        BY <4>1 DEF Active
    <3>. QED
      BY <3>2, <3>3
  <2>. QED
    BY <1>3, <2>1, <2>2
<1>8. ASSUME NEW c \in Clients, NEW r \in Runs, Asks(c, r) PROVE NoKeyLeak'
  BY <1>4, <1>8, AsksIssue
<1>10. ASSUME NEW c \in Clients,
              RetryWrite(c) \/ PatchWrite(c) \/ CheckKey(c) \/ ReadStatus(c) \/ ReadError(c)
       PROVE  NoKeyLeak'
  BY <1>4, <1>10 DEF RetryWrite, PatchWrite, CheckKey, ReadStatus, ReadError
<1>11. CASE MarkRunning \/ Spawn
  BY <1>4, <1>11 DEF MarkRunning, Spawn, TypeOK
<1>12. CASE MarkError \/ SpawnError \/ OnExit
  BY <1>5, <1>12 DEF MarkError, SpawnError, OnExit
<1>13. ASSUME NEW i \in Ids, LateFailWrite(i) \/ LateFailError(i) \/ WorkerStep(i)
       PROVE  NoKeyLeak'
  BY <1>4, <1>13, WorkerFrame DEF LateFailWrite, LateFailError
<1>14. CASE Crash
  BY <1>14 DEF Crash, NoKeyLeak
<1>. QED
  BY <1>6, <1>7, <1>8, <1>10, <1>11, <1>12, <1>13, <1>14, NextCases, Zenon

-----------------------------------------------------------------------------
\* Whom the loop, a worker or a late write is for stays so, and a run that was
\* struck stays struck.
LEMMA RunsKept ==
  ASSUME TypeOK, IdsIssued, Next
  PROVE  /\ \A i \in Ids : worker[i] # "none" \/ i \in lateFail \/ Running(i)
              => RunOf(i)' = RunOf(i) /\ RunOf(i) \in Runs
         /\ runner.pc # "idle" => runner.id \in Ids /\ RunOf(runner.id) \in Runs
                                  /\ job'[runner.id] = job[runner.id]
         /\ struck \subseteq struck'
<1>1. struck \subseteq struck'
  <2>1. ASSUME NEW c \in Clients, NEW r \in Runs, Asks(c, r) PROVE struck \subseteq struck'
    BY <2>1, AsksIssue
  <2>2. ASSUME NEW c \in Clients,
               RetryWrite(c) \/ PatchWrite(c) \/ CheckKey(c) \/ ReadStatus(c) \/ Push(c)
                 \/ ReadError(c)
        PROVE  struck \subseteq struck'
    BY <2>2 DEF RetryWrite, PatchWrite, CheckKey, ReadStatus, Push, ReadError
  <2>3. Start \/ MarkRunning \/ MarkError \/ Spawn \/ SpawnError \/ OnExit => struck \subseteq struck'
    BY DEF Start, MarkRunning, MarkError, Spawn, SpawnError, OnExit
  <2>4. ASSUME NEW i \in Ids, LateFailWrite(i) \/ LateFailError(i) \/ WorkerStep(i)
        PROVE  struck \subseteq struck'
    BY <2>4, WorkerFrame DEF LateFailWrite, LateFailError
  <2>5. Crash => struck \subseteq struck'
    BY DEF Crash
  <2>. QED
    BY <2>1, <2>2, <2>3, <2>4, <2>5, NextCases, Zenon
<1>. QED
  BY <1>1, JobsFixed DEF IdsIssued, Running, Processing, RunOf, Jobs

LEMMA OneWorkerStep == TypeOK /\ IdsIssued /\ OneWorker /\ [Next]_vars => OneWorker'
<1> SUFFICES ASSUME TypeOK, IdsIssued, OneWorker, Next PROVE OneWorker'
  BY DEF OneWorker, Live, RunOf, vars
<1> DEFINE Loops(i) == runner = [pc |-> "spawned", id |-> i]
<1>0. /\ \A i \in Ids : Live(i) => RunOf(i)' = RunOf(i) /\ RunOf(i) \in Runs
      /\ struck \subseteq struck'
  BY RunsKept DEF Live
\* A step that starts no worker and keeps the loop with the one it has.
<1>1. ASSUME \A i \in Ids : Live(i)' => Live(i) /\ (Loops(i) => Loops(i)' \/ RunOf(i)' \in struck')
      PROVE  OneWorker'
  BY <1>0, <1>1 DEF OneWorker
<1>2. ASSUME NEW c \in Clients, NEW r \in Runs, Asks(c, r) PROVE OneWorker'
  BY <1>1, <1>2, AsksIssue DEF Live
<1>4. ASSUME NEW c \in Clients,
             RetryWrite(c) \/ PatchWrite(c) \/ CheckKey(c) \/ ReadStatus(c) \/ Push(c)
               \/ ReadError(c)
      PROVE  OneWorker'
  BY <1>1, <1>4 DEF RetryWrite, PatchWrite, CheckKey, ReadStatus, Push, ReadError, Live
\* Before the loop spawns, it has no worker.
<1>5. CASE Start \/ MarkRunning \/ SpawnError \/ MarkError
  <2>1. runner.pc # "spawned" /\ UNCHANGED worker
    BY <1>5 DEF Start, MarkRunning, SpawnError, MarkError, Processing
  <2>. QED
    BY <1>1, <2>1 DEF Live
<1>6. CASE Spawn
  <2>1. /\ runner.pc = "marked" /\ runner' = [pc |-> "spawned", id |-> runner.id]
        /\ worker' = [worker EXCEPT ![runner.id] = "boot"]
    BY <1>6 DEF Spawn, TypeOK
  <2>2. ASSUME NEW i \in Ids, Live(i)' PROVE Loops(i)' \/ RunOf(i)' \in struck'
    <3>1. CASE i # runner.id
      <4>1. Live(i)
        BY <2>1, <2>2, <3>1 DEF Live, TypeOK
      <4>. QED
        BY <1>0, <2>1, <4>1 DEF OneWorker
    <3>. QED
      BY <2>1, <3>1
  <2>. QED
    BY <2>2 DEF OneWorker
<1>7. CASE OnExit
  <2>1. /\ worker[runner.id] \in Exited /\ worker \in [Ids -> WorkerPcs]
        /\ \A i \in Ids : i # runner.id => worker'[i] = worker[i]
        /\ runner.id \in Ids => worker'[runner.id] \in {"short", "gone"}
    BY <1>7 DEF OnExit, TypeOK
  <2>2. \A i \in Ids : Live(i)' => Live(i) /\ i # runner.id
    BY <2>1 DEF Live, Exited
  <2>. QED
    BY <1>1, <2>2
<1>8. CASE Crash
  <2>1. UNCHANGED <<worker, job>> /\ (Processing => RunOf(runner.id) \in struck')
    BY <1>8 DEF Crash
  <2>. QED
    BY <1>1, <2>1 DEF Live, Processing, RunOf
<1>9. ASSUME NEW i \in Ids, LateFailWrite(i) \/ LateFailError(i) PROVE OneWorker'
  BY <1>1, <1>9 DEF LateFailWrite, LateFailError, Live
<1>10. ASSUME NEW i \in Ids, WorkerStep(i) PROVE OneWorker'
  <2>1. Live(i) /\ UNCHANGED runner /\ \E pc : Becomes(i, pc)
    BY <1>10, WorkerFrame
  <2>2. \A j \in Ids : Live(j)' => Live(j)
    BY <2>1 DEF Live, Becomes, TypeOK
  <2>. QED
    BY <1>1, <2>1, <2>2
<1>. QED
  BY <1>2, <1>4, <1>5, <1>6, <1>7, <1>8, <1>9, <1>10, NextCases, Zenon

-----------------------------------------------------------------------------
\* Every write of a status: a guarded update, FAILED, the reset of a retry or
\* what a PATCH asks for.
LEMMA StatusWrites ==
  ASSUME TypeOK, IdsIssued, [Next]_vars, NEW r \in Runs
  PROVE  \/ status'[r] \in {status[r], AfterRunning(status[r]), AfterCompleted(status[r]), "FAILED"}
         \/ \E c \in Clients : RetryWrite(c) /\ RunOf(req[c].id) = r /\ status'[r] = "PENDING"
         \/ \E c \in Clients : /\ PatchWrite(c) /\ req[c].pc = "patchCompleted"
                               /\ RunOf(req[c].id) = r /\ status'[r] = "COMPLETED"
<1> DEFINE Goal == \/ status'[r] \in {status[r], AfterRunning(status[r]),
                                      AfterCompleted(status[r]), "FAILED"}
                   \/ \E c \in Clients : RetryWrite(c) /\ RunOf(req[c].id) = r /\ status'[r] = "PENDING"
                   \/ \E c \in Clients : /\ PatchWrite(c) /\ req[c].pc = "patchCompleted"
                                         /\ RunOf(req[c].id) = r /\ status'[r] = "COMPLETED"
<1>1. ASSUME UNCHANGED status PROVE Goal
  BY <1>1
<1>2. ASSUME NEW s, NEW v \in {AfterRunning(status[s]), AfterCompleted(status[s]), "FAILED"},
             status' = [status EXCEPT ![s] = v]
      PROVE  Goal
  BY <1>2 DEF TypeOK
<1>a. ASSUME NEW c \in Clients, NEW q \in Runs, Asks(c, q) PROVE Goal
  BY <1>1, <1>a, AsksIssue
<1>3. ASSUME NEW c \in Clients,
             RetryWrite(c) \/ PatchWrite(c) \/ CheckKey(c) \/ ReadStatus(c) \/ Push(c)
               \/ ReadError(c)
      PROVE  Goal
  <2>1. CASE RetryWrite(c)
    <3>1. status' = [status EXCEPT ![RunOf(req[c].id)] = "PENDING"]
      BY <2>1 DEF RetryWrite, AfterRetry
    <3>2. CASE RunOf(req[c].id) = r
      BY <2>1, <3>1, <3>2 DEF TypeOK
    <3>3. CASE RunOf(req[c].id) # r
      BY <3>1, <3>3 DEF TypeOK
    <3>. QED
      BY <3>2, <3>3
  <2>2. CASE PatchWrite(c) /\ req[c].pc = "patchCompleted"
    <3>1. status' = [status EXCEPT ![RunOf(req[c].id)] = "COMPLETED"]
      BY <2>2 DEF PatchWrite
    <3>2. CASE RunOf(req[c].id) = r
      BY <2>2, <3>1, <3>2 DEF TypeOK
    <3>3. CASE RunOf(req[c].id) # r
      BY <3>1, <3>3 DEF TypeOK
    <3>. QED
      BY <3>2, <3>3
  <2>3. CASE PatchWrite(c) /\ req[c].pc # "patchCompleted"
    <3>1. status' = [status EXCEPT ![RunOf(req[c].id)] = "FAILED"]
      BY <2>3 DEF PatchWrite
    <3>. QED
      BY <1>2, <3>1
  <2>. QED
    BY <1>1, <1>3, <2>1, <2>2, <2>3 DEF CheckKey, ReadStatus, Push, ReadError
<1>4. CASE Start \/ MarkError \/ Spawn \/ SpawnError \/ OnExit \/ Crash
  BY <1>1, <1>4 DEF Start, MarkError, Spawn, SpawnError, OnExit, Crash
<1>5. CASE MarkRunning
  BY <1>2, <1>5 DEF MarkRunning
<1>6. ASSUME NEW i \in Ids, LateFailWrite(i) \/ LateFailError(i) PROVE Goal
  BY <1>1, <1>2, <1>6 DEF LateFailWrite, LateFailError, AfterFailed
<1>7. ASSUME NEW i \in Ids, WorkerStep(i) PROVE Goal
  <2>1. CASE WorkerRunning(i)
    BY <1>2, <2>1 DEF WorkerRunning
  <2>2. CASE WorkerComplete(i)
    BY <1>2, <2>2 DEF WorkerComplete
  <2>3. CASE WorkerFail(i)
    BY <1>2, <2>3 DEF WorkerFail, AfterFailed
  <2>. QED
    BY <1>1, <1>7, <2>1, <2>2, <2>3
    DEF WorkerStep, WorkerVariant, WorkerDone, WorkerExit, WorkerThrow, WorkerDies, WorkerReadError
<1>8. ASSUME Next PROVE Goal
  <2>1. \A c \in Clients, q \in Runs : Asks(c, q) => Goal
    BY <1>a
  <2>2. \A c \in Clients : RetryWrite(c) \/ PatchWrite(c) \/ CheckKey(c) \/ ReadStatus(c)
                            \/ Push(c) \/ ReadError(c) => Goal
    BY <1>3
  <2>3. Start \/ MarkRunning \/ MarkError \/ Spawn \/ SpawnError \/ OnExit => Goal
    BY <1>4, <1>5
  <2>4. \A i \in Ids : LateFailWrite(i) \/ LateFailError(i) \/ WorkerStep(i) => Goal
    BY <1>6, <1>7
  <2>5. Crash => Goal
    BY <1>4
  <2> HIDE DEF Goal
  <2>. QED
    BY <1>8, <2>1, <2>2, <2>3, <2>4, <2>5, NextCases, Zenon
<1>. QED
  BY <1>1, <1>8 DEF vars

\* A run becomes RUNNING, or may, by the queue's mark and by a worker that
\* boots, and gets variants from a worker at work.
LEMMA RunTouched ==
  ASSUME TypeOK, IdsIssued, Next, NEW r \in Runs
  PROVE  /\ \/ status'[r] = "RUNNING" => status[r] = "RUNNING"
            \/ MarkRunning /\ RunOf(runner.id) = r
            \/ \E i \in Ids : WorkerRunning(i) /\ RunOf(i) = r
         /\ \/ rows'[r] = rows[r]
            \/ \E i \in Ids : WorkerVariant(i) /\ RunOf(i) = r
<1> DEFINE Marked == \/ status'[r] = "RUNNING" => status[r] = "RUNNING"
                     \/ MarkRunning /\ RunOf(runner.id) = r
                     \/ \E i \in Ids : WorkerRunning(i) /\ RunOf(i) = r
           Grown == \/ rows'[r] = rows[r]
                    \/ \E i \in Ids : WorkerVariant(i) /\ RunOf(i) = r
           Goal == Marked /\ Grown
<1>1. ASSUME UNCHANGED <<status, rows>> PROVE Goal
  BY <1>1
<1>2. ASSUME NEW s, NEW v, v # "RUNNING", status' = [status EXCEPT ![s] = v], UNCHANGED rows
      PROVE  Goal
  BY <1>2 DEF TypeOK
<1>a. ASSUME NEW c \in Clients, NEW q \in Runs, Asks(c, q) PROVE Goal
  BY <1>1, <1>a, AsksIssue
<1>3. ASSUME NEW c \in Clients,
             RetryWrite(c) \/ PatchWrite(c) \/ CheckKey(c) \/ ReadStatus(c) \/ Push(c)
               \/ ReadError(c)
      PROVE  Goal
  <2>1. CASE RetryWrite(c)
    BY <1>2, <2>1 DEF RetryWrite, AfterRetry
  <2>2. CASE PatchWrite(c)
    <3>1. PICK v \in {"COMPLETED", "FAILED"} : status' = [status EXCEPT ![RunOf(req[c].id)] = v]
      BY <2>2 DEF PatchWrite
    <3>. QED
      BY <1>2, <2>2, <3>1 DEF PatchWrite
  <2>. QED
    BY <1>1, <1>3, <2>1, <2>2 DEF CheckKey, ReadStatus, Push, ReadError
<1>4. CASE Start \/ MarkError \/ Spawn \/ SpawnError \/ OnExit \/ Crash
  BY <1>1, <1>4 DEF Start, MarkError, Spawn, SpawnError, OnExit, Crash
<1>5. CASE MarkRunning
  <2>1. Marked
    <3>1. CASE RunOf(runner.id) = r
      BY <1>5, <3>1
    <3>2. CASE RunOf(runner.id) # r
      BY <1>5, <3>2 DEF MarkRunning, TypeOK
    <3>. QED
      BY <3>1, <3>2
  <2>. QED
    BY <1>5, <2>1 DEF MarkRunning
<1>6. ASSUME NEW i \in Ids, LateFailWrite(i) \/ LateFailError(i) PROVE Goal
  BY <1>1, <1>2, <1>6 DEF LateFailWrite, LateFailError, AfterFailed
<1>7. ASSUME NEW i \in Ids, WorkerStep(i) PROVE Goal
  <2>1. CASE WorkerRunning(i)
    <3>1. Marked
      <4>1. CASE RunOf(i) = r
        BY <2>1, <4>1
      <4>2. CASE RunOf(i) # r
        BY <2>1, <4>2 DEF WorkerRunning, TypeOK
      <4>. QED
        BY <4>1, <4>2
    <3>. QED
      BY <2>1, <3>1 DEF WorkerRunning
  <2>2. CASE WorkerComplete(i)
    BY <2>2 DEF WorkerComplete, AfterCompleted, TypeOK
  <2>3. CASE WorkerFail(i)
    BY <1>2, <2>3 DEF WorkerFail, AfterFailed
  <2>4. CASE WorkerVariant(i)
    <3>1. Grown
      <4>1. CASE RunOf(i) = r
        BY <2>4, <4>1
      <4>2. CASE RunOf(i) # r
        BY <2>4, <4>2 DEF WorkerVariant, TypeOK
      <4>. QED
        BY <4>1, <4>2
    <3>. QED
      BY <2>4, <3>1 DEF WorkerVariant
  <2>. QED
    BY <1>1, <1>7, <2>1, <2>2, <2>3, <2>4
    DEF WorkerStep, WorkerDone, WorkerExit, WorkerThrow, WorkerDies, WorkerReadError
<1>8. ASSUME Next PROVE Goal
  <2>1. \A c \in Clients, q \in Runs : Asks(c, q) => Goal
    BY <1>a
  <2>2. \A c \in Clients : RetryWrite(c) \/ PatchWrite(c) \/ CheckKey(c) \/ ReadStatus(c)
                            \/ Push(c) \/ ReadError(c) => Goal
    BY <1>3
  <2>3. Start \/ MarkRunning \/ MarkError \/ Spawn \/ SpawnError \/ OnExit => Goal
    BY <1>4, <1>5
  <2>4. \A i \in Ids : LateFailWrite(i) \/ LateFailError(i) \/ WorkerStep(i) => Goal
    BY <1>6, <1>7
  <2>5. Crash => Goal
    BY <1>4
  <2> HIDE DEF Goal
  <2>. QED
    BY <1>8, <2>1, <2>2, <2>3, <2>4, <2>5, NextCases, Zenon
<1>. QED
  BY <1>8

-----------------------------------------------------------------------------
LEMMA WorkerToldStep ==
  TypeOK /\ IdsIssued /\ OneWorker /\ WorkerTold /\ [Next]_vars => WorkerTold'
<1> DEFINE w == runner.id
<1> SUFFICES ASSUME TypeOK, IdsIssued, OneWorker, WorkerTold, Next,
                    runner'.pc = "spawned", RunOf(runner.id)' \notin struck'
             PROVE  /\ worker'[runner'.id] \in {"completed", "exit0"}
                         => status'[RunOf(runner.id)'] # "RUNNING"
                    /\ worker'[runner'.id] = "short" => ~Enough(RunOf(runner.id))'
  BY DEF WorkerTold, RunOf, Enough, vars
<1>1. CASE Spawn
  <2>1. w \in Ids /\ runner'.id = w /\ worker'[w] = "boot"
    BY <1>1, RunsKept DEF Spawn, TypeOK
  <2>. QED
    BY <2>1
<1>2. CASE ~Spawn
  <2>1. runner = runner'
    <3>1. ASSUME NEW c \in Clients, NEW r \in Runs, Asks(c, r) PROVE runner = runner'
      BY <3>1, AsksIssue
    <3>2. ASSUME NEW c \in Clients,
                 RetryWrite(c) \/ PatchWrite(c) \/ CheckKey(c) \/ ReadStatus(c) \/ Push(c)
                   \/ ReadError(c)
          PROVE  runner = runner'
      BY <3>2 DEF RetryWrite, PatchWrite, CheckKey, ReadStatus, Push, ReadError
    <3>3. ~(Start \/ MarkRunning \/ MarkError \/ SpawnError \/ OnExit \/ Crash)
      BY DEF Start, MarkRunning, MarkError, SpawnError, OnExit, Crash, Release, IdleRunner, TypeOK
    <3>4. ASSUME NEW i \in Ids, LateFailWrite(i) \/ LateFailError(i) \/ WorkerStep(i)
          PROVE  runner = runner'
      BY <3>4, WorkerFrame DEF LateFailWrite, LateFailError
    <3>. QED
      BY <1>2, <3>1, <3>2, <3>3, <3>4, NextCases, Zenon
  <2>2. /\ w \in Ids /\ runner'.id = w /\ runner.pc = "spawned" /\ RunOf(w) \in Runs
        /\ RunOf(runner.id)' = RunOf(w) /\ RunOf(w) \notin struck
    BY <2>1, RunsKept DEF RunOf
  <2>3. ~MarkRunning
    BY <2>2 DEF MarkRunning
  \* A live worker of the run is the loop's own.
  <2>4. \A i \in Ids : Live(i) /\ RunOf(i) = RunOf(w) => i = w
    BY <2>2 DEF OneWorker
  <2>5. \A i \in Ids : WorkerRunning(i) /\ RunOf(i) = RunOf(w) => worker'[w] = "work"
    BY <2>2, <2>4 DEF WorkerRunning, Live, Becomes, TypeOK
  <2>6. \A i \in Ids : WorkerVariant(i) /\ RunOf(i) = RunOf(w) => worker'[w] = "work"
    BY <2>2, <2>4 DEF WorkerVariant, Live, Becomes, TypeOK
  <2>7. CASE worker'[w] = "work"
    BY <2>2, <2>7
  <2>8. CASE worker'[w] # "work"
    <3>1. /\ status'[RunOf(w)] = "RUNNING" => status[RunOf(w)] = "RUNNING"
          /\ rows'[RunOf(w)] = rows[RunOf(w)]
      BY <2>2, <2>3, <2>5, <2>6, <2>8, RunTouched
    <3>2. Enough(RunOf(w))' <=> Enough(RunOf(w))
      BY <2>2, <3>1 DEF Enough
    <3>3. \/ worker'[w] = worker[w]
          \/ worker[w] = "completed" /\ worker'[w] = "exit0"
          \/ WorkerComplete(w)
          \/ worker'[w] = "short" /\ ~Enough(RunOf(w))
          \/ worker'[w] \notin {"completed", "exit0", "short"}
      <4>1. ASSUME NEW c \in Clients, NEW r \in Runs, Asks(c, r) PROVE worker' = worker
        BY <4>1, AsksIssue
      <4>2. ASSUME NEW c \in Clients,
                   RetryWrite(c) \/ PatchWrite(c) \/ CheckKey(c) \/ ReadStatus(c) \/ Push(c)
                     \/ ReadError(c)
            PROVE  worker' = worker
        BY <4>2 DEF RetryWrite, PatchWrite, CheckKey, ReadStatus, Push, ReadError
      <4>3. Start \/ MarkRunning \/ MarkError \/ SpawnError \/ Crash => worker' = worker
        BY DEF Start, MarkRunning, MarkError, SpawnError, Crash
      <4>4. ~OnExit
        BY <2>1, <2>2 DEF OnExit, Release, IdleRunner
      <4>5. ASSUME NEW i \in Ids, LateFailWrite(i) \/ LateFailError(i) PROVE worker' = worker
        BY <4>5 DEF LateFailWrite, LateFailError
      <4>6. ASSUME NEW i \in Ids, WorkerStep(i), i # w PROVE worker'[w] = worker[w]
        BY <2>2, <4>6, WorkerFrame DEF Becomes, TypeOK
      <4>7. ASSUME WorkerStep(w), ~WorkerComplete(w)
            PROVE  \/ worker[w] = "completed" /\ worker'[w] = "exit0"
                   \/ worker'[w] = "short" /\ ~Enough(RunOf(w))
                   \/ worker'[w] \notin {"completed", "exit0", "short"}
        <5>1. \A pc : Becomes(w, pc) => worker'[w] = pc
          BY <2>2 DEF Becomes, TypeOK
        <5>2. CASE WorkerDone(w)
          BY <5>1, <5>2 DEF WorkerDone
        <5>3. CASE WorkerExit(w)
          BY <5>1, <5>3 DEF WorkerExit
        <5>4. CASE WorkerRunning(w) \/ WorkerVariant(w) \/ WorkerThrow(w) \/ WorkerFail(w)
                   \/ WorkerDies(w) \/ WorkerReadError(w)
          BY <5>1, <5>4 DEF WorkerRunning, WorkerVariant, WorkerThrow, WorkerFail, WorkerDies,
             WorkerReadError
        <5>. QED
          BY <4>7, <5>2, <5>3, <5>4 DEF WorkerStep
      <4>8. ASSUME NEW i \in Ids, WorkerStep(i) PROVE <3>3!1 \/ <3>3!2 \/ <3>3!3 \/ <3>3!4 \/ <3>3!5
        BY <2>2, <4>6, <4>7, <4>8
      <4>. QED
        BY <1>2, <4>1, <4>2, <4>3, <4>4, <4>5, <4>8, NextCases
    <3>4. CASE WorkerComplete(w)
      BY <2>2, <3>4 DEF WorkerComplete, Becomes, AfterCompleted, InFlight, TypeOK
    <3>. QED
      BY <2>2, <3>1, <3>2, <3>3, <3>4 DEF WorkerTold
  <2>. QED
    BY <2>7, <2>8
<1>. QED
  BY <1>1, <1>2

-----------------------------------------------------------------------------
\* Job i will settle run r.
Owns(i, r) == RunOf(i) = r /\ (Running(i) \/ i \in lateFail)

LEMMA RunningIsOwnedStep ==
  TypeOK /\ IdsIssued /\ OneWorker /\ WorkerTold /\ RunningIsOwned /\ [Next]_vars
    => RunningIsOwned'
<1> SUFFICES ASSUME TypeOK, IdsIssued, OneWorker, WorkerTold, RunningIsOwned, Next,
                    NEW r \in Runs, status'[r] = "RUNNING", r \notin struck'
             PROVE  (Owned(r) \/ LeftShort(r))'
  BY DEF RunningIsOwned, Owned, LeftShort, Enough, Running, Processing, RunOf, vars
<1> DEFINE Goal == (Owned(r) \/ LeftShort(r))'
<1>0. /\ r \notin struck
      /\ \A i \in Ids : worker[i] # "none" \/ i \in lateFail \/ Running(i) => RunOf(i)' = RunOf(i)
      /\ runner.pc # "idle" => runner.id \in Ids
  BY RunsKept
<1>1. \A i \in Ids : RunOf(i)' = r /\ (Running(i)' \/ i \in lateFail') => Goal
  BY DEF Owned
\* The loop is busy with a job of r, and stays so.
<1>2. ASSUME Processing, RunOf(runner.id) = r, Processing', runner'.id = runner.id PROVE Goal
  <2>1. runner.id \in Ids /\ RunOf(runner.id)' = r
    BY <1>0, <1>2 DEF Running, Processing
  <2>. QED
    BY <1>1, <1>2, <2>1 DEF Running
\* This run was RUNNING before and has the rows it had: nobody lets go of it.
<1>3. ASSUME status[r] = "RUNNING", rows'[r] = rows[r],
             Processing /\ RunOf(runner.id) = r => Processing' /\ runner'.id = runner.id,
             \A i \in lateFail : i \in lateFail' \/ RunOf(i) # r,
             \A i \in Ids : worker[i] = "short" => worker'[i] = "short" \/ RunOf(i) # r
      PROVE  Goal
  <2>1. CASE LeftShort(r)
    <3>1. PICK i \in Ids : RunOf(i) = r /\ worker[i] = "short" /\ ~Enough(r)
      BY <2>1 DEF LeftShort
    <3>2. RunOf(i)' = r /\ worker'[i] = "short" /\ ~Enough(r)'
      BY <1>0, <1>3, <3>1 DEF Enough
    <3>. QED
      BY <3>2 DEF LeftShort
  <2>2. CASE Owned(r)
    <3>1. PICK i \in Ids : Owns(i, r)
      BY <2>2 DEF Owned, Owns
    <3>2. CASE Running(i)
      BY <1>2, <1>3, <3>1, <3>2 DEF Running, Owns
    <3>3. CASE i \in lateFail
      BY <1>0, <1>1, <1>3, <3>1, <3>3 DEF Owns
    <3>. QED
      BY <3>1, <3>2, <3>3 DEF Owns
  <2>. QED
    BY <1>0, <1>3, <2>1, <2>2 DEF RunningIsOwned
<1>a. /\ \/ status[r] = "RUNNING"
         \/ MarkRunning /\ RunOf(runner.id) = r
         \/ \E i \in Ids : WorkerRunning(i) /\ RunOf(i) = r
      /\ \/ rows'[r] = rows[r]
         \/ \E i \in Ids : WorkerVariant(i) /\ RunOf(i) = r
  BY RunTouched
<1>b. ASSUME ~MarkRunning, \A i \in Ids : ~WorkerStep(i)
      PROVE  status[r] = "RUNNING" /\ rows'[r] = rows[r]
  BY <1>a, <1>b DEF WorkerStep
<1>4. ASSUME NEW c \in Clients, NEW q \in Runs, Asks(c, q) PROVE Goal
  <2>1. UNCHANGED <<status, rows, runner, lateFail, worker>>
    BY <1>4, AsksIssue
  <2>. QED
    BY <1>3, <2>1 DEF Processing
<1>5. ASSUME NEW c \in Clients,
             RetryWrite(c) \/ PatchWrite(c) \/ CheckKey(c) \/ ReadStatus(c) \/ Push(c)
               \/ ReadError(c)
      PROVE  Goal
  <2>1. UNCHANGED <<rows, runner, lateFail, worker>>
    BY <1>5 DEF RetryWrite, PatchWrite, CheckKey, ReadStatus, Push, ReadError
  <2>2. status[r] = "RUNNING"
    <3>1. CASE RetryWrite(c)
      BY <3>1 DEF RetryWrite, AfterRetry, TypeOK
    <3>2. CASE PatchWrite(c)
      BY <3>2 DEF PatchWrite, TypeOK
    <3>. QED
      BY <1>5, <3>1, <3>2 DEF CheckKey, ReadStatus, Push, ReadError
  <2>. QED
    BY <1>3, <2>1, <2>2 DEF Processing
<1>6. CASE Start
  BY <1>3, <1>6 DEF Start
<1>7. CASE MarkRunning
  <2>1. /\ runner.pc = "marking" /\ runner'.pc = "marked" /\ runner'.id = runner.id
        /\ UNCHANGED <<lateFail, worker, rows>>
    BY <1>7 DEF MarkRunning, TypeOK
  <2>2. CASE RunOf(runner.id) = r
    BY <1>2, <2>1, <2>2 DEF Processing
  <2>3. CASE RunOf(runner.id) # r
    BY <1>3, <1>7, <2>1, <2>3 DEF MarkRunning, TypeOK, Processing
  <2>. QED
    BY <2>2, <2>3
<1>8. CASE Spawn
  <2>1. /\ runner.pc = "marked" /\ runner'.pc = "spawned" /\ runner'.id = runner.id
        /\ UNCHANGED <<status, rows, lateFail>>
        /\ \A i \in Ids : i # runner.id => worker'[i] = worker[i]
    BY <1>8 DEF Spawn, TypeOK
  <2>2. CASE RunOf(runner.id) = r
    BY <1>2, <2>1, <2>2 DEF Processing
  <2>3. CASE RunOf(runner.id) # r
    BY <1>3, <2>1, <2>3 DEF Processing
  <2>. QED
    BY <2>2, <2>3
<1>9. CASE MarkError
  <2>1. /\ UNCHANGED <<status, rows, lateFail, worker>> /\ RunOf(runner.id) # r
    BY <1>9 DEF MarkError
  <2>. QED
    BY <1>3, <2>1
<1>10. CASE SpawnError \/ OnExit
  <2>1. /\ UNCHANGED <<status, rows>> /\ runner.id \in Ids /\ lateFail \subseteq lateFail'
        /\ \A i \in Ids : worker[i] = "short" => worker'[i] = "short"
        /\ Running(runner.id)
    BY <1>0, <1>10 DEF SpawnError, OnExit, TypeOK, Running, Processing
  <2>2. CASE RunOf(runner.id) # r
    BY <1>3, <2>1, <2>2
  <2>3. CASE RunOf(runner.id) = r
    <3>0. job'[runner.id].run = r
      BY <1>0, <2>1, <2>3 DEF RunOf
    <3>a. \A i \in Ids : job'[i].run = r /\ i \in lateFail' => Goal
      BY <1>1 DEF RunOf
    <3>1. CASE runner.id \in lateFail'
      BY <2>1, <3>a, <3>0, <3>1
    <3>2. CASE OnExit /\ worker[runner.id] = "short"
      <4>1. ~Enough(r)
        BY <1>0, <2>3, <3>2 DEF OnExit, WorkerTold
      <4>2. worker'[runner.id] = "short" /\ ~Enough(r)'
        BY <2>1, <3>2, <4>1 DEF Enough
      <4>. QED
        BY <2>1, <3>0, <4>2 DEF LeftShort, RunOf
    <3>3. ~(OnExit /\ worker[runner.id] = "exit0")
      BY <1>0, <2>1, <2>3 DEF OnExit, WorkerTold
    <3>. QED
      BY <1>10, <3>1, <3>2, <3>3 DEF SpawnError, OnExit, Exited
  <2>. QED
    BY <2>2, <2>3
<1>11. CASE Crash
  <2>1. /\ UNCHANGED <<status, rows, worker>>
        /\ Processing => RunOf(runner.id) # r
        /\ \A i \in lateFail : RunOf(i) # r
    BY <1>11 DEF Crash
  <2>. QED
    BY <1>3, <2>1
<1>12. ASSUME NEW i \in Ids, LateFailWrite(i) \/ LateFailError(i) PROVE Goal
  <2>1. /\ UNCHANGED <<rows, runner, worker>> /\ lateFail' = lateFail \ {i}
    BY <1>12 DEF LateFailWrite, LateFailError
  <2>2. RunOf(i) # r /\ status[r] = "RUNNING"
    <3>1. CASE LateFailWrite(i)
      BY <3>1 DEF LateFailWrite, AfterFailed, TypeOK
    <3>2. CASE LateFailError(i)
      BY <3>2 DEF LateFailError
    <3>. QED
      BY <1>12, <3>1, <3>2
  <2>. QED
    BY <1>3, <2>1, <2>2 DEF Processing
<1>13. ASSUME NEW i \in Ids, WorkerStep(i) PROVE Goal
  <2>1. /\ UNCHANGED <<runner, lateFail>> /\ Live(i) /\ \E pc : Becomes(i, pc)
    BY <1>13, WorkerFrame
  <2>2. \A j \in Ids : worker[j] = "short" => worker'[j] = "short"
    BY <2>1 DEF Becomes, Live, TypeOK
  <2>3. CASE RunOf(i) = r
    <3>1. runner = [pc |-> "spawned", id |-> i]
      BY <1>0, <2>1, <2>3 DEF OneWorker
    <3>. QED
      BY <1>2, <2>1, <2>3, <3>1 DEF Processing
  <2>4. CASE RunOf(i) # r
    <3>1. status[r] = "RUNNING" /\ rows'[r] = rows[r]
      <4>1. CASE WorkerVariant(i)
        BY <2>4, <4>1 DEF WorkerVariant, TypeOK
      <4>2. CASE ~WorkerVariant(i)
        BY <1>13, <2>4, <4>2 DEF WorkerStep, WorkerRunning, WorkerDone, WorkerComplete,
           WorkerExit, WorkerThrow, WorkerFail, WorkerDies, WorkerReadError, TypeOK
      <4>. QED
        BY <4>1, <4>2
    <3>. QED
      BY <1>3, <2>1, <2>2, <3>1 DEF Processing
  <2>. QED
    BY <2>3, <2>4
<1>14. Goal
  <2>1. \A c \in Clients, q \in Runs : Asks(c, q) => Goal
    BY <1>4
  <2>2. \A c \in Clients : RetryWrite(c) \/ PatchWrite(c) \/ CheckKey(c) \/ ReadStatus(c)
                            \/ Push(c) \/ ReadError(c) => Goal
    BY <1>5
  <2>3. Start \/ MarkRunning \/ MarkError \/ Spawn \/ SpawnError \/ OnExit => Goal
    BY <1>6, <1>7, <1>8, <1>9, <1>10
  <2>4. \A i \in Ids : LateFailWrite(i) \/ LateFailError(i) \/ WorkerStep(i) => Goal
    BY <1>12, <1>13
  <2>5. Crash => Goal
    BY <1>11
  <2> HIDE DEF Goal
  <2>. QED
    BY <2>1, <2>2, <2>3, <2>4, <2>5, NextCases, Zenon
<1>. QED
  BY <1>14 DEF Goal

-----------------------------------------------------------------------------
\* The only status write that yields RUNNING wants the run in flight.
LEMMA StepNeverRevives ==
  ASSUME TypeOK, IdsIssued, [Next]_vars, NEW r \in Runs, status'[r] = "RUNNING"
  PROVE  status[r] \in InFlight
BY StatusWrites DEF AfterRunning, AfterCompleted, InFlight

LEMMA InitIInv == Init => IInv
<1>1. Init => NoKeyLeak /\ OneWorker /\ WorkerTold /\ RunningIsOwned
  BY DEF Init, NoKeyLeak, OneWorker, Live, WorkerTold, RunningIsOwned, IdleRunner
<1>. QED
  BY <1>1, TypeInit, IdsInit DEF IInv

LEMMA NextIInv == IInv /\ [Next]_vars => IInv'
BY TypeStep, IdsStep, NoKeyLeakStep, OneWorkerStep, WorkerToldStep,
   RunningIsOwnedStep DEF IInv

LEMMA IInvHolds == Spec => []IInv
BY InitIInv, NextIInv, PTL DEF Spec

\* The queue, its requests and the workers stay well typed; in particular the
\* queue only ever holds requests that were made.
THEOREM TypeCorrect == Spec => []TypeOK
<1>1. IInv => TypeOK
  BY DEF IInv
<1>. QED
  BY IInvHolds, <1>1, PTL

\* Every path out of processNext gives the key back: no run is ever barred
\* from the queue by a job that is gone.
THEOREM KeysNeverLeak == Spec => []NoKeyLeak
<1>1. IInv => NoKeyLeak
  BY DEF IInv
<1>. QED
  BY IInvHolds, <1>1, PTL

\* There is never a worker beside the one the loop waits for, but for the
\* orphan of a crash, whose run is among those that were struck.
THEOREM AtMostOneWorker == Spec => []OneWorker
<1>1. IInv => OneWorker
  BY DEF IInv
<1>. QED
  BY IInvHolds, <1>1, PTL

\* A run that is RUNNING with nobody left to settle it has lost its job or its
\* FAILED write to a database error or a crash, or a worker has left it short
\* of the variants its import expects.
THEOREM RunningAlwaysOwned == Spec => []RunningIsOwned
<1>1. IInv => RunningIsOwned
  BY DEF IInv
<1>. QED
  BY IInvHolds, <1>1, PTL

\* Whatever the queue, its workers and retries do, crashes included, a run
\* that has settled is not made RUNNING.
THEOREM SettledStaysSettled == Spec => NeverRevived
<1>1. IInv /\ [Next]_vars
        => [\A r \in Runs : status'[r] = "RUNNING" => status[r] \in InFlight]_status
  BY StepNeverRevives DEF IInv
<1>. QED
  BY IInvHolds, <1>1, PTL DEF Spec, NeverRevived

-----------------------------------------------------------------------------
(* Requests that do not overlap.  What they must not do is less than to be *)
(* in progress together: two of one key must not both be between the dedup *)
(* check and the push, nor, beside a retry of the run between the read of  *)
(* FAILED and its reset, another one or a PATCH to COMPLETED.  Crashes and *)
(* database errors happen at any point.                                    *)

KeysApart ==
    \A c, d \in Clients :
      (/\ req[c].pc \in {"read", "push"} /\ req[d].pc \in {"read", "push"}
       /\ KeyOf(req[c].id) = KeyOf(req[d].id)) => c = d

RetriesApart ==
    \A c, d \in Clients :
      (/\ req[c].pc \in {"retryWrite", "patchCompleted"} /\ req[d].pc = "retryWrite"
       /\ RunOf(req[c].id) = RunOf(req[d].id)) => c = d

\* What a request has checked still is so when it acts on it.
StillFree ==
    \A c \in Clients : req[c].pc \in {"read", "push"} => KeyOf(req[c].id) \notin activeJobKeys
StillFailed ==
    \A c \in Clients : req[c].pc = "retryWrite" => status[RunOf(req[c].id)] = "FAILED"

\* Each job in the queue, and the one in the loop, holds its key ...
KeysHeld ==
    /\ \A n \in 1 .. Len(queue) : KeyOf(queue[n]) \in activeJobKeys
    /\ Processing => KeyOf(runner.id) \in activeJobKeys

\* ... and no two of these places have a job of the same key.
OncePerKey ==
    /\ \A m, n \in 1 .. Len(queue) : KeyOf(queue[m]) = KeyOf(queue[n]) => m = n
    /\ Processing => \A n \in 1 .. Len(queue) : KeyOf(queue[n]) # KeyOf(runner.id)

Sequential == StillFree /\ KeysHeld /\ OncePerKey

\* Whom a request, the queue and the loop know of, they know under one name.
LEMMA KeysKept ==
  ASSUME TypeOK, IdsIssued, Next
  PROVE  /\ \A n \in 1 .. Len(queue) : KeyOf(queue[n]) = JobKey(job'[queue[n]])
         /\ Processing => KeyOf(runner.id) = JobKey(job'[runner.id])
         /\ \A c \in Clients : req[c].pc # "idle" =>
              /\ req[c].id \in Ids /\ job'[req[c].id] = job[req[c].id]
              /\ RunOf(req[c].id) \in Runs
BY JobsFixed DEF IdsIssued, Processing, KeyOf, RunOf, Jobs

LEMMA SequentialStep ==
  ASSUME KeysApart, TypeOK, IdsIssued, Sequential, Next
  PROVE  Sequential'
<1> DEFINE K(i) == JobKey(job'[i])
<1>0. /\ \A n \in 1 .. Len(queue) : K(queue[n]) \in activeJobKeys
      /\ Processing => K(runner.id) \in activeJobKeys
      /\ \A m, n \in 1 .. Len(queue) : K(queue[m]) = K(queue[n]) => m = n
      /\ Processing => \A n \in 1 .. Len(queue) : K(queue[n]) # K(runner.id)
  BY KeysKept DEF Sequential, KeysHeld, OncePerKey
<1>1. \A c \in Clients : req[c].pc \in {"read", "push"} => K(req[c].id) \notin activeJobKeys
  BY KeysKept DEF Sequential, StillFree, KeyOf
<1>2. \A i : KeyOf(i)' = K(i)
  BY DEF KeyOf
<1> HIDE DEF K
\* Steps that let the queue, and what the loop works on, alone.
<1>3. ASSUME UNCHANGED <<queue, activeJobKeys>>, Processing' => Processing /\ runner'.id = runner.id
      PROVE  KeysHeld' /\ OncePerKey'
  BY <1>0, <1>2, <1>3 DEF KeysHeld, OncePerKey, KeyOf, K
\* Steps of a request that check nothing anew.
<1>4. ASSUME activeJobKeys' \subseteq activeJobKeys,
             \A c \in Clients : req'[c].pc \in {"read", "push"} =>
               req[c].pc \in {"read", "push"} /\ req'[c].id = req[c].id
      PROVE  StillFree'
  BY <1>1, <1>2, <1>4 DEF StillFree, KeyOf, K
<1>5. ASSUME Release(runner.id), Processing, UNCHANGED <<queue, req>>
      PROVE  Sequential'
  <2>1. activeJobKeys' = activeJobKeys \ {K(runner.id)} /\ ~Processing'
    BY <1>5, KeysKept DEF Release, Processing, IdleRunner, K
  <2>2. KeysHeld' /\ OncePerKey'
    BY <1>0, <1>5, <2>1 DEF KeysHeld, OncePerKey, KeyOf, K
  <2>. QED
    BY <1>4, <1>5, <2>1, <2>2 DEF Sequential
<1>6. ASSUME NEW c \in Clients, NEW r \in Runs, Asks(c, r) PROVE Sequential'
  <2>1. PICK a \in Assets, pc \in FirstPcs : Issue(c, r, a, pc)
    BY <1>6, AsksIssue
  <2>2. \A d \in Clients : req'[d].pc \in {"read", "push"} => req'[d] = req[d]
    BY <2>1 DEF Issue, FirstPcs, TypeOK
  <2>. QED
    BY <1>3, <1>4, <1>6, <2>2, AsksIssue DEF Sequential, Processing
<1>9. ASSUME NEW c \in Clients, RetryWrite(c) \/ PatchWrite(c) \/ ReadStatus(c) \/ ReadError(c)
      PROVE  Sequential'
  <2>1. UNCHANGED <<queue, activeJobKeys, runner>>
    BY <1>9 DEF RetryWrite, PatchWrite, ReadStatus, ReadError
  <2>2. \A d \in Clients : req'[d].pc \in {"read", "push"} =>
          req[d].pc \in {"read", "push"} /\ req'[d].id = req[d].id
    <3>1. CASE RetryWrite(c)
      BY <3>1 DEF RetryWrite, TypeOK
    <3>2. CASE ReadStatus(c)
      BY <3>2 DEF ReadStatus, TypeOK, IdleReq
    <3>3. CASE ReadError(c)
      BY <3>3 DEF ReadError, TypeOK, IdleReq
    <3>4. CASE PatchWrite(c)
      BY <3>4 DEF PatchWrite, TypeOK, IdleReq
    <3>. QED
      BY <1>9, <3>1, <3>2, <3>3, <3>4
  <2>. QED
    BY <1>3, <1>4, <2>1, <2>2 DEF Sequential, Processing
<1>10. ASSUME NEW c \in Clients, CheckKey(c) PROVE Sequential'
  <2>1. UNCHANGED <<queue, activeJobKeys, runner>>
    BY <1>10 DEF CheckKey
  <2>2. ASSUME NEW d \in Clients, req'[d].pc \in {"read", "push"}
        PROVE  K(req'[d].id) \notin activeJobKeys'
    <3>1. CASE d = c
      <4>1. req[c].pc = "enqueue" /\ KeyOf(req[c].id) = K(req[c].id)
        BY <1>10, KeysKept DEF CheckKey, KeyOf, K
      <4>2. KeyOf(req[c].id) \notin activeJobKeys /\ req'[c].id = req[c].id
        BY <1>10, <2>2, <3>1 DEF CheckKey, TypeOK, IdleReq
      <4>. QED
        BY <3>1, <4>1, <4>2, <2>1
    <3>2. CASE d # c
      BY <1>1, <1>10, <2>1, <2>2, <3>2 DEF CheckKey, TypeOK
    <3>. QED
      BY <3>1, <3>2
  <2>. QED
    BY <1>2, <1>3, <2>1, <2>2 DEF Sequential, StillFree, Processing
<1>11. ASSUME NEW c \in Clients, Push(c) PROVE Sequential'
  <2>1. PICK id \in Ids : id = req[c].id
    BY <1>11, KeysKept DEF Push
  <2>2. /\ K(id) \notin activeJobKeys /\ activeJobKeys' = activeJobKeys \cup {K(id)}
        /\ queue' = Append(queue, id) /\ queue \in Seq(Ids) /\ UNCHANGED runner
    BY <1>1, <1>11, <2>1, KeysKept DEF Push, KeyOf, K, TypeOK
  <2>3. \A n \in 1 .. Len(queue') : \/ n \in 1 .. Len(queue) /\ queue'[n] = queue[n]
                                    \/ n = Len(queue) + 1 /\ queue'[n] = id
    BY <2>2, QueueAppend
  <2>4. \A m, n \in 1 .. Len(queue') : K(queue'[m]) = K(queue'[n]) => m = n
    BY <1>0, <2>2, <2>3
  <2>5. /\ \A n \in 1 .. Len(queue') : K(queue'[n]) \in activeJobKeys'
        /\ Processing' => K(runner'.id) \in activeJobKeys'
        /\ Processing' => \A n \in 1 .. Len(queue') : K(queue'[n]) # K(runner'.id)
    BY <1>0, <2>2, <2>3 DEF Processing
  <2>6. ASSUME NEW d \in Clients, req'[d].pc \in {"read", "push"}
        PROVE  K(req'[d].id) \notin activeJobKeys'
    <3>1. d # c /\ req'[d] = req[d]
      BY <1>11, <2>6 DEF Push, TypeOK, IdleReq
    <3>2. KeyOf(req[d].id) # KeyOf(req[c].id)
      BY <1>11, <2>6, <3>1 DEF KeysApart, Push
    <3>3. K(req[d].id) # K(id)
      BY <1>11, <2>1, <2>6, <3>1, <3>2, KeysKept DEF KeyOf, K, Push
    <3>. QED
      BY <1>1, <2>2, <2>6, <3>1, <3>3
  <2>. QED
    BY <1>2, <2>2, <2>4, <2>5, <2>6 DEF Sequential, StillFree, KeysHeld, OncePerKey
<1>12. CASE Start
  <2>1. /\ runner'.id = Head(queue) /\ queue \in Seq(Ids) /\ queue # <<>> /\ queue' = Tail(queue)
        /\ UNCHANGED <<activeJobKeys, req>>
    BY <1>12 DEF Start, TypeOK
  <2>2. /\ runner'.id = queue[1] /\ 1 \in 1 .. Len(queue)
        /\ \A n \in 1 .. Len(queue') : n \in Nat /\ n # 0 /\ n + 1 \in 1 .. Len(queue) /\ queue'[n] = queue[n + 1]
    BY <2>1, QueueTail
  <2>3. /\ \A m, n \in 1 .. Len(queue') : K(queue'[m]) = K(queue'[n]) => m = n
        /\ \A n \in 1 .. Len(queue') : K(queue'[n]) # K(runner'.id)
    BY <1>0, <2>2
  <2>4. /\ \A n \in 1 .. Len(queue') : K(queue'[n]) \in activeJobKeys'
        /\ K(runner'.id) \in activeJobKeys'
    BY <1>0, <2>1, <2>2
  <2>. QED
    BY <1>2, <1>4, <2>1, <2>3, <2>4 DEF Sequential, KeysHeld, OncePerKey
<1>13. CASE MarkRunning \/ Spawn
  BY <1>3, <1>4, <1>13 DEF MarkRunning, Spawn, Processing, TypeOK, Sequential
<1>14. CASE MarkError \/ SpawnError \/ OnExit
  BY <1>5, <1>14 DEF MarkError, SpawnError, OnExit, Processing
<1>15. ASSUME NEW i \in Ids, LateFailWrite(i) \/ LateFailError(i) \/ WorkerStep(i)
       PROVE  Sequential'
  <2>1. UNCHANGED <<req, queue, activeJobKeys, runner>>
    BY <1>15, WorkerFrame DEF LateFailWrite, LateFailError
  <2>. QED
    BY <1>3, <1>4, <2>1 DEF Sequential, Processing
<1>16. CASE Crash
  BY <1>16 DEF Crash, IdleReq, IdleRunner, Sequential, StillFree, KeysHeld, OncePerKey, Processing
<1>. QED
  BY <1>6, <1>9, <1>10, <1>11, <1>12, <1>13, <1>14, <1>15, <1>16, NextCases, Zenon

\* Only a retry or a PATCH to COMPLETED takes a run out of FAILED, and there is
\* no other one of it.
LEMMA StillFailedStep ==
  ASSUME RetriesApart, TypeOK, IdsIssued, StillFailed, Next
  PROVE  StillFailed'
<1> SUFFICES ASSUME NEW d \in Clients, req'[d].pc = "retryWrite"
             PROVE  status'[job'[req'[d].id].run] = "FAILED"
  BY DEF StillFailed, RunOf
\* A retry that was in progress: nobody else takes the run out of FAILED.
<1>1. CASE req'[d] = req[d]
  <2>1. /\ RunOf(req[d].id) \in Runs /\ status[RunOf(req[d].id)] = "FAILED"
        /\ job'[req'[d].id].run = RunOf(req[d].id)
    BY <1>1, KeysKept DEF StillFailed, RunOf
  <2>2. ASSUME NEW c \in Clients, RetryWrite(c), RunOf(req[c].id) = RunOf(req[d].id) PROVE FALSE
    <3>1. c = d
      BY <1>1, <2>2 DEF RetriesApart, RetryWrite
    <3>2. req'[c].pc = "enqueue"
      BY <2>2 DEF RetryWrite, TypeOK
    <3>. QED
      BY <3>1, <3>2
  <2>3. ASSUME NEW c \in Clients, PatchWrite(c), req[c].pc = "patchCompleted",
               RunOf(req[c].id) = RunOf(req[d].id)
        PROVE  FALSE
    <3>1. c = d
      BY <1>1, <2>3 DEF RetriesApart
    <3>. QED
      BY <1>1, <2>3, <3>1
  <2>. QED
    BY <2>1, <2>2, <2>3, StatusWrites DEF AfterRunning, AfterCompleted, InFlight
\* One that begins: it has just read FAILED.
<1>2. ASSUME NEW c \in Clients, NEW r \in Runs, Asks(c, r)
      PROVE  req'[d] = req[d] \/ status'[job'[req'[d].id].run] = "FAILED"
  <2>1. PICK a \in Assets, pc \in FirstPcs :
           Issue(c, r, a, pc) /\ (pc = "retryWrite" => status[r] = "FAILED")
    BY <1>2, AsksIssue
  <2>2. /\ issued + 1 \in Ids /\ job' = [job EXCEPT ![issued + 1] = [run |-> r, asset |-> a]]
        /\ req' = [req EXCEPT ![c] = [pc |-> pc, id |-> issued + 1]]
        /\ UNCHANGED status
    BY <1>2, <2>1, AsksIssue DEF Issue, TypeOK, Ids
  <2>3. CASE c = d
    <3>1. req'[d].id = issued + 1 /\ req'[d].pc = pc
      BY <2>2, <2>3 DEF TypeOK
    <3>2. job'[issued + 1].run = r
      BY <2>2 DEF TypeOK
    <3>. QED
      BY <2>1, <2>2, <3>1, <3>2
  <2>4. CASE c # d
    BY <2>2, <2>4 DEF TypeOK
  <2>. QED
    BY <2>3, <2>4
<1>5. ASSUME NEW c \in Clients,
             RetryWrite(c) \/ PatchWrite(c) \/ CheckKey(c) \/ ReadStatus(c) \/ Push(c)
               \/ ReadError(c)
      PROVE  req'[d] = req[d]
  BY <1>5 DEF RetryWrite, PatchWrite, CheckKey, ReadStatus, Push, ReadError, TypeOK, IdleReq
<1>6. Start \/ MarkRunning \/ MarkError \/ Spawn \/ SpawnError \/ OnExit => UNCHANGED req
  BY DEF Start, MarkRunning, MarkError, Spawn, SpawnError, OnExit
<1>7. ASSUME NEW i \in Ids, LateFailWrite(i) \/ LateFailError(i) \/ WorkerStep(i)
      PROVE  UNCHANGED req
  BY <1>7, WorkerFrame DEF LateFailWrite, LateFailError
<1>8. ~Crash
  BY DEF Crash, IdleReq
<1> DEFINE Goal == req'[d] = req[d] \/ status'[job'[req'[d].id].run] = "FAILED"
<1>9. Goal
  <2>1. \A c \in Clients, r \in Runs : Asks(c, r) => Goal
    BY <1>2
  <2>2. \A c \in Clients : RetryWrite(c) \/ PatchWrite(c) \/ CheckKey(c) \/ ReadStatus(c)
                           \/ Push(c) \/ ReadError(c) => Goal
    BY <1>5
  <2>3. Start \/ MarkRunning \/ MarkError \/ Spawn \/ SpawnError \/ OnExit => Goal
    BY <1>6
  <2>4. \A i \in Ids : LateFailWrite(i) \/ LateFailError(i) \/ WorkerStep(i) => Goal
    BY <1>7
  <2> HIDE DEF Goal
  <2>. QED
    BY <1>8, <2>1, <2>2, <2>3, <2>4, NextCases, Zenon
<1>. QED
  BY <1>1, <1>9

LEMMA SequentialHolds == Spec /\ []KeysApart => []Sequential
<1>1. Init => Sequential
  BY DEF Init, Sequential, StillFree, KeysHeld, OncePerKey, IdleReq, IdleRunner, Processing
<1>2. IInv /\ KeysApart /\ Sequential /\ [Next]_vars => Sequential'
  <2>1. CASE UNCHANGED vars
    BY <2>1 DEF vars, Sequential, StillFree, KeysHeld, OncePerKey, Processing, KeyOf
  <2>2. CASE Next
    BY <2>2, SequentialStep DEF IInv
  <2>. QED
    BY <2>1, <2>2
<1>. QED
  BY <1>1, <1>2, IInvHolds, PTL DEF Spec

LEMMA StillFailedHolds == Spec /\ []RetriesApart => []StillFailed
<1>1. Init => StillFailed
  BY DEF Init, StillFailed, IdleReq
<1>2. IInv /\ RetriesApart /\ StillFailed /\ [Next]_vars => StillFailed'
  <2>1. CASE UNCHANGED vars
    BY <2>1 DEF vars, StillFailed, RunOf
  <2>2. CASE Next
    BY <2>2, StillFailedStep DEF IInv
  <2>. QED
    BY <2>1, <2>2
<1>. QED
  BY <1>1, <1>2, IInvHolds, PTL DEF Spec

\* Unless two requests of one key are between the dedup check and the push
\* together, the queue and the loop never hold a second job of that key,
\* through crashes, failed spawns and database errors: what the check missed
\* is all that can go wrong.
THEOREM OneJobPerKey == Spec /\ []KeysApart => []NoDuplicateJob
<1>1. IInv /\ Sequential => NoDuplicateJob
  BY DEF IInv, Sequential, OncePerKey, NoDuplicateJob, Active, Queued, Running
<1>. QED
  BY <1>1, SequentialHolds, IInvHolds, PTL

\* Unless another retry or a PATCH to COMPLETED of the run gets between the read
\* of a retry and its reset, every run implements RunLifecycle: the reset finds
\* the run as FAILED as the retry has read it, crashes, stale PATCHes to FAILED
\* and late writes of the worker or of onExit included.
THEOREM RunsFollowLifecycle == Spec /\ []RetriesApart => FollowsLifecycle
<1> DEFINE Followed == \A r \in Runs : [Life(r)!Next]_(status[r])
<1>1. Init => \A r \in Runs : Life(r)!Init
  BY DEF Init, Life!Init
<1>2. ASSUME IInv, StillFailed, [Next]_vars, NEW r \in Runs
      PROVE  [Life(r)!Next]_(status[r])
  <2>1. status[r] \in Statuses
    BY <1>2 DEF IInv, TypeOK
  <2>2. CASE status'[r] \in {status[r], AfterRunning(status[r]), AfterCompleted(status[r]), "FAILED"}
    BY <2>1, <2>2 DEF AfterRunning, AfterCompleted, InFlight, Statuses, Life!Next, Life!Start,
       Life!Complete, Life!Fail
  <2>3. CASE \E c \in Clients : RetryWrite(c) /\ RunOf(req[c].id) = r /\ status'[r] = "PENDING"
    <3>1. status[r] = "FAILED"
      BY <2>3, <1>2 DEF RetryWrite, StillFailed
    <3>. QED
      BY <2>3, <3>1 DEF Life!Next, Life!Retry
  <2>4. CASE status'[r] = "COMPLETED"
    BY <2>1, <2>4 DEF Statuses, Life!Next, Life!Complete, Life!Amend
  <2>. QED
    BY <2>2, <2>3, <2>4, <1>2, StatusWrites DEF IInv
<1>3. IInv /\ StillFailed /\ [Next]_vars => [Followed]_status
  BY <1>2
<1>. QED
  BY <1>1, <1>3, StillFailedHolds, IInvHolds, PTL DEF Spec, FollowsLifecycle

\* With one request at a time, as run_queue_sequential has it, both hold.
COROLLARY OneRequestAtATime ==
  ASSUME \A c, d \in Clients : c = d
  PROVE  Spec => []NoDuplicateJob /\ FollowsLifecycle
<1>1. KeysApart
  BY Zenon DEF KeysApart
<1>2. RetriesApart
  BY Zenon DEF RetriesApart
<1>. QED
  BY <1>1, <1>2, OneJobPerKey, RunsFollowLifecycle, PTL
-----------------------------------------------------------------------------
(* One run's row, and the handlers that update it (RunRow), for any set of *)
(* concurrent handlers and any bound on the clock.  AuditConsistent is     *)
(* inductive together with RowTypeOK: each update writes status,           *)
(* completedAt, failedAt and lastError as one row, so it needs to know     *)
(* nothing of what the handler read except its type.                       *)

USE TimeAssumption, NullAssumption

RowInv == RowTypeOK /\ AuditConsistent

\* startedAt is never null in what `seen.startedAt ?? now` yields.
LEMMA OrElseType ==
  ASSUME NEW S, NEW a \in S \cup {Null}, NEW b \in S, Null \notin S
  PROVE  OrElse(a, b) \in S
BY DEF OrElse

LEMMA TimesNotNull == Null \notin Times
BY DEF Times

\* What a handler carries from its read to its write.
LEMMA RowCallType ==
  ASSUME RowTypeOK, NEW c \in Handlers, call[c] # NoCall
  PROVE  /\ call[c].op \in Ops
         /\ call[c].seen \in Rows
         /\ call[c].at \in Times
         /\ call[c].err \in {"given", Null}
BY DEF RowTypeOK, Calls

\* Every update leaves a well-typed row whose audit columns match its status.
LEMMA UpdatedAudit ==
  ASSUME RowInv, NEW c \in Handlers, call[c] # NoCall,
         NEW r, r = Updated(row, call[c], now)
  PROVE  /\ r \in Rows
         /\ r.status = "COMPLETED" <=> r.completedAt # Null
         /\ r.status = "FAILED" <=> r.failedAt # Null
         /\ r.status = "FAILED" <=> r.lastError # Null
         /\ r.status # "PENDING" => r.startedAt # Null
<1> DEFINE k == call[c]
           started == OrElse(k.seen.startedAt, k.at)
           startedNow == OrElse(k.seen.startedAt, now)
<1>1. /\ k.op \in Ops /\ k.seen \in Rows /\ k.at \in Times
      /\ k.err \in {"given", Null}
      /\ now \in Times /\ row \in Rows
  BY RowCallType DEF RowInv, RowTypeOK
<1>2. /\ k.seen.startedAt \in Times \cup {Null}
      /\ k.seen.completedAt \in Times \cup {Null}
      /\ k.seen.failedAt \in Times \cup {Null}
      /\ k.seen.lastError \in Messages \cup {Null}
  BY <1>1 DEF Rows
<1>3. started \in Times /\ startedNow \in Times
  BY <1>1, <1>2, OrElseType, TimesNotNull
<1>4. /\ OrElse(k.seen.completedAt, now) \in Times
      /\ OrElse(k.seen.failedAt, now) \in Times
  BY <1>1, <1>2, OrElseType, TimesNotNull
<1>5. /\ OrElse(k.err, "unknown") \in Messages
      /\ OrElse(k.err, OrElse(k.seen.lastError, "unknown")) \in Messages
  BY <1>1, <1>2 DEF OrElse, Messages
<1> HIDE DEF k, started, startedNow
<1>a. CASE k.op = "SET_RUNNING"
  <2>1. r = SetRunning(row, k.seen, k.at)
    BY <1>a DEF Updated, k
  <2>. QED
    BY <2>1, <1>1, <1>3, TimesNotNull
    DEF SetRunning, RowInv, AuditConsistent, Rows, Statuses, InFlight, started
<1>b. CASE k.op = "SET_COMPLETED"
  <2>1. r = SetCompleted(row, k.seen, k.at)
    BY <1>b DEF Updated, k
  <2>. QED
    BY <2>1, <1>1, <1>3, TimesNotNull
    DEF SetCompleted, RowInv, AuditConsistent, Rows, Statuses, InFlight, started
<1>c. CASE k.op = "SET_FAILED"
  <2>1. r = SetFailed(row, k.seen, k.at, k.err)
    BY <1>c DEF Updated, k
  <2>2. /\ r = [row EXCEPT !.status = "FAILED", !.failedAt = k.at,
                           !.completedAt = Null, !.startedAt = started,
                           !.lastError = OrElse(k.err, "unknown")]
        /\ k.at # Null /\ OrElse(k.err, "unknown") # Null /\ started # Null
    BY <2>1, <1>1, <1>3, <1>5, TimesNotNull DEF SetFailed, AfterFailed, started
  <2>. QED
    BY <2>2, <1>1, <1>3, <1>5 DEF Rows, Statuses
<1>d. CASE k.op = "PATCH_COMPLETED"
  <2>1. r = PatchCompleted(row, k.seen, now)
    BY <1>d DEF Updated, k
  <2>2. /\ r = [row EXCEPT !.status = "COMPLETED", !.failedAt = Null,
                           !.completedAt = OrElse(k.seen.completedAt, now),
                           !.startedAt = startedNow, !.lastError = Null]
        /\ OrElse(k.seen.completedAt, now) # Null /\ startedNow # Null
    BY <2>1, <1>1, <1>3, <1>4, TimesNotNull DEF PatchCompleted, startedNow
  <2>. QED
    BY <2>2, <1>1, <1>3, <1>4 DEF Rows, Statuses
<1>e. CASE k.op = "PATCH_FAILED"
  <2>1. r = PatchFailed(row, k.seen, now, k.err)
    BY <1>e DEF Updated, k
  <2> DEFINE err == OrElse(k.err, OrElse(k.seen.lastError, "unknown"))
  <2>2. /\ r = [row EXCEPT !.status = "FAILED", !.completedAt = Null,
                           !.failedAt = OrElse(k.seen.failedAt, now),
                           !.startedAt = startedNow, !.lastError = err]
        /\ OrElse(k.seen.failedAt, now) # Null /\ startedNow # Null /\ err # Null
    BY <2>1, <1>1, <1>3, <1>4, <1>5, TimesNotNull DEF PatchFailed, startedNow
  <2> HIDE DEF err
  <2>. QED
    BY <2>2, <1>1, <1>3, <1>4, <1>5 DEF Rows, Statuses, err
<1>f. CASE k.op = "RETRY"
  <2>1. r = Retried(row)
    BY <1>f DEF Updated, k
  <2>. QED
    BY <2>1, <1>1 DEF Retried, AfterRetry, Rows, Statuses
<1>. QED
  BY <1>1, <1>a, <1>b, <1>c, <1>d, <1>e, <1>f DEF Ops, SetOps, PatchOps

-----------------------------------------------------------------------------
LEMMA RowInitInv == RowInit => RowInv
BY DEF RowInit, RowInv, RowTypeOK, AuditConsistent, Rows, Statuses, Times, Calls

LEMMA RowNextInv == RowInv /\ [RowNext]_rowVars => RowInv'
<1> SUFFICES ASSUME RowInv, [RowNext]_rowVars PROVE RowInv'
  OBVIOUS
<1>1. ASSUME NEW c \in Handlers, NEW op \in Ops, NEW err \in {"given", Null},
             Read(c, op, err)
      PROVE  RowInv'
  BY <1>1 DEF Read, RowInv, RowTypeOK, AuditConsistent, Calls
<1>2. ASSUME NEW c \in Handlers, Write(c) PROVE RowInv'
  <2>1. /\ row' \in Rows
        /\ row'.status = "COMPLETED" <=> row'.completedAt # Null
        /\ row'.status = "FAILED" <=> row'.failedAt # Null
        /\ row'.status = "FAILED" <=> row'.lastError # Null
        /\ row'.status # "PENDING" => row'.startedAt # Null
    BY <1>2, UpdatedAudit DEF Write
  <2>2. now' \in Times /\ call' \in [Handlers -> Calls]
    BY <1>2 DEF Write, RowInv, RowTypeOK, Calls
  <2>. QED
    BY <2>1, <2>2 DEF RowInv, RowTypeOK, AuditConsistent
<1>3. CASE Tick
  BY <1>3 DEF Tick, RowInv, RowTypeOK, AuditConsistent, Times
<1>4. CASE UNCHANGED rowVars
  BY <1>4 DEF rowVars, RowInv, RowTypeOK, AuditConsistent
<1>. QED
  BY <1>1, <1>2, <1>3, <1>4 DEF RowNext

\* The state of the row and of the handlers stays well typed.
THEOREM RowTypeCorrect == RowSpec => []RowTypeOK
<1>1. RowInv => RowTypeOK
  BY DEF RowInv
<1>. QED
  BY RowInitInv, RowNextInv, <1>1, PTL DEF RowSpec

\* However setRunStatus, PATCH and retry interleave, with reads as stale as
\* they may be, the audit columns of the run tell its status.
THEOREM RowAuditAlwaysConsistent == RowSpec => []AuditConsistent
<1>1. RowInv => AuditConsistent
  BY DEF RowInv
<1>. QED
  BY RowInitInv, RowNextInv, <1>1, PTL DEF RowSpec

\* A step that makes the run RUNNING finds it PENDING or RUNNING.
LEMMA RowStepNeverRevives ==
  ASSUME RowInv, [RowNext]_rowVars
  PROVE  [row'.status = "RUNNING" => row.status \in InFlight]_row
<1>1. ASSUME NEW c \in Handlers, Write(c), row'.status = "RUNNING"
      PROVE  row.status \in InFlight
  <2>1. call[c].op \in Ops /\ row \in Rows
    BY <1>1, RowCallType DEF Write, RowInv, RowTypeOK
  <2>2. row' = Updated(row, call[c], now)
    BY <1>1 DEF Write
  <2>3. CASE call[c].op = "SET_RUNNING"
    <3>1. row' = SetRunning(row, call[c].seen, call[c].at)
      BY <2>2, <2>3 DEF Updated
    <3>. QED
      BY <3>1, <1>1 DEF SetRunning, InFlight
  <2>4. CASE call[c].op = "SET_COMPLETED"
    <3>1. row' = SetCompleted(row, call[c].seen, call[c].at)
      BY <2>2, <2>4 DEF Updated
    <3>. QED
      BY <3>1, <2>1, <1>1 DEF SetCompleted, InFlight, Rows
  <2>5. CASE call[c].op \notin {"SET_RUNNING", "SET_COMPLETED"}
    BY <2>1, <2>2, <2>5, <1>1
    DEF Updated, Ops, SetOps, PatchOps, SetFailed, PatchCompleted, PatchFailed,
        Retried, AfterFailed, AfterRetry, Rows
  <2>. QED
    BY <2>3, <2>4, <2>5
<1>2. ASSUME NEW c \in Handlers, NEW op \in Ops, NEW err \in {"given", Null},
             Read(c, op, err)
      PROVE  UNCHANGED row
  BY <1>2 DEF Read
<1>3. Tick \/ UNCHANGED rowVars => UNCHANGED row
  BY DEF Tick, rowVars
<1>. QED
  BY <1>1, <1>2, <1>3 DEF RowNext

\* No interleaving revives a settled run: the status guard is in the update.
THEOREM RowSettledStaysSettled == RowSpec => RowNeverRevived
BY RowInitInv, RowNextInv, RowStepNeverRevives, PTL DEF RowSpec, RowNeverRevived

-----------------------------------------------------------------------------
(* The lifecycle.  The row tells nothing of what a handler in progress was *)
(* allowed to see: a retry that has read has read a FAILED run, and that   *)
(* it still is one when it writes is what "fresh" means.                   *)

RetriesSawFailed ==
  \A c \in Handlers : call[c] # NoCall /\ call[c].op = "RETRY" => call[c].seen.status = "FAILED"

LEMMA RetriesInit == RowInit => RetriesSawFailed
BY DEF RowInit, RetriesSawFailed

LEMMA RetriesStep == RowInv /\ RetriesSawFailed /\ [RowNext]_rowVars => RetriesSawFailed'
<1> SUFFICES ASSUME RowInv, RetriesSawFailed, [RowNext]_rowVars PROVE RetriesSawFailed'
  OBVIOUS
<1>0. call \in [Handlers -> Calls]
  BY DEF RowInv, RowTypeOK
<1>1. ASSUME NEW c \in Handlers, NEW op \in Ops, NEW err \in {"given", Null},
             Read(c, op, err)
      PROVE  RetriesSawFailed'
  BY <1>1, <1>0 DEF Read, Allowed, RetriesSawFailed
<1>2. ASSUME NEW c \in Handlers, Write(c) PROVE RetriesSawFailed'
  BY <1>2, <1>0 DEF Write, RetriesSawFailed
<1>3. Tick \/ UNCHANGED rowVars => RetriesSawFailed'
  BY DEF Tick, rowVars, RetriesSawFailed
<1>. QED
  BY <1>1, <1>2, <1>3 DEF RowNext

\* A null column that is kept as read is kept: seen is the row itself.
LEMMA ColumnKept ==
  ASSUME NEW a, NEW b, a # Null
  PROVE  OrElse(a, b) = a
BY DEF OrElse

\* The update of a handler whose read is current.
LEMMA RowFreshWrite ==
  ASSUME RowInv, RetriesSawFailed, NEW c \in Handlers, Write(c), call[c].seen = row
  PROVE  /\ RowLife!Next \/ UNCHANGED row.status
         /\ ~Repeated(c) \/ Unmoved(c)
<1> DEFINE k == call[c]
<1>1. /\ k.op \in Ops /\ k.seen = row /\ row \in Rows /\ k.err \in {"given", Null}
      /\ row' = Updated(row, k, now)
  BY RowCallType DEF Write, RowInv, RowTypeOK
<1>2. k.op = "RETRY" => row.status = "FAILED"
  BY DEF Write, RetriesSawFailed
<1>3. row.status \in Statuses
  BY <1>1 DEF Rows
<1> HIDE DEF k
<1>a. CASE k.op = "SET_RUNNING"
  <2>1. row' = SetRunning(row, k.seen, k.at)
    BY <1>1, <1>a DEF Updated
  <2>2. row'.status = IF row.status \in InFlight THEN "RUNNING" ELSE row.status
    BY <2>1, <1>1 DEF SetRunning, Rows
  <2>. QED
    BY <2>2, <1>a DEF InFlight, RowLife!Next, RowLife!Start, Repeated, k
<1>b. CASE k.op = "SET_COMPLETED"
  <2>1. row' = SetCompleted(row, k.seen, k.at)
    BY <1>1, <1>b DEF Updated
  <2>2. row'.status = IF row.status \in InFlight THEN "COMPLETED" ELSE row.status
    BY <2>1, <1>1 DEF SetCompleted, Rows
  <2>. QED
    BY <2>2, <1>b DEF InFlight, RowLife!Next, RowLife!Complete, Repeated, k
<1>c. CASE k.op = "SET_FAILED"
  <2>1. row' = SetFailed(row, k.seen, k.at, k.err)
    BY <1>1, <1>c DEF Updated
  <2>2. row'.status = "FAILED"
    BY <2>1, <1>1 DEF SetFailed, AfterFailed, Rows
  <2>. QED
    BY <2>2, <1>c DEF RowLife!Next, RowLife!Fail, Repeated, k
<1>d. CASE k.op = "PATCH_COMPLETED"
  <2>1. row' = PatchCompleted(row, row, now)
    BY <1>1, <1>d DEF Updated
  <2>2. row'.status = "COMPLETED"
    BY <2>1, <1>1 DEF PatchCompleted, Rows
  <2>3. row.status = "COMPLETED" => row' = row
    <3>1. SUFFICES ASSUME row.status = "COMPLETED" PROVE row' = row
      OBVIOUS
    <3>2. /\ row.completedAt # Null /\ row.startedAt # Null
          /\ row.failedAt = Null /\ row.lastError = Null
      BY <3>1 DEF RowInv, AuditConsistent
    <3>3. row' = [row EXCEPT !.status = row.status, !.completedAt = row.completedAt,
                             !.failedAt = row.failedAt, !.lastError = row.lastError,
                             !.startedAt = row.startedAt]
      BY <2>1, <3>1, <3>2, ColumnKept DEF PatchCompleted
    <3>. QED
      BY <3>3, <1>1 DEF Rows
  <2>. QED
    BY <2>2, <2>3, <1>3, <1>d
    DEF Statuses, RowLife!Next, RowLife!Complete, RowLife!Amend, Repeated, Unmoved, k
<1>e. CASE k.op = "PATCH_FAILED"
  <2>1. row' = PatchFailed(row, row, now, k.err)
    BY <1>1, <1>e DEF Updated
  <2>2. row'.status = "FAILED"
    BY <2>1, <1>1 DEF PatchFailed, Rows
  <2>3. ASSUME row.status = "FAILED" PROVE Unmoved(c)
    <3>2. /\ row.completedAt = Null /\ row.startedAt # Null
          /\ row.failedAt # Null /\ row.lastError # Null
      BY <2>3 DEF RowInv, AuditConsistent
    <3>3. row' = [row EXCEPT !.status = row.status, !.failedAt = row.failedAt,
                             !.completedAt = row.completedAt,
                             !.lastError = OrElse(k.err, row.lastError),
                             !.startedAt = row.startedAt]
      BY <2>1, <2>3, <3>2, ColumnKept DEF PatchFailed
    <3>4. row' = [row EXCEPT !.lastError = OrElse(k.err, row.lastError)]
      BY <3>3, <1>1 DEF Rows
    <3>5. row'.lastError = OrElse(k.err, row.lastError)
      BY <3>4, <1>1 DEF Rows
    <3>6. CASE k.err = Null
      <4>1. row' = [row EXCEPT !.lastError = row.lastError]
        BY <3>4, <3>6 DEF OrElse
      <4>. QED
        BY <4>1, <1>1 DEF Rows, Unmoved
    <3>. QED
      BY <3>4, <3>5, <3>6 DEF Unmoved, k
  <2>. QED
    BY <2>2, <2>3, <1>e DEF RowLife!Next, RowLife!Fail, Repeated, k
<1>f. CASE k.op = "RETRY"
  <2>1. row' = Retried(row)
    BY <1>1, <1>f DEF Updated
  <2>2. row'.status = AfterRetry(row.status)
    BY <2>1, <1>1 DEF Retried, Rows
  <2>. QED
    BY <2>2, <1>2, <1>f DEF AfterRetry, RowLife!Next, RowLife!Retry, Repeated, k
<1>. QED
  BY <1>1, <1>a, <1>b, <1>c, <1>d, <1>e, <1>f DEF Ops, SetOps, PatchOps

\* A handler that writes what it read itself, undisturbed, makes a transition
\* of the lifecycle the doc comments describe (or none), and a repeated PATCH
\* leaves completedAt, failedAt and startedAt as they were.
THEOREM RowFreshHandlersFollowLifecycle == RowSpec => FreshWritesFollowLifecycle
<1> DEFINE Followed(c) == Fresh(c) => /\ RowLife!Next \/ UNCHANGED row.status
                                      /\ ~Repeated(c) \/ Unmoved(c)
<1>1. ASSUME RowInv, RetriesSawFailed, [RowNext]_rowVars, NEW c \in Handlers, Fresh(c)
      PROVE  Followed(c)
  <2>0. call \in [Handlers -> Calls]
    BY <1>1 DEF RowInv, RowTypeOK
  <2>1. ASSUME NEW d \in Handlers, NEW op \in Ops, NEW err \in {"given", Null},
               Read(d, op, err)
        PROVE  FALSE
    BY <2>0, <2>1, <1>1 DEF Read, Fresh, Writes, NoCall
  <2>2. ASSUME NEW d \in Handlers, Write(d) PROVE d = c
    BY <2>0, <2>2, <1>1 DEF Write, Fresh, Writes
  <2>3. ~(Tick \/ UNCHANGED rowVars)
    BY <1>1 DEF Tick, rowVars, Fresh, Writes
  <2>4. Write(c)
    BY <2>1, <2>2, <2>3, <1>1 DEF RowNext
  <2>. QED
    BY <2>4, <1>1, RowFreshWrite DEF Fresh
<1>2. RowInv /\ RetriesSawFailed /\ [RowNext]_rowVars => [\A c \in Handlers : Followed(c)]_rowVars
  BY <1>1
<1>3. RowInv /\ RetriesSawFailed /\ [RowNext]_rowVars => (RowInv /\ RetriesSawFailed)'
  BY RowNextInv, RetriesStep
<1>4. RowInit => RowInv /\ RetriesSawFailed
  BY RowInitInv, RetriesInit
<1>. QED
  BY <1>2, <1>3, <1>4, PTL DEF RowSpec, FreshWritesFollowLifecycle
=============================================================================
