------------------------------- MODULE SyncRuns -------------------------------
(***************************************************************************)
(* Sync runs, from the request to the last write                           *)
(* (apps/api/src/sync-runs/sync-runs.service.ts, jobs/jobs.service.ts and  *)
(* workers/sync-run.processor.ts).                                         *)
(*                                                                         *)
(* In QUEUE_MODE=async a request writes a QUEUED run and a QUEUED          *)
(* background job and adds a BullMQ job; a worker process takes it and     *)
(* calls processQueuedSyncRun.  In QUEUE_MODE=sync the API request itself  *)
(* runs executeSyncRunNow.  Both go through processRunRecords.             *)
(*                                                                         *)
(* An executor is a worker process (async: BullMQ's default concurrency is *)
(* one job per worker) or a request being served (sync).  One step is the  *)
(* code between two awaited calls that matter: each write to PostgreSQL is *)
(* a step of its own.  A call that rejects and a process that dies each    *)
(* take one of MaxFaults faults.  The transaction, the audit rows and      *)
(* lastRunAt are not state here: the code has no transaction, and audit    *)
(* writes matter only because they may throw.                              *)
(***************************************************************************)
EXTENDS CursorOps, Sequences, FiniteSets

CONSTANTS
  Runs,          \* sync runs that may be requested
  Pipelines,
  Incremental,   \* the pipelines with incrementalMode
  Executors,     \* worker processes, or concurrent API requests
  Payloads,      \* the record lists a request may carry
  IgnoreCursor,  \* the values of ignoreCursor a request may carry
  QueueMode,     \* "async" or "sync"
  MaxAttempts,   \* BULLMQ_DEFAULT_ATTEMPTS
  MaxStalled,    \* BullMQ's maxStalledCount
  MaxFaults,     \* bound on failed calls and crashes
  NoRun

\* A record is what processRunRecords tells apart: its cursor candidate and
\* whether the mapping transforms it without errors.
Records == [candidate : Cursors, valid : BOOLEAN]

ASSUME PayloadsAssumption == Payloads \subseteq Seq(Records)
ASSUME ConstantsAssumption ==
  /\ Incremental \subseteq Pipelines
  /\ IgnoreCursor \subseteq BOOLEAN
  /\ QueueMode \in {"async", "sync"}
  /\ MaxAttempts \in Nat \ {0}
  /\ MaxStalled \in Nat
  /\ MaxFaults \in Nat
  /\ NoRun \notin Runs

VARIABLES
  request,     \* request[r]: the pipeline, records and ignoreCursor of run r
  api,         \* api[r]: how far queueSyncRun got for run r
  run,         \* run[r]: the SyncRun row
  job,         \* job[r]: the status of the BackgroundJob row
  bull,        \* bull[r]: the BullMQ job in Redis
  ex,          \* ex[w]: program counter and locals of executor w
  rows,        \* rows[r][i]: SyncedRecord rows of run r for its i-th record
  cursor,      \* cursor[p]: SyncPipeline.cursorJson
  faults,      \* faults so far
  deliveries,  \* history: executions of run r started
  moved        \* history: runs that have written their pipeline's cursor

vars == <<request, api, run, job, bull, ex, rows, cursor, faults, deliveries, moved>>

Async == QueueMode = "async"

Requests == [pipeline : Pipelines, records : Payloads, ignoreCursor : IgnoreCursor]
RunStatus == {"none", "QUEUED", "RUNNING", "SUCCESS", "FAILED"}
JobStatus == {"none", "QUEUED", "PROCESSING", "COMPLETED", "FAILED"}
ApiSteps == {"idle", "runCreated", "jobCreated", "done", "failed"}
BullStates == {"absent", "waiting", "active", "delayed", "completed", "failed"}
PCs == {"idle", "load", "createRun", "markJob", "markRun", "begin", "records",
        "finishRun", "finishJob", "report", "catchRun", "catchJob", "rethrow"}

Positions(r) == DOMAIN request[r].records
Record(r, i) == request[r].records[i]
PipelineOf(r) == request[r].pipeline

\* The row's columns; the counters are written by the final update only.
SyncRunRows == [status : RunStatus, received : Nat, processed : Nat, failed : Nat]
BullJobs == [state : BullStates, made : Nat, stalled : Nat]

NewRun(status) == [status |-> status, received |-> 0, processed |-> 0, failed |-> 0]
NoJob == [state |-> "absent", made |-> 0, stalled |-> 0]

\* pc and locals: base is the cursor in the pipeline row that was read, left
\* the eligible positions still to process.
Idle == [pc |-> "idle", run |-> NoRun, base |-> NoCursor, left |-> {},
         created |-> 0, failed |-> 0, maxCursor |-> NoCursor]

\* Only an incremental pipeline filters, and only when not told to ignore.
AppliesCursor(r) == PipelineOf(r) \in Incremental /\ ~request[r].ignoreCursor

\* Mutant: the incremental filter is lost.
AllRecords(r, base) == Positions(r)

EligibleRecords(r, base) ==
  IF AppliesCursor(r)
    THEN {i \in Positions(r) : ShouldProcessRecord(Record(r, i).candidate, base)}
    ELSE Positions(r)

Init ==
  /\ request \in [Runs -> Requests]
  /\ api = [r \in Runs |-> "idle"]
  /\ run = [r \in Runs |-> NewRun("none")]
  /\ job = [r \in Runs |-> "none"]
  /\ bull = [r \in Runs |-> NoJob]
  /\ ex = [w \in Executors |-> Idle]
  /\ rows = [r \in Runs |-> [i \in Positions(r) |-> 0]]
  /\ cursor = [p \in Pipelines |-> NoCursor]
  /\ faults = 0
  /\ deliveries = [r \in Runs |-> 0]
  /\ moved = {}

Fault == faults < MaxFaults /\ faults' = faults + 1

\* An executor's locals after a step: Goto keeps all but the program counter,
\* Release drops them.
Become(w, e) == ex' = [ex EXCEPT ![w] = e]
Goto(w, pc) == Become(w, [ex[w] EXCEPT !.pc = pc])
Release(w) == Become(w, Idle)

-------------------------------------------------------------------------------
(***************************************************************************)
(* The API server: queueSyncRun.  Any call may reject, and the server may  *)
(* die between two of them; the request then stops where it is.            *)
(***************************************************************************)
QueueRun(r) ==
  /\ Async /\ api[r] = "idle"
  /\ api' = [api EXCEPT ![r] = "runCreated"]
  /\ run' = [run EXCEPT ![r] = NewRun("QUEUED")]
  /\ UNCHANGED <<request, job, bull, ex, rows, cursor, faults, deliveries, moved>>

CreateJob(r) ==
  /\ api[r] = "runCreated"
  /\ api' = [api EXCEPT ![r] = "jobCreated"]
  /\ job' = [job EXCEPT ![r] = "QUEUED"]
  /\ UNCHANGED <<request, run, bull, ex, rows, cursor, faults, deliveries, moved>>

EnqueueJob(r) ==
  /\ api[r] = "jobCreated"
  /\ api' = [api EXCEPT ![r] = "done"]
  /\ bull' = [bull EXCEPT ![r].state = "waiting"]
  /\ UNCHANGED <<request, run, job, ex, rows, cursor, faults, deliveries, moved>>

RequestFails(r) ==
  /\ api[r] \in {"runCreated", "jobCreated"}
  /\ Fault
  /\ api' = [api EXCEPT ![r] = "failed"]
  /\ UNCHANGED <<request, run, job, bull, ex, rows, cursor, deliveries, moved>>

(***************************************************************************)
(* BullMQ (external): a job is handed to one idle worker, waits out its    *)
(* backoff after a failed attempt, and goes back to the queue when its     *)
(* worker died, at most MaxStalled times.  A job that stalls once more is  *)
(* failed by BullMQ itself: no code of this repository runs.  Processors   *)
(* subscribe to the queue in async mode only.                              *)
(***************************************************************************)
Deliver(w, r) ==
  /\ Async /\ ex[w].pc = "idle" /\ bull[r].state = "waiting"
  /\ bull' = [bull EXCEPT ![r].state = "active"]
  /\ Become(w, [Idle EXCEPT !.pc = "load", !.run = r])
  /\ deliveries' = [deliveries EXCEPT ![r] = @ + 1]
  /\ UNCHANGED <<request, api, run, job, rows, cursor, faults, moved>>

Backoff(r) ==
  /\ bull[r].state = "delayed"
  /\ bull' = [bull EXCEPT ![r].state = "waiting"]
  /\ UNCHANGED <<request, api, run, job, ex, rows, cursor, faults, deliveries, moved>>

Held(r) == \E w \in Executors : ex[w].run = r

Stalled(r) ==
  /\ bull[r].state = "active" /\ ~Held(r)
  /\ bull' = [bull EXCEPT ![r] =
                IF bull[r].stalled < MaxStalled
                  THEN [bull[r] EXCEPT !.state = "waiting",
                                       !.stalled = bull[r].stalled + 1]
                  ELSE [bull[r] EXCEPT !.state = "failed"]]
  /\ UNCHANGED <<request, api, run, job, ex, rows, cursor, faults, deliveries, moved>>

(***************************************************************************)
(* The executor.                                                           *)
(***************************************************************************)
\* Sync mode: the request reads its pipeline (findOne, getById) ...
StartNow(w, r) ==
  /\ ~Async /\ ex[w].pc = "idle" /\ api[r] = "idle"
  /\ api' = [api EXCEPT ![r] = "done"]
  /\ Become(w, [Idle EXCEPT !.pc = "createRun", !.run = r,
                            !.base = cursor[PipelineOf(r)]])
  /\ deliveries' = [deliveries EXCEPT ![r] = @ + 1]
  /\ UNCHANGED <<request, run, job, bull, rows, cursor, faults, moved>>

\* ... and executeSyncRunNow creates the run as RUNNING.
CreateRunNow(w) ==
  /\ ex[w].pc = "createRun"
  /\ run' = [run EXCEPT ![ex[w].run] = NewRun("RUNNING")]
  /\ Goto(w, "begin")
  /\ UNCHANGED <<request, api, job, bull, rows, cursor, faults, deliveries, moved>>

\* processQueuedSyncRun reads job, run and pipeline.  It asks nothing of
\* their status: a run that already succeeded is processed again.
Load(w) ==
  /\ ex[w].pc = "load"
  /\ Become(w, [ex[w] EXCEPT !.pc = "markJob",
                             !.base = cursor[PipelineOf(ex[w].run)]])
  /\ UNCHANGED <<request, api, run, job, bull, rows, cursor, faults, deliveries, moved>>

\* Mutant: the job is marked only the first time, when it is still QUEUED.
MarkJobOnce(w) ==
  /\ ex[w].pc = "markJob"
  /\ job' = [job EXCEPT ![ex[w].run] = IF @ = "QUEUED" THEN "PROCESSING" ELSE @]
  /\ Goto(w, "markRun")
  /\ UNCHANGED <<request, api, run, bull, rows, cursor, faults, deliveries, moved>>

MarkJobProcessing(w) ==
  /\ ex[w].pc = "markJob"
  /\ job' = [job EXCEPT ![ex[w].run] = "PROCESSING"]
  /\ Goto(w, "markRun")
  /\ UNCHANGED <<request, api, run, bull, rows, cursor, faults, deliveries, moved>>

MarkRunRunning(w) ==
  /\ ex[w].pc = "markRun"
  /\ run' = [run EXCEPT ![ex[w].run].status = "RUNNING"]
  /\ Goto(w, "begin")
  /\ UNCHANGED <<request, api, job, bull, rows, cursor, faults, deliveries, moved>>

\* processRunRecords: compile the mapping, which create and update already
\* validated, and filter by the cursor that was read.
BeginRecords(w) ==
  /\ ex[w].pc = "begin"
  /\ Become(w, [ex[w] EXCEPT !.pc = "records",
                             !.left = EligibleRecords(ex[w].run, ex[w].base)])
  /\ UNCHANGED <<request, api, run, job, bull, rows, cursor, faults, deliveries, moved>>

\* The loop takes the eligible records in their order.
IsNext(w, i) ==
  /\ ex[w].pc = "records" /\ i \in ex[w].left
  /\ \A j \in ex[w].left : i <= j

AfterFailure(e, i) == [e EXCEPT !.left = e.left \ {i}, !.failed = e.failed + 1]

\* Transformation errors: the record is counted as failed and left out.
RejectRecord(w, i) ==
  /\ IsNext(w, i) /\ ~Record(ex[w].run, i).valid
  /\ Become(w, AfterFailure(ex[w], i))
  /\ UNCHANGED <<request, api, run, job, bull, rows, cursor, faults, deliveries, moved>>

\* The locals after the row is written; the audit calls that follow are in
\* the same try block, so when one throws the record counts as failed too.
AfterStore(e, i, auditFailed) ==
  [e EXCEPT !.left = e.left \ {i},
            !.created = e.created + 1,
            !.failed = e.failed + auditFailed,
            !.maxCursor = PickLatestCursor(e.maxCursor, Record(e.run, i).candidate)]

InsertRow(r, i) ==
  rows' = [rows EXCEPT ![r] = [rows[r] EXCEPT ![i] = rows[r][i] + 1]]

StoreRecord(w, i) ==
  /\ IsNext(w, i) /\ Record(ex[w].run, i).valid
  /\ InsertRow(ex[w].run, i)
  /\ Become(w, AfterStore(ex[w], i, 0))
  /\ UNCHANGED <<request, api, run, job, bull, cursor, faults, deliveries, moved>>

\* Mutant: a record whose audit failed is tried again.
StoreRecordAgain(w, i) ==
  /\ IsNext(w, i) /\ Record(ex[w].run, i).valid
  /\ Fault
  /\ InsertRow(ex[w].run, i)
  /\ UNCHANGED <<request, api, run, job, bull, ex, cursor, deliveries, moved>>

StoreRecordAuditFails(w, i) ==
  /\ IsNext(w, i) /\ Record(ex[w].run, i).valid
  /\ Fault
  /\ InsertRow(ex[w].run, i)
  /\ Become(w, AfterStore(ex[w], i, 1))
  /\ UNCHANGED <<request, api, run, job, bull, cursor, deliveries, moved>>

\* Mutant: the create call is not awaited, so its rejection goes unnoticed.
StoreRecordUnawaited(w, i) ==
  /\ IsNext(w, i) /\ Record(ex[w].run, i).valid
  /\ Fault
  /\ Become(w, AfterStore(ex[w], i, 0))
  /\ UNCHANGED <<request, api, run, job, bull, rows, cursor, deliveries, moved>>

StoreRecordFails(w, i) ==
  /\ IsNext(w, i) /\ Record(ex[w].run, i).valid
  /\ Fault
  /\ Become(w, AfterFailure(ex[w], i))
  /\ UNCHANGED <<request, api, run, job, bull, rows, cursor, deliveries, moved>>

RecordsDone(w) == ex[w].pc = "records" /\ ex[w].left = {}

\* The cursor may move: incremental mode (ignoreCursor does not matter here),
\* no failed record, and at least one stored record with a candidate.
MovesCursor(e) ==
  PipelineOf(e.run) \in Incremental /\ e.failed = 0 /\ e.maxCursor # NoCursor

\* The write is unconditional: it does not look at the cursor stored now.
AdvanceCursor(w) ==
  /\ RecordsDone(w) /\ MovesCursor(ex[w])
  /\ cursor' = [cursor EXCEPT ![PipelineOf(ex[w].run)] = ex[w].maxCursor]
  /\ moved' = moved \cup {ex[w].run}
  /\ Goto(w, "finishRun")
  /\ UNCHANGED <<request, api, run, job, bull, rows, faults, deliveries>>

KeepCursor(w) ==
  /\ RecordsDone(w) /\ ~MovesCursor(ex[w])
  /\ Goto(w, "finishRun")
  /\ UNCHANGED <<request, api, run, job, bull, rows, cursor, faults, deliveries, moved>>

\* Mutant: processed counts the successes minus the failures.
NetOutcome(e) ==
  [status |-> IF e.failed > 0 THEN "FAILED" ELSE "SUCCESS",
   received |-> Len(request[e.run].records),
   processed |-> e.created - e.failed,
   failed |-> e.failed]

\* Mutant: a run fails only when it stored nothing at all.
LenientOutcome(e) ==
  [status |-> IF e.failed > 0 /\ e.created = 0 THEN "FAILED" ELSE "SUCCESS",
   received |-> Len(request[e.run].records),
   processed |-> e.created,
   failed |-> e.failed]

Outcome(e) ==
  [status |-> IF e.failed > 0 THEN "FAILED" ELSE "SUCCESS",
   received |-> Len(request[e.run].records),
   processed |-> e.created,
   failed |-> e.failed]

\* Mutant: a run that created nothing is not updated.
FinishRunIfCreated(w) ==
  /\ ex[w].pc = "finishRun"
  /\ run' = IF ex[w].created > 0
              THEN [run EXCEPT ![ex[w].run] = Outcome(ex[w])] ELSE run
  /\ IF Async THEN Goto(w, "finishJob") ELSE Release(w)
  /\ UNCHANGED <<request, api, job, bull, rows, cursor, faults, deliveries, moved>>

\* The run's final update.  What a sync request still does after it (lastRunAt,
\* audits, the answer) touches no state of this module.
FinishRun(w) ==
  /\ ex[w].pc = "finishRun"
  /\ run' = [run EXCEPT ![ex[w].run] = Outcome(ex[w])]
  /\ IF Async THEN Goto(w, "finishJob") ELSE Release(w)
  /\ UNCHANGED <<request, api, job, bull, rows, cursor, faults, deliveries, moved>>

FinishJob(w) ==
  /\ ex[w].pc = "finishJob"
  /\ job' = [job EXCEPT ![ex[w].run] = "COMPLETED"]
  /\ Goto(w, "report")
  /\ UNCHANGED <<request, api, run, bull, rows, cursor, faults, deliveries, moved>>

\* The handler returns and BullMQ settles the job.
Return(w) ==
  /\ ex[w].pc = "report"
  /\ bull' = [bull EXCEPT ![ex[w].run] =
               [bull[ex[w].run] EXCEPT !.state = "completed",
                                       !.made = bull[ex[w].run].made + 1]]
  /\ Release(w)
  /\ UNCHANGED <<request, api, run, job, rows, cursor, faults, deliveries, moved>>

(***************************************************************************)
(* A call rejects without effect.  Inside the try block control goes to    *)
(* the catch block; before it and in the catch block itself the error      *)
(* leaves the handler.  executeSyncRunNow has no try block: the request    *)
(* fails and the run stays as it is.  While records are left, the one call *)
(* outside the inner try block is the audit of a transformation error;     *)
(* when none is left it is the cursor's update or audit.                   *)
(***************************************************************************)
TryBlock == {"records", "finishRun", "finishJob", "report"}

Awaits(w) ==
  /\ ex[w].pc \notin {"idle", "rethrow"}
  /\ ex[w].pc = "records" =>
       IF ex[w].left = {}
         THEN PipelineOf(ex[w].run) \in Incremental
         ELSE \E i \in ex[w].left : IsNext(w, i) /\ ~Record(ex[w].run, i).valid

Throw(w) ==
  /\ Awaits(w)
  /\ Fault
  /\ IF Async THEN Goto(w, IF ex[w].pc \in TryBlock THEN "catchRun" ELSE "rethrow")
              ELSE Release(w)
  /\ UNCHANGED <<request, api, run, job, bull, rows, cursor, deliveries, moved>>

\* The catch block leaves the counters as they are.
CatchRun(w) ==
  /\ ex[w].pc = "catchRun"
  /\ run' = [run EXCEPT ![ex[w].run].status = "FAILED"]
  /\ Goto(w, "catchJob")
  /\ UNCHANGED <<request, api, job, bull, rows, cursor, faults, deliveries, moved>>

CatchJob(w) ==
  /\ ex[w].pc = "catchJob"
  /\ job' = [job EXCEPT ![ex[w].run] = "FAILED"]
  /\ Goto(w, "rethrow")
  /\ UNCHANGED <<request, api, run, bull, rows, cursor, faults, deliveries, moved>>

\* Mutant: one attempt too many.
RethrowOnceMore(w) ==
  LET r == ex[w].run IN
  /\ ex[w].pc = "rethrow"
  /\ bull' = [bull EXCEPT ![r] =
               [bull[r] EXCEPT !.made = bull[r].made + 1,
                               !.state = IF bull[r].made < MaxAttempts
                                           THEN "delayed" ELSE "failed"]]
  /\ Release(w)
  /\ UNCHANGED <<request, api, run, job, rows, cursor, faults, deliveries, moved>>

\* Mutant: removeOnFail, the job disappears after a failed attempt.
RethrowRemoving(w) ==
  LET r == ex[w].run IN
  /\ ex[w].pc = "rethrow"
  /\ bull' = [bull EXCEPT ![r] = [bull[r] EXCEPT !.made = bull[r].made + 1,
                                                 !.state = "absent"]]
  /\ Release(w)
  /\ UNCHANGED <<request, api, run, job, rows, cursor, faults, deliveries, moved>>

\* Mutant: one attempt too few.
RethrowOnceLess(w) ==
  LET r == ex[w].run IN
  /\ ex[w].pc = "rethrow"
  /\ bull' = [bull EXCEPT ![r] =
               [bull[r] EXCEPT !.made = bull[r].made + 1,
                               !.state = IF bull[r].made + 2 < MaxAttempts
                                           THEN "delayed" ELSE "failed"]]
  /\ Release(w)
  /\ UNCHANGED <<request, api, run, job, rows, cursor, faults, deliveries, moved>>

\* The handler rejects: BullMQ counts the attempt and retries after the
\* backoff until BULLMQ_DEFAULT_ATTEMPTS are made.
Rethrow(w) ==
  LET r == ex[w].run IN
  /\ ex[w].pc = "rethrow"
  /\ bull' = [bull EXCEPT ![r] =
               [bull[r] EXCEPT !.made = bull[r].made + 1,
                               !.state = IF bull[r].made + 1 < MaxAttempts
                                           THEN "delayed" ELSE "failed"]]
  /\ Release(w)
  /\ UNCHANGED <<request, api, run, job, rows, cursor, faults, deliveries, moved>>

\* The process dies: its locals are gone, and a worker is started again.
Crash(w) ==
  /\ ex[w].pc # "idle"
  /\ Fault
  /\ Release(w)
  /\ UNCHANGED <<request, api, run, job, bull, rows, cursor, deliveries, moved>>

ApiStep(r) == CreateJob(r) \/ EnqueueJob(r)

ProcessRecord(w) ==
  \E i \in ex[w].left : RejectRecord(w, i) \/ StoreRecord(w, i)

\* What an executor does when nothing goes wrong, and how it cleans up.
ExecutorStep(w) ==
  \/ CreateRunNow(w) \/ Load(w) \/ MarkJobProcessing(w) \/ MarkRunRunning(w)
  \/ BeginRecords(w) \/ ProcessRecord(w) \/ AdvanceCursor(w) \/ KeepCursor(w)
  \/ FinishRun(w) \/ FinishJob(w) \/ Return(w)
  \/ CatchRun(w) \/ CatchJob(w) \/ Rethrow(w)

ExecutorFault(w) ==
  \/ Throw(w) \/ Crash(w)
  \/ \E i \in ex[w].left : StoreRecordAuditFails(w, i) \/ StoreRecordFails(w, i)

Next ==
  \/ \E r \in Runs : QueueRun(r) \/ ApiStep(r) \/ RequestFails(r) \/ Backoff(r) \/ Stalled(r)
  \/ \E w \in Executors, r \in Runs : Deliver(w, r) \/ StartNow(w, r)
  \/ \E w \in Executors : ExecutorStep(w) \/ ExecutorFault(w)

Spec == Init /\ [][Next]_vars

(***************************************************************************)
(* Fairness: Node runs the continuation of every awaited call that has     *)
(* settled, so an executor and a begun request keep moving; BullMQ moves   *)
(* delayed and stalled jobs on timers and hands out waiting jobs while a   *)
(* worker is idle.  Nothing makes a request arrive, and no fault is fair.  *)
(***************************************************************************)
Fairness ==
  /\ \A w \in Executors : WF_vars(ExecutorStep(w))
  /\ \A r \in Runs : WF_vars(ApiStep(r)) /\ WF_vars(Backoff(r)) /\ WF_vars(Stalled(r))
  /\ WF_vars(\E w \in Executors, r \in Runs : Deliver(w, r))

FairSpec == Spec /\ Fairness
-------------------------------------------------------------------------------
\* Every variable stays in its type.  Counters are natural numbers, and each
\* run has a row count for each of its records and no other.
TypeOK ==
  /\ request \in [Runs -> Requests]
  /\ api \in [Runs -> ApiSteps]
  /\ run \in [Runs -> SyncRunRows]
  /\ job \in [Runs -> JobStatus]
  /\ bull \in [Runs -> BullJobs]
  /\ ex \in [Executors -> [pc : PCs, run : Runs \cup {NoRun}, base : Cursors,
                          left : SUBSET Nat, created : Nat, failed : Nat,
                          maxCursor : Cursors]]
  /\ DOMAIN rows = Runs /\ \A r \in Runs : rows[r] \in [Positions(r) -> Nat]
  /\ cursor \in [Pipelines -> Cursors]
  /\ faults \in 0..MaxFaults
  /\ deliveries \in [Runs -> Nat]
  /\ moved \in SUBSET Runs

\* Redelivery multiplies rows, but not without bound: no record is stored more
\* often than the run was handed to an executor, and that happens at most once
\* per attempt and once per tolerated stall.  (processQueuedSyncRun has no
\* guard on the run's status and SyncedRecord no unique key, so this bound is
\* all that limits duplicates.)
DuplicatesAreBounded ==
  \A r \in Runs :
    /\ deliveries[r] <= MaxAttempts + MaxStalled
    /\ \A i \in Positions(r) : rows[r][i] <= deliveries[r]

\* The record of run r at i is in the database.
IsStored(r, i) == rows[r][i] > 0

\* A record the cursor filter may drop: something at least as new, by the
\* code's own order, has been stored for the same pipeline.
IsSuperseded(r, i) ==
  /\ AppliesCursor(r)
  /\ \E s \in Runs : \E j \in Positions(s) :
        /\ PipelineOf(s) = PipelineOf(r) /\ IsStored(s, j)
        /\ ~ShouldProcessRecord(Record(r, i).candidate, Record(s, j).candidate)

\* A run reported as SUCCESS lost nothing: each of its records is stored, or
\* was skipped in favour of a stored record, through whatever retries, crashes
\* and concurrent runs of the pipeline came before.
SuccessLosesNothing ==
  \A r \in Runs : run[r].status = "SUCCESS" =>
    \A i \in Positions(r) : IsStored(r, i) \/ IsSuperseded(r, i)

\* A stored cursor is the candidate of a record stored for that pipeline: the
\* cursor never points past what was really synchronised.
CursorIsBacked ==
  \A p \in Pipelines : cursor[p] # NoCursor =>
    \E r \in Runs : \E i \in Positions(r) :
      PipelineOf(r) = p /\ IsStored(r, i) /\ Record(r, i).candidate = cursor[p]

\* All that readers of the database see of SyncRuns is a behaviour of the
\* ledger: rows are added by a RUNNING run only, SUCCESS is given only when
\* every record is accounted for, and a cursor comes from the run's own rows.
Ledger == INSTANCE IngestLedger WITH
  status <- [r \in Runs |-> run[r].status],
  stored <- [r \in Runs |-> {i \in Positions(r) : IsStored(r, i)}]

ImplementsLedger == Ledger!Spec

\* The three records of one execution agree where it matters to an operator:
\* a BackgroundJob shown as COMPLETED has a run in a final status, and a job
\* BullMQ will never touch again as completed is COMPLETED in the database.
CompletedJobIsFinished ==
  \A r \in Runs :
    /\ job[r] = "COMPLETED" => run[r].status \in {"SUCCESS", "FAILED"}
    /\ bull[r].state = "completed" => job[r] = "COMPLETED"

\* While nothing has failed the counters of a finished run are those of its rows: each
\* record is stored at most once, recordsProcessed is the number of rows,
\* recordsFailed counts rejected records, and what is neither was skipped in
\* favour of a stored record.
CountersMatchRows ==
  \A r \in Runs : faults = 0 /\ run[r].status \in {"SUCCESS", "FAILED"} =>
    LET stored == {i \in Positions(r) : IsStored(r, i)}
        skippedByCursor == run[r].received - run[r].processed - run[r].failed
    IN
      /\ \A i \in stored : rows[r][i] = 1
      /\ run[r].processed = Cardinality(stored)
      /\ run[r].failed <= Cardinality({i \in Positions(r) : ~Record(r, i).valid})
      /\ skippedByCursor \in
           0..Cardinality({i \in Positions(r) \ stored : IsSuperseded(r, i)})

\* Nobody will ever finish the run: its request is over, no executor holds it
\* and BullMQ will not hand out its job again.
Abandoned(r) ==
  /\ run[r].status \in {"QUEUED", "RUNNING"} /\ ~Held(r)
  /\ api[r] \in {"done", "failed"}
  /\ bull[r].state \in {"absent", "completed", "failed"}

\* What it takes: one fault where nothing retries; where BullMQ does, as many
\* as there are attempts, or stalls and one more.
FaultsToAbandon(r) ==
  CASE ~Abandoned(r) -> 0
    [] Abandoned(r) /\ bull[r].state = "failed" ->
         IF MaxAttempts <= MaxStalled + 1 THEN MaxAttempts ELSE MaxStalled + 1
    [] OTHER -> 1

\* Each run left QUEUED or RUNNING for ever (queueSyncRun and executeSyncRunNow
\* repair nothing, and hasActiveRun then blocks the pipeline's schedule) has
\* cost its own faults: no fault abandons two runs, and a run whose job BullMQ
\* had was tried until the attempts or the stalls ran out.
AbandonedRunsCostFaults ==
  Cardinality(UNION {{r} \X (1..FaultsToAbandon(r)) : r \in Runs}) <= faults

\* With one executor and no request that ignores the cursor, the cursor only
\* moves to a newer value, although the update compares nothing.
CursorOnlyMovesForward ==
  [][\A p \in Pipelines : cursor'[p] # cursor[p] =>
       cursor[p] = NoCursor \/ IsCandidateNewer(cursor'[p], cursor[p])]_vars

\* test/sync-runs-queue.spec.ts:281, "incremental cursor does not advance after
\* failed run".
FailedRunLeavesCursor == \A r \in Runs : run[r].status = "FAILED" => r \notin moved

\* A job that BullMQ holds is settled in the end: retries and redeliveries of
\* crashed workers cannot go on for ever.
JobIsSettled ==
  \A r \in Runs : bull[r].state \in {"waiting", "active", "delayed"}
                    ~> bull[r].state \in {"completed", "failed"}

\* A run that was created reaches a final status, unless something fails, so
\* that hasActiveRun does not block the pipeline's schedule.
RunIsFinished ==
  \A r \in Runs : run[r].status \in {"QUEUED", "RUNNING"}
                    ~> run[r].status \in {"SUCCESS", "FAILED"} \/ faults > 0
=============================================================================
