# SyncBridge: TLA+ models, checks and proofs

This directory models the SyncBridge API (`apps/api`) and the parts of its web
client (`apps/web`) that keep state: how a sync run goes from a request to the
last database write, through BullMQ, worker processes, retries, crashes and the
incremental cursor; the scheduler, webhooks, mappings, tokens, the rate
limiter, and the pages and lists that read and write the same rows. Modules are
model-checked with TLC on small instances, and every safety property that the
runs find to hold is proved with TLAPS for every value of the constants.
`PROJECT.json` maps each definition to the source lines it stands for, lists
the runs, the hazards and, for every property, a mutation of the code that
violates it.

## 1. The system

| Component (under `apps/api/src` unless noted) | State | Operations | What is hard |
|---|---|---|---|
| Sync runs (`sync-runs/`, `workers/sync-run.processor.ts`) | `SyncRun`, `SyncedRecord`, `BackgroundJob` rows, `SyncPipeline.cursorJson` | create (manual, scheduled), queue, process, list | several writes without a transaction, retries and redelivery, overlapping runs of one pipeline |
| Incremental cursor (in `sync-runs.service.ts`) | `cursorJson` | extract, filter, pick the latest, save, read back | two key kinds with a partial order, stale snapshots |
| Job queue (`jobs/jobs.service.ts`) | BullMQ jobs in Redis | enqueue with attempts and backoff; BullMQ delivers, retries, detects stalls | at-least-once delivery |
| Scheduler (`scheduler/`) | `nextRunAt`, poll state of each worker | poll cycle, trigger, schedule update, cron | check-then-act on active runs, stale poll snapshots, a schedule that never fires again |
| Webhooks (`webhooks/`, `workers/webhook-event.processor.ts`) | `WebhookEvent`, runs, records, jobs | receive, queue or process, retry, manual process | idempotency race, crash between the row and the job, double processing |
| Transformation engine (`transformations/`) | none | compile and apply a mapping | overlapping output paths, type conversions |
| Authentication (`auth/`, `apps/web/lib/api.ts`, `auth.ts`) | refresh-token rows, browser storage | register, login, refresh with rotation, logout, retry after 401 | concurrent refreshes, crash between revoke and issue |
| Rate limiting (`common/middleware/rate-limit.middleware.ts`) | in-memory window per client | count, reject, clean up | window boundary, stale entries, rounding of Retry-After |
| Pipelines, connectors (`pipelines/`, `connectors/`) | rows | create, update, status | access and the status compared are read calls before the write |
| Audit (`audit/`) | append-only rows | log | a write that may reject after what it describes was done |
| Lists, job status, dashboard (`dashboard/`, `jobs/job-status.service.ts`) | none | paged reads, counts | several queries without a snapshot |
| Web pages (`apps/web/app/pipelines`) | React state | load, run, wait for a job, save a status | answers that come in any order |
| Users, health, configuration, logging | rows or none | single-row reads, probes, start-up | nothing that two steps share |

How they interact. The API process serves requests; with `QUEUE_MODE=sync` it
also executes runs and webhook events, with `QUEUE_MODE=async` it writes a
`QUEUED` row and a `QUEUED` background job, and adds a BullMQ job with the
background job's id. Worker processes (`worker.ts`) subscribe to the queues and
run the scheduler's poll loop, which creates runs through the same service. All
of them share PostgreSQL, without transactions, and audit rows are written with
awaited calls that may reject like any other. The web client shares one stored
session between all its pages and calls the API from all of them.

What makes each component correct:

- *Sync runs*: SUCCESS means that nothing was lost; a record is not stored
  without bound; the three records of one execution (run row, background job
  row, BullMQ job) agree; a run ends; the job ends.
- *Cursor*: it never points past what was stored, never moves back in the
  deployment that is meant to prevent it, never makes the filter drop something
  new, and makes replays harmless.
- *Queue*: attempts and stalls are bounded, and each job settles.
- *Scheduler*: a due time is served, once when one process polls, unless a fault
  has left a run that blocks the pipeline; overlaps and runs from stale rows are
  bounded by what is in flight; the search for the next time skips no slot.
- *Webhooks*: PROCESSED means that every pipeline has its record; an event is
  not stored more often than it was asked for or failed; an accepted event is
  settled.
- *Transformation*: fields are independent, and where output paths overlap the
  later one prevails.
- *Authentication*: the exchanges of a token are bounded by the calls in
  flight, the stored session is usable, every call ends.
- *Rate limit*: what passes in any stretch of time is bounded, and Retry-After
  can be relied on.
- *Rows, lists and pages*: what is read in several queries or written after a
  check is wrong only by as much as changed meanwhile.

## 2. Modules

| Module | What it is |
|---|---|
| `CursorOps` | pure: extraction, normalisation, order, pick, JSON form of cursors |
| `SyncRuns` | the core: requests, BullMQ, executors, database |
| `IngestLedger` | abstract specification: what readers of the database may see of runs |
| `CursorScan` | raw records against the stored cursor over many runs |
| `Scheduler` | poll cycles, triggers, schedule and status updates, runs that end, fail and retry |
| `Cron` | the parser of cron expressions and the search for the next run |
| `Webhooks` | events from delivery to the last write, in both queue modes |
| `Transform` | paths, compilation of a mapping, and a record going through it |
| `AuthSession` | refresh tokens, the stored session of a browser, and its calls |
| `RateLimit`, `WindowLimiter` | the limiter's buckets, and what it promises |
| `Resources` | requests that create and update connectors and pipelines |
| `Listing` | a reader of pages or of the dashboard, and the writers |
| `PipelinesPage` | the page that lists the pipelines |
| `RowAccess` | `Resources`, `Listing` and `PipelinesPage` as parts of one specification |
| `Parsers` | `Transform`, `Cron` and `CursorScan`, likewise |
| `MC*` | instances for TLC: values, symmetry |
| `SyncRunsProofs`, `SchedulerProofs`, `WebhooksProofs`, `AuthSessionProofs`, `RateLimitProofs` | the theorems of one module each |
| `RowsProofs`, `ParsersProofs` | the theorems of `RowAccess` and of `Parsers`: those of each part, carried over |

Common to all: one action per awaited call, in the order of the code, because
anything may happen between two awaits and nothing between them (Node runs a
continuation to its next await). A rejected call has no effect; a write whose
answer is lost is not modelled, except in the web client, where it is. Names,
messages, timestamps and the contents of audit rows are not state.

### SyncRuns

| Variable | Code |
|---|---|
| `request[r]` | the arguments of `createForPipeline` / `createScheduledForPipeline` |
| `api[r]` | how far `queueSyncRun` got |
| `run[r]`, `job[r]`, `rows[r][i]`, `cursor[p]` | `SyncRun`, `BackgroundJob.status`, the number of `SyncedRecord` rows of the i-th record, `cursorJson` |
| `bull[r]` | the BullMQ job: state, attempts made, stalls |
| `ex[w]` | an executor's program counter and the locals of `processRunRecords` |
| `faults`, `deliveries`, `moved` | a bound and two history variables |

An executor is a worker process in async mode (BullMQ's default concurrency of
one) and a request being served in sync mode. The actions: `QueueRun`,
`CreateJob`, `EnqueueJob`; `Load`, `MarkJobProcessing`, `MarkRunRunning`,
`BeginRecords`, then per record `RejectRecord`, `StoreRecord`,
`StoreRecordAuditFails` or `StoreRecordFails`, then `AdvanceCursor` or
`KeepCursor`, `FinishRun`, `FinishJob`, `Return`. `Throw` is a rejected call:
inside the `try` block it leads to `CatchRun`, `CatchJob`, `Rethrow`, elsewhere
out of the handler; sync mode has no `try`. `Crash` drops an executor's locals
at any point, `Stalled` lets BullMQ hand its job out again, `Backoff` ends the
delay after a failed attempt.

A record is its cursor candidate and whether the mapping transforms it. A
worker that is alive keeps its BullMQ lock. `incrementalMode` does not change
during a run. Runs started by webhooks are not here: they do not read or write
the cursor. Status `CANCELLED` exists in the schema, and no code sets it.

### IngestLedger

Status, stored positions and cursors only. `Store` needs a RUNNING run,
`Succeed` needs each record accounted for (stored, or superseded by a stored
record when the run filters), `Advance` takes a stored record's candidate. The
refinement maps `status` to the run's status and `stored` to the positions with
at least one row.

### CursorScan

`SyncRuns` reduces a record to its candidate; `CursorScan` keeps the raw record,
with typed JSON values that may or may not convert, the conversions into
`cursorJson` and back, and an arbitrary sequence of runs over one source. It has
no faults and no overlap, which `SyncRuns` covers.

### Scheduler and Cron

`row[p]` is the pipeline's status and schedule columns; `active`, `others` and
`waiting` count its scheduled runs that are in BullMQ, its other active runs,
and its FAILED runs that BullMQ will retry; `left` counts those that a fault has
left QUEUED or RUNNING. `poller[w]` is one call of `runPollingCycle` in a worker
process: `BeginPoll`, `ReadDue` (the query), `CheckDue` (`hasActiveRun`),
`CreateDue` (the rows of the run), `EnqueueDue` (its BullMQ job), `Reschedule`,
`EndPoll`, and `PollFails` for a rejected call (catch and finally) or the death
of the process. Between `CreateDue` and `EnqueueDue` the run is QUEUED and no
worker knows of it: a fault there, in a poll or a trigger (`RequestFails`),
leaves it so for good, as `RunIsLeft` does with one whose last attempt dies.
`hasActiveRun` counts all of these. The run's row and its background job are one
action, as a failure between the two leaves the same. `pollInProgress` and
`lockUntil` are one state, `pc # "idle"`: both are set and released together,
the second adds nothing while the first is set. `user[u]` is a schedule update
(`BeginScheduleUpdate`, `WriteSchedule`) or a trigger (`BeginTrigger`,
`CheckTrigger`, `CreateTriggered`, `EnqueueTriggered`); `SetStatus` is a status
endpoint, which never writes `nextRunAt`. `fired` and `late` are histories. The
branch of `enqueueDuePipelines` for a cron that does not parse (338-351) cannot
be reached, as only parsed crons are saved. The model is that of the queue mode,
in which the worker that polls runs.

A cron is here the set of times it matches. `Cron` says how they are computed:
`ParseSegment` is one turn of the loop of `parseField`; `BeginSearch` and `Try`
are `computeNextRunAt`, begun from the time the last one gave, as the poll asks,
and one turn of its loop. A zone is a function from minutes to local minutes, so
that a gap and a repeated hour are zones like others. Two zones matter: the cron
is matched in the schedule's (`zone`), but `setSeconds` and `setMinutes` step in
that of the process (`host`): they set a local minute, and `Instant` is the
minute that `Date` takes it for, of a repeated one the first. Where the
process's clock is set back the search jumps over minutes or finds one that has
passed; `NoSlotSkipped` is about a process whose clock is never set back, such
as the UTC of the containers, and TLC finds it violated without that premise. A
time without a match in the horizon gives null, as in the code, and then the
schedule stops. A range that ends on the Sunday 7 is read differently from cron
("0-7" is Sunday, "5-7" is refused), and a missing number is 0 ("-3" is read as
0-3); `ReadsCron` says so by leaving the first out and by speaking of
well-formed segments.

### Webhooks

A request delivers an event (`Deliver`, `CreateEvent`), retries it or has it
processed by hand (`BeginAgain`, `Reset`), and in queue mode leaves a job
(`CreateJob`, `Enqueue`). `Take` hands a job to a worker, or a request to itself
in sync mode; `Read` finds the ACTIVE pipelines; each gets `CreateRun` and then
`FailRun`, or `StoreRecord` and `SucceedRun`; `Settle` writes the event's
verdict, `CompleteJob` and `Return` end. `Throw`, `FailEvent`, `FailJob`,
`Rethrow`, `Crash`, `Stalled`, `Backoff` as in `SyncRuns`. `running` counts the
RUNNING runs, `records` the rows an event has for a pipeline; `started` is a
history of executions that the proofs use. A call that rejects between
`MarkProcessing` and the end of `Read` is either one of the audits before the
`try` block, which leave job and event as they are, or a read in it, which fails
both. Whether a connector is found is a
choice of `CreateEvent`; which pipelines are ACTIVE changes by `Toggle`.

### Transform

A JSON value is a function from paths to leaves, an empty one is undefined. A
leaf keeps its type and of its text what the conversions tell apart: a number
word, a date word, blank, and so on; of an array it is what `String()` gives.
`CompileEntry` is a turn of the loop of `compileMapping`, with `Problem` the
code of the first of its checks that fails, `TransformField` one of
`transformRecordWithCompiledMapping`. Output paths that overlap are not refused
by the code: a later field replaces or enters an earlier one, and
`FieldsAreIndependent` says which value is then in the output. Names that
objects inherit (`toString`) are not modelled.

### AuthSession

A token is the number of its row, and of the access token issued with it.
`req[r]` is a call of `requestApi`: sent, answered, refreshed once
(`performTokenRefresh`) and sent again. Server steps are the awaited calls of
`login`, `refresh`, `logout` and `issueTokens`: the row is created with the hash
"pending_hash" and is found only after `StoreHash`. `ServerFails` is a call that
rejects, the audit after a token was stored or revoked among them. Tokens expire
at any moment. `session` is the browser's storage, shared by its pages. There is
one account, and registration (a login that creates the account first) is left
out.

### RateLimit and WindowLimiter

`use` has no await and is one action, `Use`, but it reads the clock twice.
`counters` is the Map, with `NoBucket` for no entry; `accepted` and `promised`
are histories. `WindowLimiter` is the promise without buckets, refused requests
or clean-up: the first request opens a window, each takes quota, the headers
tell what is left or when to come back. The buckets are in memory: each API
process has its own limiter, as in the code.

### Resources, Listing, PipelinesPage

`Resources`: `req[r]` is a handler; `Read` is `getById` and `assertCanAccess`,
`ReadSource` the check of the connector, then `Write` and `Audit`, or `Fails` at
any of them. `silent` counts changes of a status without an audit entry,
`overlaps` how often a request began while another was running.

`Listing`: items in the order of `createdAt`; a reader of runs, of events or of
the dashboard asks page after page, every query a step, those of one
`Promise.all` in any order, while containers and items are created and change
status. The place of an item is how many items of the list are at least as new;
`skip` and `take` keep a range of places. `before`, `left` and `late` are
histories of what a reader could miss.

`PipelinesPage`: `calls` are the calls the page has begun, `pipelines`,
`pendingStatus`, `loading`, `runningPipelineId` and `updatingPipelineId` its
React state. A load replaces the rows and, with them, choices not yet saved; one
id disables the buttons of one row: a call for another row takes it over when it
begins and clears it when it ends, so `RepeatCostsAnother` counts both. A call
can be rejected at any step.

### RowAccess, Parsers

Modules that share no state are put together: a behaviour is one of the part
`part`, chosen at the start, and the others stay as they are. Each property
speaks of its part's behaviours only, so a run is the disjoint union of the runs
of each module, and a theorem of a part carries over. `MCParsers` adds the calls
of `AuthSession` as a part of its own for `CallsEnd`, because the run of
`AuthSession` uses symmetry, and liveness may not.

## 3. Runs

| Run | Instance | Properties |
|---|---|---|
| `SyncRunsAsync` | 2 runs, 1 pipeline, 2 workers, 2 attempts, 1 stall, 2 faults | `SuccessLosesNothing`, `CursorIsBacked`, `CompletedJobIsFinished`, `DuplicatesAreBounded`, `CountersMatchRows`, `AbandonedRunsCostFaults`, `ImplementsLedger` |
| `SyncRunsOneWorker` | as above, 1 worker, no `ignoreCursor`, both key kinds, fairness | `CursorOnlyMovesForward`, `JobIsSettled`, `RunIsFinished` |
| `SyncRunsInline` | sync, 2 concurrent requests, 2 faults | `AbandonedRunsCostFaults` |
| `SyncRunsFailedCursor` | 2 runs, 1 worker, 1 fault; a violation is expected | `FailedRunLeavesCursor` |
| `SchedulerRaces` | 1 pipeline, 2 pollers, 1 user, 1 retry, 1 fault, 2 requests, 3 times | `OverlapIsBounded`, `LateRunsAreBounded` |
| `SchedulerOnePoller` | 2 pipelines, 1 poller, 1 fault, no retry, 4 times, fairness | `OncePerDueTime`, `DueIsServed` |
| `WebhooksQueue` | 2 requests of any kind, 2 workers, 2 pipelines of which one refuses, 1 key, 2 attempts, 1 stall, 1 fault, fairness | `ProcessedIsComplete`, `OrphansCostFaults`, `RecordsCostRequests`, `StuckEventsCostFaults`, `EventIsSettled` |
| `WebhooksInline` | sync, 3 requests, 1 fault, 1 status change | `RecordsCostRequests`, `StuckEventsCostFaults` |
| `RateLimit` | limits 1 and 2, a window of 3, clean-up every 2, clock to 8 | `SlidingBound`, `RetryAfterHonoured`, `ImplementsQuota` |
| `AuthSession` | 2 calls, 4 tokens, 1 fault | `SuccessorsAreBounded`, `SessionIsLive` |
| `Parsers` | mappings of up to 3 of 22 entries; cron fields of 0-2 in two positions, three zones and two of the process; two feeds of 4 records, batches of 2; session: 2 calls, 3 tokens, 1 fault, fairness | `FieldsAreIndependent`, `ReadsCron`, `NoSlotSkipped`, `NoReplay`, `SkipsOnlyOld`, `CallsEnd` |
| `RowAccess` | 2 handlers, 4 requests, 1 fault; 3 items, 2 containers, 2 changes; page: 2 pipelines, 3 calls, 1 fault, fairness | `SourceIsUsable`, `SilentChangesCostOverlaps`, `MissedCostLeft`, `DashboardIsTimely`, `StaleRowWasOutrun`, `RepeatCostsAnother`, `CallsSettle` |

Bounds. Two runs of one pipeline are the least that overlap and the least whose
cursors disagree; runs meet only in the pipeline's cursor, so a third adds no new
kind of interference. Two faults give a failure in the attempt and one in its
clean-up or in the other run. Payloads have up to two records: an older after a
newer one, a rejected record with the newest candidate, one without a
candidate, candidates on different keys, and the empty list of a scheduled run.
Two pollers, or a poller and a user, are the least that pass `hasActiveRun`
together, and two requests stop a pipeline and start it again; `MaxTime` gives a
schedule that fires at each time and, where one process polls, one that fires once
beside it. The one fault of a poll meets each of its calls, that between the rows
and the job included, on a pipeline that others wait behind. Two webhook requests
are a delivery and its duplicate, or a delivery and a retry that meets BullMQ's
own. The rate limiter's clock covers two windows and several clean-ups; both
limits are small enough to be exhausted in each. Two calls refresh with one
token, four tokens let a refreshed one be refreshed. Three calls of the page are
a load that began before, and ends after, a save. The lists have a page size of
one, so that every item that leaves shifts a page; of two handlers each overlaps
the other, and four requests let a row be created, read, and changed twice. The
cron fields have three values, of which one has two names as Sunday has, a step,
and each malformed shape.

`Symmetry` permutes runs, executors, pollers, requests and pipelines, and is
used only where no liveness is checked. Deadlock checking is off in all runs:
the bounds end every model, and the programs stop when all requests are served.

`CountersMatchRows` speaks of the states before the first fault, `RunIsFinished`
and `EventIsSettled` end with "unless something fails": with faults the code
does leave runs behind in `QUEUED` (a failure between the run's row and its job)
and in `RUNNING` (a rejected call in sync mode, or one worker death more than
BullMQ tolerates), and an event in `RECEIVED`. `AbandonedRunsCostFaults` and
`StuckEventsCostFaults` bound what is left behind: an event costs a fault of its
own, a run one where nothing retries and else as many as exhaust the attempts or
the stalls, and without a fault no interleaving leaves any. `OncePerDueTime` is about one
polling process and no schedule update: two pollers can serve one due time
without bound in turn, each writing back a next time computed from an older
start of its cycle. `DueIsServed` is about a pipeline that has a due time: one
whose schedule was saved while it was PAUSED has none, and activating it does
not compute one. It ends with "unless a run of the pipeline was left": such a run
is active for ever, and the pipeline's schedule is blocked by it, as the code has
nothing that ends it.

Fairness. Node runs the continuation of each settled call, hence weak fairness
of the steps of an executor, a poller, a handler, a page and a begun request;
BullMQ's timers move delayed and stalled jobs, and the poll's interval begins
the next cycle; a waiting job is handed out while a worker is idle (weak
fairness of delivering *some* job, not of a given one); in `Scheduler` a run that is
in BullMQ ends unless a fault leaves it, which `SyncRuns` shows; nothing makes a
run end that was left. In `PipelinesPage` an answer comes at last, as `fetch`
settles. Arrival of requests, users' clicks and faults are not fair.

## 4. Findings

`SyncRunsFailedCursor`: `processRunRecords` writes `cursorJson` and then awaits
more calls inside the `try` block of `processQueuedSyncRun`. When one of them
rejects, the run is marked FAILED and the cursor stays advanced. The test
"incremental cursor does not advance after failed run"
(`apps/api/test/sync-runs-queue.spec.ts:281`) states the opposite, for the case
of a rejected record only. No record is lost by it (`SuccessLosesNothing`,
`CursorIsBacked` hold), but the retry skips the records its own first attempt
stored and reports `recordsProcessed = 0`.

Where texts of the repository say more than the code does, the models follow the
code, and the properties state the weaker thing that holds:

| Text | Code, as modelled | What holds |
|---|---|---|
| `docs/SCHEDULER.md:22` duplicate enqueue is prevented | the check and the create are two calls | `OverlapIsBounded` |
| `docs/SCHEDULER.md:21` paused and archived pipelines are skipped | the status is tested in the poll's query only | `LateRunsAreBounded` |
| `docs/SCHEDULER.md:23` cron validation rejects invalid schedules | "-" and "-3" are read as ranges from 0 | `ReadsCron`, of well-formed fields |
| `docs/WEBHOOKS.md:16` duplicates are safely ignored | of two at once one is rejected by the unique key | one event per key |
| `docs/WEBHOOKS.md:42` retry is for failed events | the reset at 436 does not test the status again | `RecordsCostRequests` |
| `test/app.e2e.spec.ts:133` the old refresh token is rejected | two refreshes at once are both granted | `SuccessorsAreBounded` |
| `test/app.e2e.spec.ts:150` logout revokes the refresh token | after an expired access token, logout sends the token that its own refresh replaced | the session is cleared in the browser |
| `README.md:76` status changes are audited | `update` compares with a status read before | `SilentChangesCostOverlaps` |

## 5. Proofs

All theorems are proved from the named assumptions on the constants of the
modules. Each proof module has its type invariant, strengthened by what the steps
need to stay in it; that types are kept (`TypeCorrect`) is proved, and no run
repeats it. Where a run checks a property in queue mode only (as
`ImplementsLedger`), the theorem covers both modes. What is proved of a part of
`RowAccess` or `Parsers` is a lemma about that module's `Spec`; a lemma for each
part (`PageBehaves` and its like) says that a behaviour of the whole is one of
the part or never enters it, and the theorem follows for the whole.

- `SyncRunsProofs.DuplicatesBounded`. `QueueInv` counts deliveries: deliveries
  are attempts made plus stalls plus one while a job is active, and a job is
  active, waiting or delayed only below both limits; `RowsInv` says that a record
  has at most one row per delivery, and one less while the executor that holds
  its run has still to process it.
- `SyncRunsProofs.NothingLost`, `CursorBacked`. SUCCESS is written by
  `FinishRun` from locals, so the invariant speaks of them: `CoveredInv` says
  that an executor which has counted no failure has stored each of its run's
  positions that is not left, or skipped it by a `base` cursor that is itself
  backed; `BackedInv` says that each cursor, stored, read or picked, is the
  candidate of a stored record of the pipeline.
- `SyncRunsProofs.CursorForward` assumes one executor and no `ignoreCursor`.
  `ForwardInv` says that the base an executor holds is the stored cursor until it
  writes, and that `maxCursor` is newer than it. Both hypotheses are needed: a
  second worker or an ignored cursor moves it back.
- `SyncRunsProofs.JobsFinished`. `StatusInv` ties the job's status to the
  program counter of the executor that holds the run.
- `SyncRunsProofs.CountersRight`. `CountInv` speaks of the states before the
  first fault, where nothing is handed out a second time (`Unharmed`) and a run
  that nobody has begun is untouched (`Fresh`). A `Tally` divides the positions
  of a run into stored, rejected, superseded and left: an executor's locals are
  the tally of its run with what it has still to process (`Counts`), a finished
  run's row is one with nothing left (`Accounts`).
- `SyncRunsProofs.AbandoningCostsFaults`. `ChargesInv`: faults can be charged to the
  runs they hit, so that each run has at least its `Cost`: the failure of its
  request, the failed attempts and stalls that BullMQ has counted, and the one that
  it has still to count (`Owing`). `BullInv` says what BullMQ counts: a job fails
  only with its attempts or stalls exhausted. An abandoned run has a cost of at
  least `FaultsToAbandon` (`AbandonedIsCharged`).
- `SyncRunsProofs.LedgerImplemented`. Each action of `SyncRuns` is a ledger
  action or a stutter. `OwnInv` adds what the ledger's guards need: an executor
  in `records` or later has its run RUNNING, and its `maxCursor` comes from rows
  of the same run.
- `SchedulerProofs.OverlapBounded`. A caller counts from the moment it has passed
  the check: `OverlapInv` says that active runs, runs waiting for a retry and
  callers between check and create are at most the callers plus the retries
  used. The check matters: it is passed only when no run is active.
- `SchedulerProofs.LateRunsBounded`. `LateInv`: while a pipeline is stopped, its
  late runs and the pollers that still hold its row are at most the pollers, as
  nobody reads a stopped row again.
- `SchedulerProofs.DueTimesRunOnce` assumes one poller and no user, as the
  property does (section 3). `OnceInv`: the rows a cycle has read hold the due
  times of the database (`FreshRows`); a time beyond the due one has not run, and
  the due one has run at most once for each cycle that failed, unless the poller
  is just about to write the next (`FiredFor`).
- `WebhooksProofs.OrphansBounded` (`RunsInv`: the RUNNING runs of a pipeline are
  between those in hand and those plus the faults), `ProcessedComplete`
  (`ProcessedInv`: what an executor has put behind it has a record) and
  `RecordsBounded`, in two steps: `RecordsInv`, records and executions that may
  still store one are at most the executions started; `StartedInv`, executions
  started and still owed to a request are at most its requests plus the faults.
- `WebhooksProofs.StuckEventsBounded`. `StuckInv`: an execution is `Hurt` from a
  fault until BullMQ lets its job go on, hence there are at most as many as faults;
  an event that is RECEIVED has a request that will settle it or is hurt
  (`WillSettle`). A reset of an event that another request is settling is covered,
  as the request that resets it will settle it.
- `AuthSessionProofs.SuccessorsBounded`. `ChainsOK`: the successors of a token
  and the exchanges of it in flight are at most the requests, and a token that is
  not revoked has no successor.
- `AuthSessionProofs.SessionStaysLive`. `SessionInv`: before the first fault, if
  the stored token is revoked, then a request is on its way that will store
  another or clear it (`Replaces`); a token that is being issued is known to
  nobody but the request it is issued to (`FreshOK`), so that no other can
  revoke it before it is stored.
- `RateLimitProofs.SlidingBounded`, `RetryHonoured`, `BucketsFresh`,
  `BucketsImplementQuota`. The invariant `LogsOK` is about the log of accepted
  requests: it is in order (`InOrder`), each window was opened by its first
  request (`Opens`), no window passes more than the limit (`AtMost`), and a window
  that is not over is the bucket's, which counts its requests (`Closed`,
  `Backed`). From it: less than twice the limit passes in any stretch of one
  window; the buckets implement `WindowLimiter` step by step.

- `RowsProofs`, of `Resources`. `SilentChangesBounded`: of the handlers that are
  under way together one began alone and cost no overlap, so silent changes and
  handlers under way are at most overlaps, faults and one; once a status has been
  read and then changed, the handler that changed it has ended or will log it,
  and the bound is sharper by one (`SilentInv`). `SourceUsable`: ids are not
  reused, rows are not deleted and owners do not change, so what a handler has
  checked still holds when it writes (`SourceInv`). Both assume
  `ColumnsAreDisjoint`: connectors and pipelines have different ids, and there
  are finitely many handlers.
- `RowsProofs`, of `PipelinesPage`. `StaleRowsWereOutrun`: before the first fault
  every answer under way carries the status of the database, and a row that
  shows another has a call under way, unless it was outrun (`StaleInv`).
  `RepeatsCostAnother`: `RepeatInv` is the bound less one while the id that
  disables the buttons is not the pipeline's. Both assume `NoneIsNeither`, that
  no status or pipeline is the mark for "nothing".
- `RowsProofs`, of `Listing`. `MissedItemsLeft`: `PagesInv` calls an unseen item
  lost when it no longer matches or stands at a place of a page already read; an
  item is lost only when one has left the filter, which moves up those behind
  it by one place; and once the total is known the list outgrows it by late items
  only. `DashboardsAreTimely`: a user's items are never taken away, so each
  count lies between what could be seen before and what can be seen now. Both
  assume that the page sizes are numbers.
- `ParsersProofs`, of `Transform`. `FieldsIndependent`: values are functions from
  paths; writing below a path changes what is read only at paths that begin with
  it or that it begins with (`ReadsWritten`, `ReadsOthers`). `CompileInv` says that
  the compiled fields are entries with keys of their own, `FieldsInv` that each
  field before `next` is settled, written or with an error if it is required, that
  its value stands unless a later field before `next` disturbed it (`Kept`), and
  that nothing is read where no field has written (`Clear`). No premise separates
  the output paths. `MappingsAssumption(S)` gives the constants their types: entries
  have one of the kinds of the code, the short form has one of the types, paths
  split into sequences over some set S (the prover cannot unfold the `SelectSeq` of
  `SplitPath`), records and defaults are trees over S. The instances of the runs
  satisfy it.
- `ParsersProofs`, of `Cron`. `CronIsRead`: `ParserInv` says that each field holds
  what its segments so far add, and that a refused expression has a segment that
  adds nothing; `SegmentMeaning` shows that a well-formed segment adds what cron
  says, by comparing remainders with multiples (`StepsOf`, `RangeSteps`).
  `SlotsRunInOrder`: on a clock that is never set back `setMinutes` steps to the next
  minute, over a gap too (`StepsAreMinutes`); hence `SteadyInv`: the search has
  passed no minute that matches, and what has run is every minute that matches
  between the instant the schedule was saved and the last run, however many
  seconds of its minute have passed when the next search begins.
  `CronAssumption` gives fields, ranges and segments their types, for any number
  of fields; `SearchAssumption` makes a zone, the schedule's or the process's, a
  function on the minutes up to some end, and asks nothing else of the schedule's.
- `ParsersProofs`, of `CursorScan`. `ReplayStoresNothing`, `FilterLosesNothing`: a
  cursor reads back from JSON as it was written, and on one kind of candidate the
  order is that of an integer key. `ScanInv`: between runs the stored cursor is an
  ingested candidate that none is newer than; during a run the same holds of
  `latest` and the records stored so far, all newer than the cursor read.

Only model-checked: liveness (`RunIsFinished`, `JobIsSettled`, `DueIsServed`,
`EventIsSettled`, `CallsSettle`, `CallsEnd`), as the prover does not reason about
fairness, and the violation of `FailedRunLeavesCursor`. Every other property of
a run has its theorem.

## 6. Not modelled

- *Scheduler* in sync mode, where the process that polls would execute the run
  within its cycle, and schedules in a process whose clock is set back, beyond
  what the model of the search shows.
- *Transformation*: the texts of errors.
- *Job queue*: Redis health and the fallback without a queue in tests. A job's
  lock is kept as long as its worker lives.
- *Authentication*: registration, the profile, password and token hashes; more
  than one account, as no step of one touches rows of another.
- *Connectors*: the names forbidden in `configJson`, a test of the input alone.
- *Audit*: what an entry says. Rows are appended and nobody acts on them.
- *Rate limiting*: matching a request to a rule and building its key.
- *Web pages*: messages, and pages that render one answer. The page of one
  pipeline waits for its job as the list does and is covered by that model.
- *Health, users, request context, logging, configuration, seed data*: probes,
  single-row access, per-request storage, formatting and start-up validation,
  without a state that two steps share.
