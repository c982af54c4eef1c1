------------------------------ MODULE Webhooks ------------------------------
(***************************************************************************)
(* Webhook events, from the delivery to the last write                     *)
(* (webhooks.service.ts, workers/webhook-event.processor.ts).              *)
(*                                                                         *)
(* A request delivers an event, retries a failed one or has one processed  *)
(* by hand.  In queue mode it leaves a BullMQ job that a worker executes,  *)
(* in sync mode it executes the event itself; either way each ACTIVE       *)
(* pipeline of the connector gets a run and a record.  An event is named   *)
(* by the request that created it, a job by the request that queued it.    *)
(* One action is one awaited write; audit rows are no state, but they may  *)
(* reject like any other call.                                             *)
(***************************************************************************)
EXTENDS Integers, FiniteSets

CONSTANTS
  Requests, Kinds,    \* requests, and which of them are made
  Executors,          \* worker processes, or requests served at once
  Pipelines, Broken,  \* those of the connector, and those whose mapping fails
  Keys, NoKey,        \* idempotency keys, and an event sent without one
  KnownConnector,     \* whether the connector may be found or not
  Async,              \* QUEUE_MODE
  MaxAttempts, MaxStalled, MaxFaults, MaxToggles,  \* bounds
  None

ASSUME WebhooksAssumption ==
  /\ Kinds \subseteq {"deliver", "retry", "process"}
  /\ Broken \subseteq Pipelines /\ KnownConnector \subseteq BOOLEAN /\ Async \in BOOLEAN
  /\ MaxAttempts \in Nat \ {0} /\ MaxStalled \in Nat /\ MaxFaults \in Nat /\ MaxToggles \in Nat
  /\ NoKey \notin Keys /\ None \notin Requests \cup Pipelines
  /\ IsFiniteSet(Requests) /\ IsFiniteSet(Executors)

EventStatus == {"NONE", "RECEIVED", "PROCESSED", "FAILED", "IGNORED"}
JobStatus == {"NONE", "QUEUED", "PROCESSING", "COMPLETED", "FAILED"}
RequestSteps == {"new", "create", "reset", "job", "enqueue", "now", "executing",
                 "answered", "rejected", "failed"}
BullStates == {"none", "waiting", "active", "delayed", "completed", "failed"}
InTry == {"read", "loop", "run", "stored", "complete", "return"}
ExecutorSteps == {"idle", "mark", "failEvent", "failJob", "rethrow"} \cup InTry

VARIABLES
  req,        \* each request: step, key, event
  event,      \* WebhookEvent; "seen": the pipelines of the execution that settled it
  job,        \* the BackgroundJob row of a request
  bull,       \* its BullMQ job
  ex,         \* each executor: step, request, pipelines seen, left and in hand
  active,     \* the ACTIVE pipelines of the connector
  running,    \* SyncRun rows of a pipeline left RUNNING
  records,    \* SyncedRecord rows of an event for a pipeline
  faults, toggles, \* used up so far
  started     \* history: executions of an event

vars == <<req, event, job, bull, ex, active, running, records, faults, toggles, started>>

NewRequest == [pc |-> "new", key |-> NoKey, event |-> None]
NoEvent == [status |-> "NONE", key |-> NoKey, known |-> FALSE, seen |-> {}]
NoJob == [state |-> "none", made |-> 0, stalls |-> 0]
Idle == [pc |-> "idle", r |-> None, seen |-> {}, todo |-> {}, p |-> None]

Init ==
  /\ req = [r \in Requests |-> NewRequest]
  /\ event = [e \in Requests |-> NoEvent]
  /\ job = [r \in Requests |-> "NONE"]
  /\ bull = [r \in Requests |-> NoJob]
  /\ ex = [x \in Executors |-> Idle]
  /\ active \in SUBSET Pipelines
  /\ running = [p \in Pipelines |-> 0]
  /\ records = [e \in Requests |-> [p \in Pipelines |-> 0]]
  /\ faults = 0 /\ toggles = 0
  /\ started = [e \in Requests |-> 0]

----------------------------------------------------------------------------
(* Requests.                                                               *)

HasEvent(k) == k # NoKey /\ \E e \in Requests : event[e].status # "NONE" /\ event[e].key = k

\* The idempotency lookup of receiveEvent: a known key is answered at once.
Deliver(r, k) ==
  /\ "deliver" \in Kinds /\ req[r].pc = "new"
  /\ req' = [req EXCEPT ![r].key = k, ![r].pc = IF HasEvent(k) THEN "answered" ELSE "create"]
  /\ UNCHANGED <<event, job, bull, ex, active, running, records, faults, toggles, started>>

AfterEvent == IF Async THEN "job" ELSE "now"

\* The create, which the unique key (sourceConnectorRef, idempotencyKey) rejects
\* when a delivery of the same key came in between.
CreateEvent(r) ==
  /\ req[r].pc = "create"
  /\ \/ /\ HasEvent(req[r].key)
        /\ req' = [req EXCEPT ![r].pc = "rejected"]
        /\ UNCHANGED event
     \/ /\ ~ HasEvent(req[r].key)
        /\ \E known \in KnownConnector :
             event' = [event EXCEPT ![r] =
               [status |-> "RECEIVED", key |-> req[r].key, known |-> known, seen |-> {}]]
        /\ req' = [req EXCEPT ![r].pc = AfterEvent, ![r].event = r]
  /\ UNCHANGED <<job, bull, ex, active, running, records, faults, toggles, started>>

\* The checks of retryEvent and processEvent, on the status they read.
MayRetry(e) == event[e].status = "FAILED"
MayProcess(e) == event[e].status \in {"RECEIVED", "FAILED"}

BeginAgain(r, e) ==
  /\ req[r].pc = "new"
  /\ \/ "retry" \in Kinds /\ MayRetry(e)
     \/ "process" \in Kinds /\ MayProcess(e)
  /\ req' = [req EXCEPT ![r].pc = "reset", ![r].event = e]
  /\ UNCHANGED <<event, job, bull, ex, active, running, records, faults, toggles, started>>

Reset(r) ==
  /\ req[r].pc = "reset"
  /\ event' = [event EXCEPT ![req[r].event].status = "RECEIVED"]
  /\ req' = [req EXCEPT ![r].pc = AfterEvent]
  /\ UNCHANGED <<job, bull, ex, active, running, records, faults, toggles, started>>

CreateJob(r) ==
  /\ req[r].pc = "job"
  /\ job' = [job EXCEPT ![r] = "QUEUED"]
  /\ req' = [req EXCEPT ![r].pc = "enqueue"]
  /\ UNCHANGED <<event, bull, ex, active, running, records, faults, toggles, started>>

\* Mutant: the job is named after its event, and BullMQ keeps the one it has.
EnqueueOnce(r) ==
  /\ req[r].pc = "enqueue"
  /\ bull' = IF \E s \in Requests : req[s].event = req[r].event /\ bull[s].state # "none"
               THEN bull ELSE [bull EXCEPT ![r].state = "waiting"]
  /\ req' = [req EXCEPT ![r].pc = "answered"]
  /\ UNCHANGED <<event, job, ex, active, running, records, faults, toggles, started>>
Enqueue(r) ==
  /\ req[r].pc = "enqueue"
  /\ bull' = [bull EXCEPT ![r].state = "waiting"]
  /\ req' = [req EXCEPT ![r].pc = "answered"]
  /\ UNCHANGED <<event, job, ex, active, running, records, faults, toggles, started>>

\* A rejected call or a death of the API process before the job is queued.
RequestFails(r) ==
  /\ req[r].pc \in {"create", "reset", "job", "enqueue", "now"} /\ faults < MaxFaults
  /\ req' = [req EXCEPT ![r].pc = "failed"]
  /\ faults' = faults + 1
  /\ UNCHANGED <<event, job, bull, ex, active, running, records, toggles, started>>

\* A pipeline's status changes.
Toggle(p) ==
  /\ toggles < MaxToggles /\ toggles' = toggles + 1
  /\ active' = IF p \in active THEN active \ {p} ELSE active \cup {p}
  /\ UNCHANGED <<req, event, job, bull, ex, running, records, faults, started>>

----------------------------------------------------------------------------
(* Executions.                                                             *)

EventOf(x) == req[ex[x].r].event
Begin(x, r, pc) ==
  /\ ex[x].pc = "idle"
  /\ ex' = [ex EXCEPT ![x] = [Idle EXCEPT !.pc = pc, !.r = r]]
  /\ started' = [started EXCEPT ![req[r].event] = started[req[r].event] + 1]

\* A worker takes a job; in sync mode the request executes its event.
Take(x, r) ==
  /\ \/ /\ bull[r].state = "waiting" /\ Begin(x, r, "mark")
        /\ bull' = [bull EXCEPT ![r].state = "active"]
        /\ UNCHANGED req
     \/ /\ req[r].pc = "now" /\ Begin(x, r, "read")
        /\ req' = [req EXCEPT ![r].pc = "executing"]
        /\ UNCHANGED bull
  /\ UNCHANGED <<event, job, active, running, records, faults, toggles>>

MarkProcessing(x) ==
  /\ ex[x].pc = "mark"
  /\ job' = [job EXCEPT ![ex[x].r] = "PROCESSING"]
  /\ ex' = [ex EXCEPT ![x].pc = "read"]
  /\ UNCHANGED <<req, event, bull, active, running, records, faults, toggles, started>>

\* processWebhookEventNow reads the event, its connector and the ACTIVE pipelines.
Read(x) ==
  /\ ex[x].pc = "read"
  /\ LET seen == IF event[EventOf(x)].known THEN active ELSE {}
     IN  ex' = [ex EXCEPT ![x].pc = "loop", ![x].seen = seen, ![x].todo = seen]
  /\ UNCHANGED <<req, event, job, bull, active, running, records, faults, toggles, started>>

CreateRun(x, p) ==
  /\ ex[x].pc = "loop" /\ p \in ex[x].todo
  /\ running' = [running EXCEPT ![p] = running[p] + 1]
  /\ ex' = [ex EXCEPT ![x].pc = "run", ![x].p = p, ![x].todo = ex[x].todo \ {p}]
  /\ UNCHANGED <<req, event, job, bull, active, records, faults, toggles, started>>

EndRun(x) ==
  /\ running' = [running EXCEPT ![ex[x].p] = running[ex[x].p] - 1]
  /\ ex' = [ex EXCEPT ![x].pc = "loop"]
  /\ UNCHANGED <<req, event, job, bull, active, records, faults, toggles, started>>

\* Mutants of FailRun: a rejected record leaves the run as it is; a record that
\* cannot be stored is treated like a rejected one.
SkipRun(x) == /\ ex[x].pc = "run" /\ ex[x].p \in Broken
              /\ ex' = [ex EXCEPT ![x].pc = "loop"]
              /\ UNCHANGED <<req, event, job, bull, active, running, records, faults, toggles, started>>
FailAnyRun(x) == ex[x].pc = "run" /\ EndRun(x)

\* processWebhookForPipeline: the mapping or the record is rejected, the run FAILED.
FailRun(x) == ex[x].pc = "run" /\ ex[x].p \in Broken /\ EndRun(x)

\* Mutant: the create is repeated although it succeeded.
StoreRecordAgain(x) ==
  /\ ex[x].pc = "run" /\ ex[x].p \notin Broken
  /\ records' = [records EXCEPT ![EventOf(x)][ex[x].p] = records[EventOf(x)][ex[x].p] + 1]
  /\ \E pc \in {"run", "stored"} : ex' = [ex EXCEPT ![x].pc = pc]
  /\ UNCHANGED <<req, event, job, bull, active, running, faults, toggles, started>>
StoreRecord(x) ==
  /\ ex[x].pc = "run" /\ ex[x].p \notin Broken
  /\ records' = [records EXCEPT ![EventOf(x)][ex[x].p] = records[EventOf(x)][ex[x].p] + 1]
  /\ ex' = [ex EXCEPT ![x].pc = "stored"]
  /\ UNCHANGED <<req, event, job, bull, active, running, faults, toggles, started>>

SucceedRun(x) == ex[x].pc = "stored" /\ EndRun(x)

\* Mutant: without pipelines there is nothing to update.
VerdictOfSome(x) == CASE ~ event[EventOf(x)].known -> "FAILED"
                      [] event[EventOf(x)].known /\ ex[x].seen = {} -> "RECEIVED"
                      [] OTHER -> "PROCESSED"
\* The end of processWebhookEventNow, in each of its three branches.
Verdict(x) == CASE ~ event[EventOf(x)].known -> "FAILED"
                [] event[EventOf(x)].known /\ ex[x].seen = {} -> "IGNORED"
                [] OTHER -> "PROCESSED"

Settle(x) ==
  /\ ex[x].pc = "loop" /\ ex[x].todo = {}
  /\ event' = [event EXCEPT ![EventOf(x)].status = Verdict(x), ![EventOf(x)].seen = ex[x].seen]
  /\ ex' = [ex EXCEPT ![x].pc = IF Async THEN "complete" ELSE "return"]
  /\ UNCHANGED <<req, job, bull, active, running, records, faults, toggles, started>>

CompleteJob(x) ==
  /\ ex[x].pc = "complete"
  /\ job' = [job EXCEPT ![ex[x].r] = "COMPLETED"]
  /\ ex' = [ex EXCEPT ![x].pc = "return"]
  /\ UNCHANGED <<req, event, bull, active, running, records, faults, toggles, started>>

\* The handler returns: the BullMQ job is completed, or the request answered.
Return(x) ==
  /\ ex[x].pc = "return"
  /\ IF Async THEN bull' = [bull EXCEPT ![ex[x].r].state = "completed"] /\ UNCHANGED req
              ELSE req' = [req EXCEPT ![ex[x].r].pc = "answered"] /\ UNCHANGED bull
  /\ ex' = [ex EXCEPT ![x] = Idle]
  /\ UNCHANGED <<event, job, active, running, records, faults, toggles, started>>

----------------------------------------------------------------------------
(* Faults and recovery.                                                    *)

\* A call rejects.  In queue mode the try block has a catch; sync mode has none.
\* "read" stands for the audits that precede the try block and for the read in it.
Throw(x) ==
  /\ ex[x].pc \notin {"idle", "rethrow"} /\ faults < MaxFaults
  /\ faults' = faults + 1
  /\ IF Async
       THEN /\ \/ ex[x].pc \in InTry /\ ex' = [ex EXCEPT ![x].pc = "failEvent"]
               \/ ex[x].pc \notin InTry \ {"read"} /\ ex' = [ex EXCEPT ![x].pc = "rethrow"]
            /\ UNCHANGED req
       ELSE /\ ex' = [ex EXCEPT ![x] = Idle]
            /\ req' = [req EXCEPT ![ex[x].r].pc = "failed"]
  /\ UNCHANGED <<event, job, bull, active, running, records, toggles, started>>

FailEvent(x) ==
  /\ ex[x].pc = "failEvent"
  /\ event' = [event EXCEPT ![EventOf(x)].status = "FAILED"]
  /\ ex' = [ex EXCEPT ![x].pc = "failJob"]
  /\ UNCHANGED <<req, job, bull, active, running, records, faults, toggles, started>>

FailJob(x) ==
  /\ ex[x].pc = "failJob"
  /\ job' = [job EXCEPT ![ex[x].r] = "FAILED"]
  /\ ex' = [ex EXCEPT ![x].pc = "rethrow"]
  /\ UNCHANGED <<req, event, bull, active, running, records, faults, toggles, started>>

\* BullMQ counts the attempt and delays the next one, if there is one.
Rethrow(x) ==
  /\ ex[x].pc = "rethrow"
  /\ LET b == bull[ex[x].r]
     IN  bull' = [bull EXCEPT ![ex[x].r] = [b EXCEPT !.made = b.made + 1,
           !.state = IF b.made + 1 < MaxAttempts THEN "delayed" ELSE "failed"]]
  /\ ex' = [ex EXCEPT ![x] = Idle]
  /\ UNCHANGED <<req, event, job, active, running, records, faults, toggles, started>>

Backoff(r) ==
  /\ bull[r].state = "delayed"
  /\ bull' = [bull EXCEPT ![r].state = "waiting"]
  /\ UNCHANGED <<req, event, job, ex, active, running, records, faults, toggles, started>>

\* The process dies; BullMQ hands a worker's job out again when its lock is gone.
Crash(x) ==
  /\ ex[x].pc # "idle" /\ faults < MaxFaults
  /\ faults' = faults + 1
  /\ ex' = [ex EXCEPT ![x] = Idle]
  /\ req' = IF Async THEN req ELSE [req EXCEPT ![ex[x].r].pc = "failed"]
  /\ UNCHANGED <<event, job, bull, active, running, records, toggles, started>>

Stalled(r) ==
  /\ bull[r].state = "active" /\ \A x \in Executors : ex[x].r # r
  /\ bull' = [bull EXCEPT ![r].stalls = bull[r].stalls + 1,
                ![r].state = IF bull[r].stalls < MaxStalled THEN "waiting" ELSE "failed"]
  /\ UNCHANGED <<req, event, job, ex, active, running, records, faults, toggles, started>>

RequestStep(r) == CreateEvent(r) \/ Reset(r) \/ CreateJob(r) \/ Enqueue(r)
ExecutorStep(x) ==
  \/ MarkProcessing(x) \/ Read(x) \/ FailRun(x) \/ StoreRecord(x) \/ SucceedRun(x)
  \/ Settle(x) \/ CompleteJob(x) \/ Return(x) \/ FailEvent(x) \/ FailJob(x) \/ Rethrow(x)
  \/ \E p \in Pipelines : CreateRun(x, p)

Next ==
  \/ \E r \in Requests :
       \/ \E k \in Keys \cup {NoKey} : Deliver(r, k)
       \/ \E e \in Requests : BeginAgain(r, e)
       \/ RequestStep(r) \/ RequestFails(r) \/ Backoff(r) \/ Stalled(r)
       \/ \E x \in Executors : Take(x, r)
  \/ \E x \in Executors : ExecutorStep(x) \/ Throw(x) \/ Crash(x)
  \/ \E p \in Pipelines : Toggle(p)

Spec == Init /\ [][Next]_vars

\* Begun requests go on, workers work, BullMQ hands out, delays and detects stalls.
FairSpec ==
  /\ Spec
  /\ \A r \in Requests : WF_vars(RequestStep(r)) /\ WF_vars(Backoff(r)) /\ WF_vars(Stalled(r))
  /\ \A x \in Executors : WF_vars(ExecutorStep(x))
  /\ WF_vars(\E x \in Executors, r \in Requests : Take(x, r))

----------------------------------------------------------------------------
(* Properties.                                                             *)

\* Types; an executor that works has a request with an event.
TypeOK ==
  /\ req \in [Requests -> [pc : RequestSteps, key : Keys \cup {NoKey}, event : Requests \cup {None}]]
  /\ event \in [Requests -> [status : EventStatus, key : Keys \cup {NoKey}, known : BOOLEAN,
                              seen : SUBSET Pipelines]]
  /\ job \in [Requests -> JobStatus]
  /\ bull \in [Requests -> [state : BullStates, made : Nat, stalls : Nat]]
  /\ ex \in [Executors -> [pc : ExecutorSteps, r : Requests \cup {None}, seen : SUBSET Pipelines,
                            todo : SUBSET Pipelines, p : Pipelines \cup {None}]]
  /\ active \in SUBSET Pipelines
  /\ running \in [Pipelines -> Nat]
  /\ records \in [Requests -> [Pipelines -> Nat]]
  /\ faults \in 0..MaxFaults /\ toggles \in 0..MaxToggles
  /\ started \in [Requests -> Nat]
  /\ \A x \in Executors : ex[x].pc # "idle" => ex[x].r \in Requests /\ EventOf(x) \in Requests
  /\ \A x \in Executors : ex[x].pc \in {"run", "stored"} => ex[x].p \in Pipelines
  /\ \A r \in Requests : req[r].pc \in {"reset", "job", "enqueue", "now", "executing"}
                          \/ bull[r].state # "none" => req[r].event \in Requests

\* PROCESSED says that the execution which settled the event met each pipeline
\* and left a record for it, or its mapping rejects the payload.
ProcessedIsComplete ==
  \A e \in Requests : event[e].status = "PROCESSED" =>
    event[e].seen # {} /\ \A p \in event[e].seen \ Broken : records[e][p] > 0

\* A run is RUNNING only while an executor has it in hand, but for one run a fault.
OrphansCostFaults ==
  \A p \in Pipelines :
    running[p] <= Cardinality({x \in Executors : ex[x].pc \in {"run", "stored"} /\ ex[x].p = p})
                  + faults

\* A record is stored once for each request that has the event processed, and
\* again only after a fault.
RecordsCostRequests ==
  \A e \in Requests, p \in Pipelines :
    records[e][p] <= Cardinality({r \in Requests : req[r].event = e}) + faults

\* Each event left RECEIVED, with nobody at work on it, has cost a fault of its own.
UnderWay(r) == \/ req[r].pc \in {"reset", "job", "enqueue", "now", "executing"}
               \/ bull[r].state \in {"waiting", "active", "delayed"}
StuckEventsCostFaults ==
  Cardinality({e \in Requests : /\ event[e].status = "RECEIVED"
                                /\ \A r \in Requests : req[r].event = e => ~ UnderWay(r)}) <= faults

\* An event that was received, or reset, is settled, unless something fails.
EventIsSettled ==
  \A e \in Requests : event[e].status = "RECEIVED"
    ~> event[e].status \in {"PROCESSED", "IGNORED", "FAILED"} \/ faults > 0
=============================================================================
