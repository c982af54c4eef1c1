----------------------------- MODULE Scheduler -----------------------------
(***************************************************************************)
(* The scheduler: poll cycles of the worker processes, the trigger and     *)
(* schedule endpoints, and status changes, all working on the same         *)
(* pipeline rows without transactions (scheduler.service.ts).              *)
(*                                                                         *)
(* A cron expression is the set of times it matches (module Cron says how  *)
(* the code computes it); a run is counted, not described (SyncRuns says   *)
(* how it executes).  Runs are queued, as where the worker polls           *)
(* (QUEUE_MODE=async).  One action is one awaited call, except that the    *)
(* two rows of a new run, neither of which executes, are one.              *)
(***************************************************************************)
EXTENDS Integers, FiniteSets

CONSTANTS
  Pipelines,
  Pollers,      \* worker processes with the scheduler enabled
  Users,        \* requests being served at once
  Crons,        \* the cron expressions, as sets of times
  MaxTime,      \* bounds the clock
  MaxFaults,    \* bounds rejected calls and process deaths
  MaxRetries,   \* bounds BullMQ's retries of scheduled runs, per pipeline
  MaxRequests,  \* bounds requests and webhook runs
  NoPipeline

Times == 0..MaxTime
Never == MaxTime + 1            \* nextRunAt: null, which no "lte now" selects

ASSUME SchedulerAssumption ==
  /\ MaxTime \in Nat /\ MaxFaults \in Nat /\ MaxRetries \in Nat
  /\ MaxRequests \in Nat /\ NoPipeline \notin Pipelines
  /\ Crons \subseteq SUBSET Times /\ Crons # {}
  /\ IsFiniteSet(Pollers) /\ IsFiniteSet(Users)

PipelineStatus == {"ACTIVE", "PAUSED", "ARCHIVED"}
PollSteps == {"idle", "reading", "loop", "create", "enqueue", "reschedule"}
Rows == [status: PipelineStatus, enabled: BOOLEAN, cron: Crons, next: Times \cup {Never}]

VARIABLES
  now,          \* the clock
  row,          \* SyncPipeline: status and schedule columns
  active,       \* its scheduled runs that are in BullMQ, QUEUED or RUNNING
  others,       \* its QUEUED and RUNNING manual and webhook runs
  left,         \* its runs that a fault has left QUEUED or RUNNING, to no end
  waiting,      \* its FAILED scheduled runs that BullMQ will retry
  poller,       \* each poller: step, start of the cycle, rows read, row in hand
  user,         \* each request: step and what it read or computed
  faults, requests, retried,                       \* used up so far
  fired,        \* history: runs created by polls for a due time
  late          \* history: runs created by polls since the pipeline was stopped

runVars == <<active, others, left, waiting, retried>>
vars == <<now, row, runVars, poller, user, faults, requests, fired, late>>

AtRest == [pc |-> "idle", began |-> 0, due |-> {}, seen |-> [p \in {} |-> 0], p |-> NoPipeline]
NoRequest == [pc |-> "idle", p |-> NoPipeline]

Schedulable(r) == r.status = "ACTIVE" /\ r.enabled

\* Mutant of IsNextRun: the search starts at the base time itself.
IsNextRunFromBase(n, c, t) == /\ n \in {x \in c : x >= t} \cup {Never}
                              /\ \A x \in c : x >= t => n <= x

\* computeNextRunAt: n is the first match of c strictly after t, if any.
IsNextRun(n, c, t) == /\ n \in {x \in c : x > t} \cup {Never}
                      /\ \A x \in c : x > t => n <= x

\* A caller at "enqueue" has made a run's rows: the run is QUEUED and not in BullMQ.
IsQueuing(p) == \/ \E w \in Pollers : poller[w].pc = "enqueue" /\ poller[w].p = p
                \/ \E u \in Users : user[u].pc = "enqueue" /\ user[u].p = p

\* Mutant: only runs of other triggers are counted.
HasOtherRun(p) == others[p] > 0

HasActiveRun(p) == active[p] + others[p] + left[p] > 0 \/ IsQueuing(p)

Init ==
  /\ now = 0
  /\ row \in [Pipelines -> {r \in Rows : Schedulable(r) /\ IsNextRun(r.next, r.cron, 0)}]
  /\ active = [p \in Pipelines |-> 0]
  /\ others = [p \in Pipelines |-> 0]
  /\ left = [p \in Pipelines |-> 0]
  /\ waiting = [p \in Pipelines |-> 0]
  /\ poller = [w \in Pollers |-> AtRest]
  /\ user = [u \in Users |-> NoRequest]
  /\ faults = 0
  /\ requests = 0
  /\ retried = [p \in Pipelines |-> 0]
  /\ fired = [p \in Pipelines |-> [d \in Times |-> 0]]
  /\ late = [p \in Pipelines |-> 0]

Tick == /\ now < MaxTime
        /\ now' = now + 1
        /\ UNCHANGED <<row, runVars, poller, user, faults, requests, fired, late>>

----------------------------------------------------------------------------
(* The poll cycle.                                                         *)

\* pollInProgress and lockUntil are set and reset together, so a cycle starts
\* when the one before has ended; "now" is read before the database answers.
BeginPoll(w) ==
  /\ poller[w].pc = "idle"
  /\ poller' = [poller EXCEPT ![w] = [AtRest EXCEPT !.pc = "reading", !.began = now]]
  /\ UNCHANGED <<now, row, runVars, user, faults, requests, fired, late>>

\* The query of enqueueDuePipelines.  Mutant: only the flag is asked for.
IsFlagged(r, t) == r.enabled /\ r.next <= t
IsDue(r, t) == Schedulable(r) /\ r.next <= t

ReadDue(w) ==
  /\ poller[w].pc = "reading"
  /\ LET due == {p \in Pipelines : IsDue(row[p], poller[w].began)}
     IN  poller' = [poller EXCEPT ![w].pc = "loop", ![w].due = due,
                                  ![w].seen = [p \in due |-> row[p]]]
  /\ UNCHANGED <<now, row, runVars, user, faults, requests, fired, late>>

IsFirstDue(w, p) ==
  /\ p \in poller[w].due
  /\ \A q \in poller[w].due : poller[w].seen[p].next <= poller[w].seen[q].next

\* A pipeline with an active run is skipped; it keeps its nextRunAt.
CheckDue(w) ==
  /\ poller[w].pc = "loop"
  /\ \E p \in Pipelines :
       /\ IsFirstDue(w, p)
       /\ poller' = [poller EXCEPT ![w].due = poller[w].due \ {p},
            ![w].p = p, ![w].pc = IF HasActiveRun(p) THEN "loop" ELSE "create"]
  /\ UNCHANGED <<now, row, runVars, user, faults, requests, fired, late>>

\* createScheduledForPipeline reads the row again, and not its status; the run is
\* QUEUED from here on.
CreateDue(w) ==
  /\ poller[w].pc = "create"
  /\ LET p == poller[w].p IN
       /\ fired' = [fired EXCEPT ![p][poller[w].seen[p].next] = fired[p][poller[w].seen[p].next] + 1]
       /\ late' = IF Schedulable(row[p]) THEN late ELSE [late EXCEPT ![p] = late[p] + 1]
  /\ poller' = [poller EXCEPT ![w].pc = "enqueue"]
  /\ UNCHANGED <<now, row, runVars, user, faults, requests>>

\* The run's job is in BullMQ; a call that fails later leaves it there.
EnqueueDue(w) ==
  /\ poller[w].pc = "enqueue"
  /\ active' = [active EXCEPT ![poller[w].p] = active[poller[w].p] + 1]
  /\ poller' = [poller EXCEPT ![w].pc = "reschedule"]
  /\ UNCHANGED <<now, row, others, left, waiting, retried, user, faults, requests, fired, late>>

\* nextRunAt comes from the cron that was read and the start of the cycle.
Reschedule(w) ==
  /\ poller[w].pc = "reschedule"
  /\ \E n \in Times \cup {Never} :
       /\ IsNextRun(n, poller[w].seen[poller[w].p].cron, poller[w].began)
       /\ row' = [row EXCEPT ![poller[w].p].next = n]
  /\ poller' = [poller EXCEPT ![w].pc = "loop"]
  /\ UNCHANGED <<now, runVars, user, faults, requests, fired, late>>

EndPoll(w) ==
  /\ poller[w].pc = "loop" /\ poller[w].due = {}
  /\ poller' = [poller EXCEPT ![w] = AtRest]
  /\ UNCHANGED <<now, row, runVars, user, faults, requests, fired, late>>

\* Mutant: without the finally block, pollInProgress stays set.
Jammed(w) == [AtRest EXCEPT !.pc = "jammed"]
AfterFailure(w) == AtRest

\* What a caller x that fails makes of the runs: the rows of one stay behind.
LeftBy(x) == IF x.pc = "enqueue" THEN [left EXCEPT ![x.p] = left[x.p] + 1] ELSE left

\* A call rejects, the cycle ends in catch and finally; or the process dies.
PollFails(w) ==
  /\ poller[w].pc # "idle" /\ faults < MaxFaults
  /\ left' = LeftBy(poller[w])
  /\ poller' = [poller EXCEPT ![w] = AfterFailure(w)]
  /\ faults' = faults + 1
  /\ UNCHANGED <<now, row, active, others, waiting, retried, user, requests, fired, late>>

----------------------------------------------------------------------------
(* Requests.                                                               *)

\* What a write of r makes of the history of late runs.
LateAfter(p, r) == IF Schedulable(r) THEN [late EXCEPT ![p] = 0] ELSE late

\* findOne, the checks and the computation of nextRunAt; a disabled schedule
\* keeps its cron.
BeginScheduleUpdate(u, p, e, c) ==
  /\ user[u].pc = "idle" /\ requests < MaxRequests
  /\ ~ (row[p].status = "ARCHIVED" /\ e)
  /\ \E n \in Times \cup {Never} :
       /\ IF e /\ row[p].status = "ACTIVE" THEN IsNextRun(n, c, now) ELSE n = Never
       /\ user' = [user EXCEPT ![u] = [pc |-> "write", p |-> p, enabled |-> e,
                     cron |-> IF e THEN c ELSE row[p].cron, next |-> n]]
  /\ requests' = requests + 1
  /\ UNCHANGED <<now, row, runVars, poller, faults, fired, late>>

WriteSchedule(u) ==
  /\ user[u].pc = "write"
  /\ LET p == user[u].p
         r == [status |-> row[p].status, enabled |-> user[u].enabled,
               cron |-> user[u].cron, next |-> user[u].next]
     IN  row' = [row EXCEPT ![p] = r] /\ late' = LateAfter(p, r)
  /\ user' = [user EXCEPT ![u] = NoRequest]
  /\ UNCHANGED <<now, runVars, poller, faults, requests, fired>>

\* The status endpoints write the status and never nextRunAt.
SetStatus(p, s) ==
  /\ requests < MaxRequests /\ s # row[p].status
  /\ LET r == [row[p] EXCEPT !.status = s]
     IN  row' = [row EXCEPT ![p] = r] /\ late' = LateAfter(p, r)
  /\ requests' = requests + 1
  /\ UNCHANGED <<now, runVars, poller, user, faults, fired>>

BeginTrigger(u, p) ==
  /\ user[u].pc = "idle" /\ requests < MaxRequests
  /\ row[p].status = "ACTIVE"
  /\ user' = [user EXCEPT ![u] = [pc |-> "check", p |-> p]]
  /\ requests' = requests + 1
  /\ UNCHANGED <<now, row, runVars, poller, faults, fired, late>>

CheckTrigger(u) ==
  /\ user[u].pc = "check"
  /\ user' = [user EXCEPT ![u] = IF HasActiveRun(user[u].p) THEN NoRequest
                                 ELSE [pc |-> "create", p |-> user[u].p]]
  /\ UNCHANGED <<now, row, runVars, poller, faults, requests, fired, late>>

CreateTriggered(u) ==
  /\ user[u].pc = "create"
  /\ user' = [user EXCEPT ![u] = [pc |-> "enqueue", p |-> user[u].p]]
  /\ UNCHANGED <<now, row, runVars, poller, faults, requests, fired, late>>

EnqueueTriggered(u) ==
  /\ user[u].pc = "enqueue"
  /\ active' = [active EXCEPT ![user[u].p] = active[user[u].p] + 1]
  /\ user' = [user EXCEPT ![u] = NoRequest]
  /\ UNCHANGED <<now, row, others, left, waiting, retried, poller, faults, requests, fired, late>>

\* A call of the request rejects, or the process dies.
RequestFails(u) ==
  /\ user[u].pc # "idle" /\ faults < MaxFaults
  /\ left' = LeftBy(user[u])
  /\ user' = [user EXCEPT ![u] = NoRequest]
  /\ faults' = faults + 1
  /\ UNCHANGED <<now, row, active, others, waiting, retried, poller, requests, fired, late>>

----------------------------------------------------------------------------
(* Runs.                                                                   *)

RunEnds(p) ==
  /\ active[p] > 0
  /\ active' = [active EXCEPT ![p] = active[p] - 1]
  /\ UNCHANGED <<now, row, others, left, waiting, retried, poller, user, faults, requests, fired, late>>

\* The run is FAILED while BullMQ's backoff lasts, and RUNNING again after it.
RunFailsForNow(p) ==
  /\ active[p] > 0 /\ retried[p] < MaxRetries
  /\ active' = [active EXCEPT ![p] = active[p] - 1]
  /\ waiting' = [waiting EXCEPT ![p] = waiting[p] + 1]
  /\ retried' = [retried EXCEPT ![p] = retried[p] + 1]
  /\ UNCHANGED <<now, row, others, left, poller, user, faults, requests, fired, late>>

RunRetries(p) ==
  /\ waiting[p] > 0
  /\ waiting' = [waiting EXCEPT ![p] = waiting[p] - 1]
  /\ active' = [active EXCEPT ![p] = active[p] + 1]
  /\ UNCHANGED <<now, row, others, left, retried, poller, user, faults, requests, fired, late>>

\* Manual and webhook runs ask neither the status nor for active runs.
OtherRunBegins(p) ==
  /\ requests < MaxRequests
  /\ others' = [others EXCEPT ![p] = others[p] + 1]
  /\ requests' = requests + 1
  /\ UNCHANGED <<now, row, active, left, waiting, retried, poller, user, faults, fired, late>>

OtherRunEnds(p) ==
  /\ others[p] > 0
  /\ others' = [others EXCEPT ![p] = others[p] - 1]
  /\ UNCHANGED <<now, row, active, left, waiting, retried, poller, user, faults, requests, fired, late>>

\* The last attempt dies, or fails so that FAILED is not written either; or the
\* manual request fails between its run's rows and the job.
RunIsLeft(p) ==
  /\ faults < MaxFaults
  /\ \/ active[p] > 0 /\ active' = [active EXCEPT ![p] = active[p] - 1] /\ UNCHANGED others
     \/ others[p] > 0 /\ others' = [others EXCEPT ![p] = others[p] - 1] /\ UNCHANGED active
  /\ left' = [left EXCEPT ![p] = left[p] + 1]
  /\ faults' = faults + 1
  /\ UNCHANGED <<now, row, waiting, retried, poller, user, requests, fired, late>>

PollStep(w) == BeginPoll(w) \/ ReadDue(w) \/ CheckDue(w) \/ CreateDue(w)
               \/ EnqueueDue(w) \/ Reschedule(w) \/ EndPoll(w)
UserStep(u) == WriteSchedule(u) \/ CheckTrigger(u) \/ CreateTriggered(u) \/ EnqueueTriggered(u)
Request(u, p) == BeginTrigger(u, p)
                 \/ \E e \in BOOLEAN, c \in Crons : BeginScheduleUpdate(u, p, e, c)

Next ==
  \/ Tick
  \/ \E w \in Pollers : PollStep(w) \/ PollFails(w)
  \/ \E u \in Users : UserStep(u) \/ RequestFails(u) \/ \E p \in Pipelines : Request(u, p)
  \/ \E p \in Pipelines :
       \/ \E s \in PipelineStatus : SetStatus(p, s)
       \/ RunEnds(p) \/ RunFailsForNow(p) \/ RunRetries(p)
       \/ OtherRunBegins(p) \/ OtherRunEnds(p) \/ RunIsLeft(p)

Spec == Init /\ [][Next]_vars

\* Timers fire, settled calls continue, and a run that is in BullMQ ends unless it
\* is left; nothing in the code ends a run that is left, so nothing here does.
FairSpec ==
  /\ Spec /\ WF_vars(Tick)
  /\ \A w \in Pollers : WF_vars(PollStep(w))
  /\ \A u \in Users : WF_vars(UserStep(u))
  /\ \A p \in Pipelines : WF_vars(RunEnds(p)) /\ WF_vars(RunRetries(p)) /\ WF_vars(OtherRunEnds(p))

----------------------------------------------------------------------------
(* Properties.                                                             *)

\* Types; a row in hand was read as due in this cycle.
TypeOK ==
  /\ now \in Times
  /\ row \in [Pipelines -> Rows]
  /\ active \in [Pipelines -> Nat] /\ others \in [Pipelines -> Nat]
  /\ left \in [Pipelines -> Nat]
  /\ waiting \in [Pipelines -> Nat] /\ retried \in [Pipelines -> 0..MaxRetries]
  /\ poller \in [Pollers -> [pc : PollSteps, began : Times, due : SUBSET Pipelines,
                   seen : UNION {[S -> Rows] : S \in SUBSET Pipelines},
                   p : Pipelines \cup {NoPipeline}]]
  /\ \A w \in Pollers :
       /\ poller[w].pc \in {"create", "enqueue", "reschedule"} => poller[w].p \in DOMAIN poller[w].seen
       /\ poller[w].due \subseteq DOMAIN poller[w].seen
       /\ \A p \in DOMAIN poller[w].seen : poller[w].seen[p].next <= poller[w].began
  /\ user \in [Users -> {NoRequest} \cup [pc : {"check", "create", "enqueue"}, p : Pipelines]
                \cup [pc : {"write"}, p : Pipelines, enabled : BOOLEAN, cron : Crons,
                      next : Times \cup {Never}]]
  /\ faults \in 0..MaxFaults /\ requests \in 0..MaxRequests
  /\ fired \in [Pipelines -> [Times -> Nat]]
  /\ late \in [Pipelines -> Nat]

\* hasActiveRun and the create are two steps: every poller and every trigger
\* may be between them, and a retry in its backoff is not seen, but that is all
\* that scheduled runs of one pipeline ever overlap.
OverlapIsBounded ==
  \A p \in Pipelines :
    active[p] <= Cardinality(Pollers) + Cardinality(Users) + retried[p]

\* A pipeline that is paused, archived or disabled is run by each poller at most
\* once more, for a row read before: a stale row does not outlive its cycle.
LateRunsAreBounded == \A p \in Pipelines : late[p] <= Cardinality(Pollers)

\* With one poller and no schedule update, a due time is run once, and once more
\* for each cycle that failed between the run and the new nextRunAt.
OncePerDueTime == \A p \in Pipelines, d \in Times : fired[p][d] <= 1 + faults

\* A due time that a skipped pipeline, a failed cycle or a retry has delayed is
\* served in the end, unless the schedule changes or a fault has left a run of the
\* pipeline QUEUED or RUNNING: hasActiveRun then holds for ever, and the pipeline is
\* never run again.
DueIsServed ==
  \A p \in Pipelines, d \in Times :
    (Schedulable(row[p]) /\ row[p].next = d /\ now >= d)
      ~> (~ Schedulable(row[p]) \/ row[p].next # d \/ left[p] > 0)
=============================================================================
