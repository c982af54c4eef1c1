---------------------------- MODULE WebhooksProofs ----------------------------
(***************************************************************************)
(* Theorems of Webhooks, for any number of requests, executors, pipelines, *)
(* attempts and faults, in queue mode and in sync mode.                    *)
(***************************************************************************)
EXTENDS Webhooks, FiniteSetTheorems, TLAPS

(* Types. *)

ReqType == [pc : RequestSteps, key : Keys \cup {NoKey}, event : Requests \cup {None}]
EventType == [status : EventStatus, key : Keys \cup {NoKey}, known : BOOLEAN,
              seen : SUBSET Pipelines]
BullType == [state : BullStates, made : Nat, stalls : Nat]
ExType == [pc : ExecutorSteps, r : Requests \cup {None}, seen : SUBSET Pipelines,
           todo : SUBSET Pipelines, p : Pipelines \cup {None}]

\* The tables, without what the counts of runs say.
TablesOK ==
  /\ req \in [Requests -> ReqType] /\ event \in [Requests -> EventType]
  /\ job \in [Requests -> JobStatus] /\ bull \in [Requests -> BullType]
  /\ ex \in [Executors -> ExType] /\ active \in SUBSET Pipelines
  /\ running \in [Pipelines -> Int] /\ records \in [Requests -> [Pipelines -> Nat]]
  /\ faults \in 0..MaxFaults /\ toggles \in 0..MaxToggles /\ started \in [Requests -> Nat]

\* A request: q with its BullMQ job in the state s.  It has an event from the
\* moment it created or read one, and is done once its job is queued.
RequestOK(q, s) ==
  /\ q.pc \in {"new", "create"} => q.event = None
  /\ q.pc \in {"reset", "job", "enqueue", "now", "executing"} => q.event \in Requests
  /\ s # "none" => q.event \in Requests /\ q.pc = "answered" /\ Async
  /\ q.pc \in {"job", "enqueue"} => Async
  /\ q.pc \in {"now", "executing"} => ~ Async

\* An executor at work holds a request with an event, and a pipeline while it
\* works on one.
WorkOK(y) ==
  /\ y.pc # "idle" => y.r \in Requests
  /\ y.pc = "idle" => y.r = None
  /\ y.pc \in {"run", "stored"} => y.p \in Pipelines /\ y.p \notin y.todo
  /\ y.pc \in {"mark", "complete", "failEvent", "failJob", "rethrow"} => Async

\* Its request is under way, in the one way of its mode.
HoldOK(y) ==
  y.pc # "idle" =>
    IF Async THEN bull[y.r].state = "active" ELSE req[y.r].pc = "executing"

Exclusive == \A x, y \in Executors : x # y /\ ex[x].r # None => ex[x].r # ex[y].r

TypeInv ==
  /\ TablesOK
  /\ \A r \in Requests : RequestOK(req[r], bull[r].state)
  /\ \A x \in Executors : WorkOK(ex[x]) /\ HoldOK(ex[x])
  /\ Exclusive

LEMMA TypeInit == Init => TypeInv
  <1> SUFFICES ASSUME Init PROVE TypeInv
    OBVIOUS
  <1>1. NewRequest \in ReqType /\ NoEvent \in EventType /\ NoJob \in BullType /\ Idle \in ExType
    BY DEF NewRequest, ReqType, RequestSteps, NoEvent, EventType, EventStatus, NoJob, BullType,
           BullStates, Idle, ExType, ExecutorSteps
  <1>2. TablesOK
    BY <1>1, WebhooksAssumption DEF Init, TablesOK, JobStatus
  <1>3. RequestOK(NewRequest, NoJob.state) /\ WorkOK(Idle) /\ Idle.pc = "idle" /\ Idle.r = None
    BY DEF NewRequest, NoJob, RequestOK, Idle, WorkOK
  <1>4. /\ \A r \in Requests : RequestOK(req[r], bull[r].state)
        /\ \A x \in Executors : WorkOK(ex[x]) /\ HoldOK(ex[x])
    BY <1>3 DEF Init, HoldOK
  <1>5. Exclusive
    BY <1>3 DEF Init, Exclusive
  <1> QED
    BY <1>2, <1>4, <1>5 DEF TypeInv

LEMMA Typed ==
  ASSUME TypeInv
  PROVE  /\ TablesOK /\ Exclusive
         /\ \A r \in Requests : /\ req[r] \in ReqType /\ bull[r] \in BullType
                                /\ event[r] \in EventType /\ RequestOK(req[r], bull[r].state)
         /\ \A x \in Executors : ex[x] \in ExType /\ WorkOK(ex[x]) /\ HoldOK(ex[x])
  BY DEF TypeInv, TablesOK

LEMMA EventOfType ==
  ASSUME TypeInv, NEW x \in Executors, ex[x].pc # "idle"
  PROVE  ex[x].r \in Requests /\ EventOf(x) \in Requests
  <1>1. ex[x].r \in Requests /\ HoldOK(ex[x]) /\ RequestOK(req[ex[x].r], bull[ex[x].r].state)
    BY Typed DEF WorkOK
  <1> QED
    BY <1>1 DEF EventOf, HoldOK, RequestOK

(* Steps of a request. *)

\* A request that no executor holds becomes q.
Asking(r, q) ==
  /\ req' = [req EXCEPT ![r] = q] /\ q \in ReqType
  /\ bull' \in [Requests -> BullType]
  /\ \A s \in Requests \ {r} : bull'[s] = bull[s]
  /\ RequestOK(q, bull'[r].state)
  /\ UNCHANGED ex
  /\ \A x \in Executors : ex[x].r # r
  /\ TablesOK'

LEMMA TypeAsking ==
  ASSUME TypeInv, NEW r \in Requests, NEW q, Asking(r, q)
  PROVE  TypeInv'
  <1>1. /\ req'[r] = q /\ \A s \in Requests \ {r} : req'[s] = req[s]
        /\ \A s \in Requests \ {r} : bull'[s] = bull[s]
        /\ ex' = ex /\ RequestOK(q, bull'[r].state)
    BY Typed DEF Asking, TablesOK
  <1>2. \A s \in Requests : RequestOK(req'[s], bull'[s].state)
    BY <1>1, Typed
  <1>3. ASSUME NEW x \in Executors PROVE WorkOK(ex'[x]) /\ HoldOK(ex[x])'
    <2>1. WorkOK(ex[x]) /\ HoldOK(ex[x]) /\ ex[x].r # r
      BY Typed DEF Asking
    <2> QED
      BY <1>1, <2>1 DEF HoldOK, WorkOK
  <1>4. Exclusive'
    BY <1>1, Typed DEF Exclusive
  <1> QED
    BY <1>2, <1>3, <1>4 DEF TypeInv, Asking

LEMMA NotHeld ==
  ASSUME TypeInv, NEW r \in Requests,
         \/ req[r].pc \notin {"answered", "executing"}
         \/ bull[r].state \notin {"none", "active"}
  PROVE  \A x \in Executors : ex[x].r # r
  <1> SUFFICES ASSUME NEW x \in Executors, ex[x].r = r PROVE FALSE
    OBVIOUS
  <1>1. ex[x].pc # "idle"
    BY Typed, WebhooksAssumption DEF WorkOK
  <1>2. /\ HoldOK(ex[x]) /\ RequestOK(req[r], bull[r].state)
    BY Typed
  <1> QED
    BY <1>1, <1>2 DEF HoldOK, RequestOK

LEMMA FaultLeft == faults \in 0..MaxFaults /\ faults < MaxFaults => faults + 1 \in 0..MaxFaults
  BY WebhooksAssumption

RequestAction(r) ==
  \/ \E k \in Keys \cup {NoKey} : Deliver(r, k)
  \/ \E e \in Requests : BeginAgain(r, e)
  \/ RequestStep(r) \/ RequestFails(r) \/ Backoff(r) \/ Stalled(r)

LEMMA RequestAsks ==
  ASSUME TypeInv, NEW r \in Requests, RequestAction(r)
  PROVE  \E q : Asking(r, q)
  <1>0. /\ TablesOK /\ req[r] \in ReqType /\ bull[r] \in BullType /\ event[r] \in EventType
        /\ RequestOK(req[r], bull[r].state)
    BY Typed
  <1>1. ASSUME NEW k \in Keys \cup {NoKey}, Deliver(r, k) PROVE \E q : Asking(r, q)
    <2> DEFINE pc == IF HasEvent(k) THEN "answered" ELSE "create"
    <2>1. pc \in {"answered", "create"}
      OBVIOUS
    <2> DEFINE q == [req[r] EXCEPT !.key = k, !.pc = pc]
    <2>2. req' = [req EXCEPT ![r] = q] /\ UNCHANGED <<event, job, bull, ex, active, running,
            records, faults, toggles, started>> /\ req[r].pc = "new"
      BY <1>1, <1>0 DEF Deliver, TablesOK
    <2> HIDE DEF pc
    <2>3. q \in ReqType /\ q.pc = pc /\ q.event = req[r].event
      BY <1>0, <2>1 DEF ReqType, RequestSteps
    <2>4. RequestOK(q, bull[r].state)
      BY <1>0, <2>1, <2>2, <2>3 DEF RequestOK
    <2>5. \A x \in Executors : ex[x].r # r
      BY <2>2, NotHeld
    <2> HIDE DEF q
    <2> QED
      BY <1>0, <2>2, <2>3, <2>4, <2>5 DEF Asking, TablesOK
  <1>2. ASSUME NEW e \in Requests, BeginAgain(r, e) PROVE \E q : Asking(r, q)
    <2> DEFINE q == [req[r] EXCEPT !.pc = "reset", !.event = e]
    <2>1. req' = [req EXCEPT ![r] = q] /\ UNCHANGED <<event, job, bull, ex, active, running,
            records, faults, toggles, started>> /\ req[r].pc = "new"
      BY <1>2, <1>0 DEF BeginAgain, TablesOK
    <2>2. q \in ReqType /\ q.pc = "reset" /\ q.event = e
      BY <1>0 DEF ReqType, RequestSteps
    <2>3. RequestOK(q, bull[r].state)
      BY <1>0, <2>1, <2>2 DEF RequestOK
    <2>4. \A x \in Executors : ex[x].r # r
      BY <2>1, NotHeld
    <2> HIDE DEF q
    <2> QED
      BY <1>0, <2>1, <2>2, <2>3, <2>4 DEF Asking, TablesOK
  <1>3. CASE CreateEvent(r)
    <2>1. \A x \in Executors : ex[x].r # r
      BY <1>3, NotHeld DEF CreateEvent
    <2>2. CASE HasEvent(req[r].key)
      <3> DEFINE q == [req[r] EXCEPT !.pc = "rejected"]
      <3>1. req' = [req EXCEPT ![r] = q] /\ UNCHANGED <<event, job, bull, ex, active, running,
              records, faults, toggles, started>> /\ req[r].pc = "create"
        BY <1>3, <1>0, <2>2 DEF CreateEvent, TablesOK
      <3>2. q \in ReqType /\ q.pc = "rejected" /\ q.event = req[r].event
        BY <1>0 DEF ReqType, RequestSteps
      <3>3. RequestOK(q, bull[r].state)
        BY <1>0, <3>1, <3>2 DEF RequestOK
      <3> HIDE DEF q
      <3> QED
        BY <1>0, <2>1, <3>1, <3>2, <3>3 DEF Asking, TablesOK
    <2>3. CASE ~ HasEvent(req[r].key)
      <3> DEFINE q == [req[r] EXCEPT !.pc = AfterEvent, !.event = r]
      <3>1. req' = [req EXCEPT ![r] = q] /\ UNCHANGED <<job, bull, ex, active, running,
              records, faults, toggles, started>> /\ req[r].pc = "create"
        BY <1>3, <1>0, <2>3 DEF CreateEvent, TablesOK
      <3>2. AfterEvent \in RequestSteps
        BY DEF AfterEvent, RequestSteps
      <3>3. q \in ReqType /\ q.pc = AfterEvent /\ q.event = r
        BY <1>0, <3>2 DEF ReqType
      <3>4. RequestOK(q, bull[r].state)
        BY <1>0, <3>1, <3>3 DEF RequestOK, AfterEvent
      <3>5. event' \in [Requests -> EventType]
        <4>1. PICK known \in KnownConnector : event' = [event EXCEPT ![r] =
                 [status |-> "RECEIVED", key |-> req[r].key, known |-> known, seen |-> {}]]
          BY <1>3, <2>3 DEF CreateEvent
        <4>2. [status |-> "RECEIVED", key |-> req[r].key, known |-> known, seen |-> {}]
                \in EventType
          BY <1>0, WebhooksAssumption DEF EventType, EventStatus, ReqType
        <4> QED
          BY <1>0, <4>1, <4>2 DEF TablesOK
      <3> HIDE DEF q
      <3> QED
        BY <1>0, <2>1, <3>1, <3>3, <3>4, <3>5 DEF Asking, TablesOK
    <2> QED
      BY <2>2, <2>3
  <1>4. CASE Reset(r)
    <2> DEFINE q == [req[r] EXCEPT !.pc = AfterEvent]
    <2>1. req' = [req EXCEPT ![r] = q] /\ UNCHANGED <<job, bull, ex, active, running,
            records, faults, toggles, started>> /\ req[r].pc = "reset"
      BY <1>4, <1>0 DEF Reset, TablesOK
    <2>2. AfterEvent \in RequestSteps
      BY DEF AfterEvent, RequestSteps
    <2>3. q \in ReqType /\ q.pc = AfterEvent /\ q.event = req[r].event
      BY <1>0, <2>2 DEF ReqType
    <2>4. RequestOK(q, bull[r].state)
      BY <1>0, <2>1, <2>3 DEF RequestOK, AfterEvent
    <2>5. event' \in [Requests -> EventType]
      <3>1. req[r].event \in Requests
        BY <1>0, <2>1 DEF RequestOK
      <3>2. event[req[r].event] \in EventType
        BY <3>1, Typed
      <3>3. [event[req[r].event] EXCEPT !.status = "RECEIVED"] \in EventType
        BY <3>2 DEF EventType, EventStatus
      <3> QED
        BY <1>4, <1>0, <3>3 DEF Reset, TablesOK
    <2>6. \A x \in Executors : ex[x].r # r
      BY <2>1, NotHeld
    <2> HIDE DEF q
    <2> QED
      BY <1>0, <2>1, <2>3, <2>4, <2>5, <2>6 DEF Asking, TablesOK
  <1>5. CASE CreateJob(r)
    <2> DEFINE q == [req[r] EXCEPT !.pc = "enqueue"]
    <2>1. req' = [req EXCEPT ![r] = q] /\ UNCHANGED <<event, bull, ex, active, running,
            records, faults, toggles, started>> /\ req[r].pc = "job"
      BY <1>5, <1>0 DEF CreateJob, TablesOK
    <2>2. q \in ReqType /\ q.pc = "enqueue" /\ q.event = req[r].event
      BY <1>0 DEF ReqType, RequestSteps
    <2>3. RequestOK(q, bull[r].state)
      BY <1>0, <2>1, <2>2 DEF RequestOK
    <2>4. job' \in [Requests -> JobStatus]
      BY <1>0, <1>5 DEF CreateJob, TablesOK, JobStatus
    <2>5. \A x \in Executors : ex[x].r # r
      BY <2>1, NotHeld
    <2> HIDE DEF q
    <2> QED
      BY <1>0, <2>1, <2>2, <2>3, <2>4, <2>5 DEF Asking, TablesOK
  <1>6. CASE Enqueue(r)
    <2> DEFINE q == [req[r] EXCEPT !.pc = "answered"]
               b == [bull[r] EXCEPT !.state = "waiting"]
    <2>1. req' = [req EXCEPT ![r] = q] /\ UNCHANGED <<event, job, ex, active, running,
            records, faults, toggles, started>> /\ req[r].pc = "enqueue"
          /\ bull' = [bull EXCEPT ![r] = b]
      BY <1>6, <1>0 DEF Enqueue, TablesOK
    <2>2. q \in ReqType /\ q.pc = "answered" /\ q.event = req[r].event
      BY <1>0 DEF ReqType, RequestSteps
    <2>3. b \in BullType /\ b.state = "waiting"
      BY <1>0 DEF BullType, BullStates
    <2>4. RequestOK(q, b.state)
      BY <1>0, <2>1, <2>2, <2>3 DEF RequestOK
    <2>5. \A x \in Executors : ex[x].r # r
      BY <2>1, NotHeld
    <2> HIDE DEF q, b
    <2>6. /\ bull' \in [Requests -> BullType] /\ bull'[r] = b
          /\ \A s \in Requests \ {r} : bull'[s] = bull[s]
      BY <1>0, <2>1, <2>3 DEF TablesOK
    <2> QED
      BY <1>0, <2>1, <2>2, <2>4, <2>5, <2>6 DEF Asking, TablesOK
  <1>7. CASE RequestFails(r)
    <2> DEFINE q == [req[r] EXCEPT !.pc = "failed"]
    <2>1. req' = [req EXCEPT ![r] = q] /\ UNCHANGED <<event, job, bull, ex, active, running,
            records, toggles, started>>
          /\ req[r].pc \in {"create", "reset", "job", "enqueue", "now"}
      BY <1>7, <1>0 DEF RequestFails, TablesOK
    <2>2. q \in ReqType /\ q.pc = "failed" /\ q.event = req[r].event
      BY <1>0 DEF ReqType, RequestSteps
    <2>3. RequestOK(q, bull[r].state)
      BY <1>0, <2>1, <2>2 DEF RequestOK
    <2>4. faults' \in 0..MaxFaults
      BY <1>7, <1>0, FaultLeft DEF RequestFails, TablesOK
    <2>5. \A x \in Executors : ex[x].r # r
      BY <2>1, NotHeld
    <2> HIDE DEF q
    <2> QED
      BY <1>0, <2>1, <2>2, <2>3, <2>4, <2>5 DEF Asking, TablesOK
  <1>8. ASSUME NEW b \in BullType, bull' = [bull EXCEPT ![r] = b], b.state # "none",
               bull[r].state # "none", \A x \in Executors : ex[x].r # r,
               UNCHANGED <<req, event, job, ex, active, running, records, faults, toggles,
                           started>>
        PROVE  \E q : Asking(r, q)
    <2>1. req' = [req EXCEPT ![r] = req[r]]
      BY <1>0, <1>8 DEF TablesOK
    <2>2. RequestOK(req[r], b.state)
      BY <1>0, <1>8 DEF RequestOK
    <2>3. /\ bull' \in [Requests -> BullType] /\ bull'[r] = b
          /\ \A s \in Requests \ {r} : bull'[s] = bull[s]
      BY <1>0, <1>8 DEF TablesOK
    <2>4. Asking(r, req[r])
      BY <1>0, <1>8, <2>1, <2>2, <2>3 DEF Asking, TablesOK
    <2> QED
      BY <2>4
  <1>9. CASE Backoff(r)
    <2> DEFINE b == [bull[r] EXCEPT !.state = "waiting"]
    <2>1. b \in BullType /\ b.state = "waiting" /\ bull' = [bull EXCEPT ![r] = b]
      BY <1>0, <1>9 DEF Backoff, BullType, BullStates, TablesOK
    <2>2. \A x \in Executors : ex[x].r # r
      BY <1>9, NotHeld DEF Backoff
    <2> HIDE DEF b
    <2> QED
      BY <1>8, <1>9, <2>1, <2>2 DEF Backoff
  <1>10. CASE Stalled(r)
    <2> DEFINE state == IF bull[r].stalls < MaxStalled THEN "waiting" ELSE "failed"
               b == [bull[r] EXCEPT !.stalls = bull[r].stalls + 1, !.state = state]
    <2>1. state \in {"waiting", "failed"}
      OBVIOUS
    <2>2. bull' = [bull EXCEPT ![r] = b]
      BY <1>0, <1>10 DEF Stalled, TablesOK
    <2>4. state \in BullStates /\ bull[r].stalls + 1 \in Nat
      BY <1>0, <2>1 DEF BullType, BullStates
    <2> HIDE DEF state
    <2>3. b \in BullType /\ b.state = state
      BY <1>0, <2>4 DEF BullType
    <2> HIDE DEF b
    <2> QED
      BY <1>8, <1>10, <2>1, <2>2, <2>3 DEF Stalled
  <1> QED
    BY <1>1, <1>2, <1>3, <1>4, <1>5, <1>6, <1>7, <1>9, <1>10 DEF RequestAction, RequestStep

(* Steps of an executor. *)

\* An executor goes on with its request.
Working(x, y) ==
  /\ ex' = [ex EXCEPT ![x] = y] /\ y \in ExType /\ WorkOK(y)
  /\ ex[x].pc # "idle" /\ y.pc # "idle" /\ y.r = ex[x].r
  /\ UNCHANGED <<req, bull, active, toggles, started>>
  /\ event' \in [Requests -> EventType]

\* An executor lets go of its request, which is done, failed or will be retried.
Leaving(x) ==
  /\ ex' = [ex EXCEPT ![x] = Idle] /\ ex[x].pc # "idle"
  /\ req' \in [Requests -> ReqType] /\ bull' \in [Requests -> BullType]
  /\ \A s \in Requests \ {ex[x].r} : req'[s] = req[s] /\ bull'[s] = bull[s]
  /\ RequestOK(req'[ex[x].r], bull'[ex[x].r].state)
  /\ req'[ex[x].r].event = req[ex[x].r].event
  /\ UNCHANGED <<event, running, records, active, toggles, started>>

\* An executor begins with the request r.
Taking(x, r) ==
  /\ ex[x].pc = "idle" /\ UNCHANGED <<event, job, active, running, records, faults, toggles>>
  /\ started' = [started EXCEPT ![req[r].event] = started[req[r].event] + 1]
  /\ req[r].event \in Requests /\ req'[r].event = req[r].event
  /\ req' \in [Requests -> ReqType] /\ bull' \in [Requests -> BullType]
  /\ \A s \in Requests \ {r} : req'[s] = req[s] /\ bull'[s] = bull[s]
  /\ \A z \in Executors : ex[z].r # r
  /\ \/ /\ Async /\ ex' = [ex EXCEPT ![x] = [Idle EXCEPT !.pc = "mark", !.r = r]]
        /\ bull[r].state = "waiting" /\ bull'[r].state = "active" /\ req' = req
     \/ /\ ~ Async /\ ex' = [ex EXCEPT ![x] = [Idle EXCEPT !.pc = "read", !.r = r]]
        /\ req[r].pc = "now" /\ req'[r].pc = "executing" /\ bull' = bull

LEMMA TypeWorking ==
  ASSUME TypeInv, NEW x \in Executors, NEW y, Working(x, y), TablesOK'
  PROVE  TypeInv'
  <1>1. /\ ex'[x] = y /\ \A z \in Executors \ {x} : ex'[z] = ex[z]
        /\ req' = req /\ bull' = bull /\ y.r = ex[x].r /\ ex[x].pc # "idle" /\ WorkOK(y)
    BY Typed DEF Working, TablesOK
  <1>2. ASSUME NEW z \in Executors PROVE WorkOK(ex'[z]) /\ HoldOK(ex[z])'
    BY <1>1, Typed DEF HoldOK
  <1>3. Exclusive'
    BY <1>1, Typed DEF Exclusive
  <1> QED
    BY <1>1, <1>2, <1>3, Typed DEF TypeInv

LEMMA TypeLeaving ==
  ASSUME TypeInv, NEW x \in Executors, Leaving(x), TablesOK'
  PROVE  TypeInv'
  <1>1. /\ ex'[x] = Idle /\ \A z \in Executors \ {x} : ex'[z] = ex[z]
        /\ ex[x].r \in Requests /\ ex[x].r # None
    BY Typed, EventOfType, WebhooksAssumption DEF Leaving, TablesOK
  <1>2. \A s \in Requests : RequestOK(req'[s], bull'[s].state)
    BY Typed DEF Leaving
  <1>3. ASSUME NEW z \in Executors PROVE WorkOK(ex'[z]) /\ HoldOK(ex[z])'
    <2>1. CASE z = x
      BY <1>1, <2>1 DEF Idle, WorkOK, HoldOK
    <2>2. CASE z # x
      <3>1. ex'[z] = ex[z] /\ ex[z].r # ex[x].r /\ WorkOK(ex[z]) /\ HoldOK(ex[z])
        BY <1>1, <2>2, Typed DEF Exclusive
      <3> QED
        BY <3>1 DEF Leaving, HoldOK, WorkOK
    <2> QED
      BY <2>1, <2>2
  <1>4. Exclusive'
    BY <1>1, Typed DEF Exclusive, Idle
  <1> QED
    BY <1>2, <1>3, <1>4 DEF TypeInv

LEMMA BeginType ==
  ASSUME NEW r \in Requests, NEW pc \in {"mark", "read"}
  PROVE  /\ [Idle EXCEPT !.pc = pc, !.r = r] \in ExType
         /\ [Idle EXCEPT !.pc = pc, !.r = r].pc = pc
         /\ [Idle EXCEPT !.pc = pc, !.r = r].r = r
  <1>1. pc \in ExecutorSteps /\ {} \in SUBSET Pipelines
    BY DEF ExecutorSteps, InTry
  <1>2. Idle \in ExType
    BY <1>1 DEF Idle, ExType, ExecutorSteps
  <1> QED
    BY <1>1, <1>2 DEF ExType

LEMMA TypeTaking ==
  ASSUME TypeInv, NEW x \in Executors, NEW r \in Requests, Taking(x, r)
  PROVE  TypeInv'
  <1>1. PICK y : /\ ex' = [ex EXCEPT ![x] = y]
                 /\ \/ Async /\ y = [Idle EXCEPT !.pc = "mark", !.r = r]
                    \/ ~ Async /\ y = [Idle EXCEPT !.pc = "read", !.r = r]
    BY DEF Taking
  <1>2. /\ y \in ExType /\ y.r = r /\ y.pc \in {"mark", "read"}
        /\ Async => y.pc = "mark"
        /\ ~ Async => y.pc = "read"
    BY <1>1, BeginType
  <1>3. ex'[x] = y /\ \A z \in Executors \ {x} : ex'[z] = ex[z]
    BY <1>1, Typed DEF TablesOK
  <1>4. TablesOK'
    <2>1. ex' \in [Executors -> ExType]
      BY <1>1, <1>2, Typed DEF TablesOK
    <2>2. started' \in [Requests -> Nat]
      BY Typed DEF Taking, TablesOK
    <2> QED
      BY <2>1, <2>2, Typed DEF Taking, TablesOK
  <1>5. RequestOK(req'[r], bull'[r].state)
    BY Typed DEF Taking, RequestOK
  <1>6. \A s \in Requests : RequestOK(req'[s], bull'[s].state)
    BY <1>5, Typed DEF Taking
  <1>7. ASSUME NEW z \in Executors PROVE WorkOK(ex'[z]) /\ HoldOK(ex[z])'
    <2>1. CASE z = x
      <3>1. Async => y.pc = "mark" /\ bull'[r].state = "active"
        BY <1>2 DEF Taking
      <3>2. ~ Async => y.pc = "read" /\ req'[r].pc = "executing"
        BY <1>2 DEF Taking
      <3> QED
        BY <1>2, <1>3, <2>1, <3>1, <3>2 DEF WorkOK, HoldOK
    <2>2. CASE z # x
      <3>1. ex'[z] = ex[z] /\ ex[z].r # r /\ WorkOK(ex[z]) /\ HoldOK(ex[z])
        BY <1>3, <2>2, Typed DEF Taking
      <3> QED
        BY <3>1 DEF Taking, HoldOK, WorkOK
    <2> QED
      BY <2>1, <2>2
  <1>8. Exclusive'
    BY <1>2, <1>3, Typed DEF Exclusive, Taking
  <1> QED
    BY <1>4, <1>6, <1>7, <1>8 DEF TypeInv

LEMMA TakeTakes ==
  ASSUME TypeInv, NEW x \in Executors, NEW r \in Requests, Take(x, r)
  PROVE  Taking(x, r)
  <1>0. /\ TablesOK /\ req[r] \in ReqType /\ bull[r] \in BullType
        /\ RequestOK(req[r], bull[r].state)
    BY Typed
  <1>1. CASE bull[r].state = "waiting" /\ Begin(x, r, "mark") /\ UNCHANGED req
             /\ bull' = [bull EXCEPT ![r].state = "active"]
    <2> DEFINE b == [bull[r] EXCEPT !.state = "active"]
    <2>1. bull' = [bull EXCEPT ![r] = b] /\ b \in BullType /\ b.state = "active"
      BY <1>0, <1>1 DEF BullType, BullStates, TablesOK
    <2>2. req[r].event \in Requests /\ Async
      BY <1>0, <1>1 DEF RequestOK
    <2>3. \A z \in Executors : ex[z].r # r
      BY <1>1, NotHeld
    <2> HIDE DEF b
    <2>4. /\ bull' \in [Requests -> BullType] /\ bull'[r] = b
          /\ \A s \in Requests \ {r} : bull'[s] = bull[s]
      BY <1>0, <2>1 DEF TablesOK
    <2> QED
      BY <1>0, <1>1, <2>1, <2>2, <2>3, <2>4 DEF Take, Begin, Taking, TablesOK
  <1>2. CASE req[r].pc = "now" /\ Begin(x, r, "read") /\ UNCHANGED bull
             /\ req' = [req EXCEPT ![r].pc = "executing"]
    <2> DEFINE q == [req[r] EXCEPT !.pc = "executing"]
    <2>1. req' = [req EXCEPT ![r] = q] /\ q \in ReqType /\ q.pc = "executing"
          /\ q.event = req[r].event
      BY <1>0, <1>2 DEF ReqType, RequestSteps, TablesOK
    <2>2. req[r].event \in Requests /\ ~ Async
      BY <1>0, <1>2 DEF RequestOK
    <2>3. \A z \in Executors : ex[z].r # r
      BY <1>2, NotHeld
    <2> HIDE DEF q
    <2>4. /\ req' \in [Requests -> ReqType] /\ req'[r] = q
          /\ \A s \in Requests \ {r} : req'[s] = req[s]
      BY <1>0, <2>1 DEF TablesOK
    <2> QED
      BY <1>0, <1>2, <2>1, <2>2, <2>3, <2>4 DEF Take, Begin, Taking, TablesOK
  <1> QED
    BY <1>1, <1>2 DEF Take

LEMMA AtWork ==
  ASSUME TypeInv, NEW x \in Executors
  PROVE  /\ TablesOK /\ ex[x] \in ExType /\ WorkOK(ex[x]) /\ HoldOK(ex[x])
         /\ ex[x].pc # "idle" =>
              /\ ex[x].r \in Requests /\ EventOf(x) \in Requests
              /\ req[ex[x].r] \in ReqType /\ bull[ex[x].r] \in BullType
              /\ event[EventOf(x)] \in EventType /\ event[EventOf(x)].known \in BOOLEAN
              /\ records[EventOf(x)] \in [Pipelines -> Nat]
              /\ RequestOK(req[ex[x].r], bull[ex[x].r].state)
  <1>1. ex[x].pc # "idle" => ex[x].r \in Requests /\ EventOf(x) \in Requests
    BY EventOfType
  <1>2. ex[x].pc # "idle" => event[EventOf(x)] \in EventType
    BY <1>1, Typed
  <1> QED
    BY <1>1, <1>2, Typed DEF TablesOK, EventType

\* A step of the executor x that only changes its place in the program.
LEMMA MovesOn ==
  ASSUME TypeInv, NEW x \in Executors, NEW pc \in ExecutorSteps,
         ex' = [ex EXCEPT ![x].pc = pc], ex[x].pc # "idle", pc \notin {"idle", "run"},
         pc = "stored" => ex[x].pc = "run",
         pc \in {"mark", "complete", "failEvent", "failJob", "rethrow"} => Async
  PROVE  \E y : /\ ex' = [ex EXCEPT ![x] = y] /\ y \in ExType /\ WorkOK(y)
                /\ y.pc = pc /\ y.r = ex[x].r /\ y.seen = ex[x].seen
                /\ y.todo = ex[x].todo /\ y.p = ex[x].p
  <1> DEFINE y == [ex[x] EXCEPT !.pc = pc]
  <1>1. /\ ex' = [ex EXCEPT ![x] = y] /\ y \in ExType /\ y.pc = pc
        /\ y.r = ex[x].r /\ y.seen = ex[x].seen /\ y.todo = ex[x].todo /\ y.p = ex[x].p
    BY AtWork DEF ExType, TablesOK
  <1>2. WorkOK(y)
    BY <1>1, AtWork DEF WorkOK
  <1> QED
    BY <1>1, <1>2

\* Where an executor goes in each of its steps, and what it writes on the way.
WorkStep(x, y) ==
  \/ /\ y.seen = ex[x].seen /\ y.todo = ex[x].todo /\ y.p = ex[x].p
     /\ \/ /\ ex[x].pc = "mark" /\ y.pc = "read"
           /\ UNCHANGED <<event, running, records, faults>>
        \/ /\ ex[x].pc = "run" /\ y.pc = "loop" /\ ex[x].p \in Broken
           /\ running' = [running EXCEPT ![ex[x].p] = running[ex[x].p] - 1]
           /\ UNCHANGED <<event, records, faults>>
        \/ /\ ex[x].pc = "stored" /\ y.pc = "loop"
           /\ running' = [running EXCEPT ![ex[x].p] = running[ex[x].p] - 1]
           /\ UNCHANGED <<event, records, faults>>
        \/ /\ ex[x].pc = "run" /\ y.pc = "stored" /\ ex[x].p \notin Broken
           /\ records' = [records EXCEPT ![EventOf(x)][ex[x].p] =
                            records[EventOf(x)][ex[x].p] + 1]
           /\ UNCHANGED <<event, running, faults>>
        \/ /\ ex[x].pc = "loop" /\ y.pc \in {"complete", "return"} /\ ex[x].todo = {}
           /\ event' = [event EXCEPT ![EventOf(x)] =
                          [event[EventOf(x)] EXCEPT !.status = Verdict(x), !.seen = ex[x].seen]]
           /\ UNCHANGED <<running, records, faults>>
        \/ /\ ex[x].pc = "complete" /\ y.pc = "return"
           /\ UNCHANGED <<event, running, records, faults>>
        \/ /\ ex[x].pc = "failEvent" /\ y.pc = "failJob"
           /\ event' = [event EXCEPT ![EventOf(x)] =
                          [event[EventOf(x)] EXCEPT !.status = "FAILED"]]
           /\ UNCHANGED <<running, records, faults>>
        \/ /\ ex[x].pc = "failJob" /\ y.pc = "rethrow"
           /\ UNCHANGED <<event, running, records, faults>>
        \/ /\ y.pc \in {"failEvent", "rethrow"} /\ Async /\ faults' = faults + 1
           /\ UNCHANGED <<event, running, records>>
  \/ /\ ex[x].pc = "read" /\ y.pc = "loop" /\ y.todo = y.seen
     /\ y.seen \in SUBSET Pipelines
     /\ UNCHANGED <<event, running, records, faults>>
  \/ /\ ex[x].pc = "loop" /\ y.pc = "run" /\ y.p \in ex[x].todo
     /\ y.todo = ex[x].todo \ {y.p} /\ y.seen = ex[x].seen
     /\ running' = [running EXCEPT ![y.p] = running[y.p] + 1]
     /\ UNCHANGED <<event, records, faults>>

Goes(x, y) == Working(x, y) /\ WorkStep(x, y) /\ TablesOK'

LEMMA VerdictType ==
  ASSUME TypeInv, NEW x \in Executors, ex[x].pc # "idle"
  PROVE  /\ Verdict(x) \in EventStatus
         /\ Verdict(x) = "PROCESSED" => ex[x].seen # {}
         /\ Verdict(x) # "RECEIVED"
  BY AtWork DEF Verdict, EventStatus

LEMMA Steps1 ==
  ASSUME TypeInv, NEW x \in Executors,
         MarkProcessing(x) \/ FailRun(x) \/ SucceedRun(x) \/ StoreRecord(x) \/ CompleteJob(x)
  PROVE  \E y : Goes(x, y)
  <1>0. TablesOK /\ ex[x] \in ExType /\ WorkOK(ex[x])
    BY AtWork
  <1>1. CASE MarkProcessing(x)
    <2>1. job' \in [Requests -> JobStatus]
      BY <1>0, <1>1 DEF MarkProcessing, TablesOK, JobStatus
    <2>2. ex' = [ex EXCEPT ![x].pc = "read"] /\ ex[x].pc = "mark" /\ "read" \in ExecutorSteps
      BY <1>1 DEF MarkProcessing, ExecutorSteps, InTry
    <2>3. PICK y : /\ ex' = [ex EXCEPT ![x] = y] /\ y \in ExType /\ WorkOK(y)
                   /\ y.pc = "read" /\ y.r = ex[x].r /\ y.seen = ex[x].seen
                   /\ y.todo = ex[x].todo /\ y.p = ex[x].p
      BY <2>2, MovesOn
    <2>4. ex' \in [Executors -> ExType]
      BY <1>0, <2>3 DEF TablesOK
    <2>5. Working(x, y) /\ TablesOK'
      BY <1>0, <1>1, <2>1, <2>2, <2>3, <2>4 DEF MarkProcessing, Working, TablesOK
    <2>6. WorkStep(x, y)
      BY <1>1, <2>2, <2>3 DEF MarkProcessing, WorkStep
    <2> QED
      BY <2>5, <2>6 DEF Goes
  <1>2. CASE FailRun(x) \/ SucceedRun(x)
    <2>1. /\ ex' = [ex EXCEPT ![x].pc = "loop"] /\ ex[x].pc \in {"run", "stored"}
          /\ "loop" \in ExecutorSteps /\ ex[x].p \in Pipelines
      BY <1>0, <1>2 DEF FailRun, SucceedRun, EndRun, ExecutorSteps, InTry, WorkOK
    <2>2. PICK y : /\ ex' = [ex EXCEPT ![x] = y] /\ y \in ExType /\ WorkOK(y)
                   /\ y.pc = "loop" /\ y.r = ex[x].r /\ y.seen = ex[x].seen
                   /\ y.todo = ex[x].todo /\ y.p = ex[x].p
      BY <2>1, MovesOn
    <2>3. ex' \in [Executors -> ExType] /\ running' \in [Pipelines -> Int]
      <3>1. running[ex[x].p] - 1 \in Int
        BY <1>0, <2>1 DEF TablesOK
      <3>2. running' = [running EXCEPT ![ex[x].p] = running[ex[x].p] - 1]
        BY <1>2 DEF FailRun, SucceedRun, EndRun
      <3> QED
        BY <1>0, <2>2, <3>1, <3>2 DEF TablesOK
    <2>4. Working(x, y) /\ TablesOK'
      BY <1>0, <1>2, <2>1, <2>2, <2>3
         DEF FailRun, SucceedRun, EndRun, Working, TablesOK
    <2>5. WorkStep(x, y)
      BY <1>2, <2>2 DEF FailRun, SucceedRun, EndRun, WorkStep
    <2> QED
      BY <2>4, <2>5 DEF Goes
  <1>3. CASE StoreRecord(x)
    <2>1. /\ ex' = [ex EXCEPT ![x].pc = "stored"] /\ ex[x].pc = "run"
          /\ "stored" \in ExecutorSteps /\ ex[x].p \in Pipelines
      BY <1>0, <1>3 DEF StoreRecord, ExecutorSteps, InTry, WorkOK
    <2>2. PICK y : /\ ex' = [ex EXCEPT ![x] = y] /\ y \in ExType /\ WorkOK(y)
                   /\ y.pc = "stored" /\ y.r = ex[x].r /\ y.seen = ex[x].seen
                   /\ y.todo = ex[x].todo /\ y.p = ex[x].p
      BY <2>1, MovesOn
    <2>3. ex' \in [Executors -> ExType]
      BY <1>0, <2>2 DEF TablesOK
    <2>4. records' \in [Requests -> [Pipelines -> Nat]]
      <3>1. EventOf(x) \in Requests /\ records[EventOf(x)] \in [Pipelines -> Nat]
        BY <2>1, AtWork
      <3>2. [records[EventOf(x)] EXCEPT ![ex[x].p] = records[EventOf(x)][ex[x].p] + 1]
              \in [Pipelines -> Nat]
        BY <2>1, <3>1
      <3> QED
        BY <1>0, <1>3, <3>1, <3>2 DEF StoreRecord, TablesOK
    <2>5. Working(x, y) /\ TablesOK'
      BY <1>0, <1>3, <2>1, <2>2, <2>3, <2>4 DEF StoreRecord, Working, TablesOK
    <2>6. WorkStep(x, y)
      BY <1>3, <2>2 DEF StoreRecord, WorkStep
    <2> QED
      BY <2>5, <2>6 DEF Goes
  <1>4. CASE CompleteJob(x)
    <2>1. job' \in [Requests -> JobStatus]
      BY <1>0, <1>4 DEF CompleteJob, TablesOK, JobStatus
    <2>2. ex' = [ex EXCEPT ![x].pc = "return"] /\ ex[x].pc = "complete" /\ "return" \in ExecutorSteps
      BY <1>4 DEF CompleteJob, ExecutorSteps, InTry
    <2>3. PICK y : /\ ex' = [ex EXCEPT ![x] = y] /\ y \in ExType /\ WorkOK(y)
                   /\ y.pc = "return" /\ y.r = ex[x].r /\ y.seen = ex[x].seen
                   /\ y.todo = ex[x].todo /\ y.p = ex[x].p
      BY <2>2, MovesOn
    <2>4. ex' \in [Executors -> ExType]
      BY <1>0, <2>3 DEF TablesOK
    <2>5. Working(x, y) /\ TablesOK'
      BY <1>0, <1>4, <2>1, <2>2, <2>3, <2>4 DEF CompleteJob, Working, TablesOK
    <2>6. WorkStep(x, y)
      BY <1>4, <2>2, <2>3 DEF CompleteJob, WorkStep
    <2> QED
      BY <2>5, <2>6 DEF Goes
  <1> QED
    BY <1>1, <1>2, <1>3, <1>4

LEMMA Steps2 ==
  ASSUME TypeInv, NEW x \in Executors,
         Settle(x) \/ Read(x) \/ FailEvent(x) \/ FailJob(x)
  PROVE  \E y : Goes(x, y)
  <1>0. TablesOK /\ ex[x] \in ExType /\ WorkOK(ex[x])
    BY AtWork
  <1>1. CASE Settle(x)
    <2> DEFINE pc == IF Async THEN "complete" ELSE "return"
    <2>1. /\ ex' = [ex EXCEPT ![x].pc = pc] /\ ex[x].pc = "loop"
          /\ pc \in {"complete", "return"} /\ pc \in ExecutorSteps /\ (pc = "complete" => Async)
      BY <1>1 DEF Settle, ExecutorSteps, InTry
    <2> HIDE DEF pc
    <2>2. PICK y : /\ ex' = [ex EXCEPT ![x] = y] /\ y \in ExType /\ WorkOK(y)
                   /\ y.pc = pc /\ y.r = ex[x].r /\ y.seen = ex[x].seen
                   /\ y.todo = ex[x].todo /\ y.p = ex[x].p
      BY <2>1, MovesOn
    <2>3. ex' \in [Executors -> ExType]
      BY <1>0, <2>2 DEF TablesOK
    <2> DEFINE e == EventOf(x)
               v == [event[e] EXCEPT !.status = Verdict(x), !.seen = ex[x].seen]
    <2>4. e \in Requests /\ event[e] \in EventType /\ Verdict(x) \in EventStatus
          /\ ex[x].seen \in SUBSET Pipelines
      BY <1>0, <2>1, AtWork, VerdictType DEF ExType
    <2>5. event' = [event EXCEPT ![e] = v]
      BY <1>0, <1>1, <2>4 DEF Settle, TablesOK
    <2>6. v \in EventType
      BY <2>4 DEF EventType
    <2>7. event' \in [Requests -> EventType]
      <3> HIDE DEF v
      <3> QED
        BY <1>0, <2>4, <2>5, <2>6 DEF TablesOK
    <2>8. Working(x, y) /\ TablesOK'
      <3> HIDE DEF v, e
      <3> QED
        BY <1>0, <1>1, <2>1, <2>2, <2>3, <2>7 DEF Settle, Working, TablesOK
    <2>9. WorkStep(x, y)
      BY <1>1, <2>1, <2>2, <2>5 DEF Settle, WorkStep
    <2> QED
      BY <2>8, <2>9 DEF Goes
  <1>2. CASE Read(x)
    <2> DEFINE seen == IF event[EventOf(x)].known THEN active ELSE {}
               y == [ex[x] EXCEPT !.pc = "loop", !.seen = seen, !.todo = seen]
    <2>1. seen \in SUBSET Pipelines
      BY <1>0 DEF TablesOK
    <2>2. ex' = [ex EXCEPT ![x] = y] /\ ex[x].pc = "read"
      BY <1>0, <1>2 DEF Read, TablesOK
    <2> HIDE DEF seen
    <2>3. /\ y \in ExType /\ y.pc = "loop" /\ y.seen = seen /\ y.todo = seen
          /\ y.r = ex[x].r
      BY <1>0, <2>1 DEF ExType, ExecutorSteps, InTry
    <2> HIDE DEF y
    <2>4. WorkOK(y)
      BY <1>0, <2>2, <2>3 DEF WorkOK
    <2>5. ex' \in [Executors -> ExType]
      BY <1>0, <2>2, <2>3 DEF TablesOK
    <2>6. Working(x, y) /\ TablesOK'
      BY <1>0, <1>2, <2>2, <2>3, <2>4, <2>5 DEF Read, Working, TablesOK
    <2>7. WorkStep(x, y)
      BY <1>2, <2>1, <2>2, <2>3 DEF Read, WorkStep
    <2> QED
      BY <2>6, <2>7 DEF Goes
  <1>3. CASE FailEvent(x)
    <2>1. /\ ex' = [ex EXCEPT ![x].pc = "failJob"] /\ ex[x].pc = "failEvent" /\ Async
          /\ "failJob" \in ExecutorSteps
      BY <1>0, <1>3 DEF FailEvent, ExecutorSteps, WorkOK
    <2>2. PICK y : /\ ex' = [ex EXCEPT ![x] = y] /\ y \in ExType /\ WorkOK(y)
                   /\ y.pc = "failJob" /\ y.r = ex[x].r /\ y.seen = ex[x].seen
                   /\ y.todo = ex[x].todo /\ y.p = ex[x].p
      BY <2>1, MovesOn
    <2>3. ex' \in [Executors -> ExType]
      BY <1>0, <2>2 DEF TablesOK
    <2> DEFINE e == EventOf(x)
               v == [event[e] EXCEPT !.status = "FAILED"]
    <2>4. e \in Requests /\ event[e] \in EventType
      BY <1>0, <2>1, AtWork
    <2>5. event' = [event EXCEPT ![e] = v]
      BY <1>0, <1>3, <2>4 DEF FailEvent, TablesOK
    <2>6. v \in EventType
      BY <2>4 DEF EventType, EventStatus
    <2>7. event' \in [Requests -> EventType]
      <3> HIDE DEF v
      <3> QED
        BY <1>0, <2>4, <2>5, <2>6 DEF TablesOK
    <2>8. Working(x, y) /\ TablesOK'
      <3> HIDE DEF v, e
      <3> QED
        BY <1>0, <1>3, <2>1, <2>2, <2>3, <2>7 DEF FailEvent, Working, TablesOK
    <2>9. WorkStep(x, y)
      BY <1>3, <2>1, <2>2, <2>5 DEF FailEvent, WorkStep
    <2> QED
      BY <2>8, <2>9 DEF Goes
  <1>4. CASE FailJob(x)
    <2>1. job' \in [Requests -> JobStatus]
      BY <1>0, <1>4 DEF FailJob, TablesOK, JobStatus
    <2>2. /\ ex' = [ex EXCEPT ![x].pc = "rethrow"] /\ ex[x].pc = "failJob" /\ Async
          /\ "rethrow" \in ExecutorSteps
      BY <1>0, <1>4 DEF FailJob, ExecutorSteps, WorkOK
    <2>3. PICK y : /\ ex' = [ex EXCEPT ![x] = y] /\ y \in ExType /\ WorkOK(y)
                   /\ y.pc = "rethrow" /\ y.r = ex[x].r /\ y.seen = ex[x].seen
                   /\ y.todo = ex[x].todo /\ y.p = ex[x].p
      BY <2>2, MovesOn
    <2>4. ex' \in [Executors -> ExType]
      BY <1>0, <2>3 DEF TablesOK
    <2>5. Working(x, y) /\ TablesOK'
      BY <1>0, <1>4, <2>1, <2>2, <2>3, <2>4 DEF FailJob, Working, TablesOK
    <2>6. WorkStep(x, y)
      BY <1>4, <2>2, <2>3 DEF FailJob, WorkStep
    <2> QED
      BY <2>5, <2>6 DEF Goes
  <1> QED
    BY <1>1, <1>2, <1>3, <1>4

LEMMA Steps3 ==
  ASSUME TypeInv, NEW x \in Executors,
         (\E p \in Pipelines : CreateRun(x, p)) \/ (Throw(x) /\ Async)
  PROVE  \E y : Goes(x, y)
  <1>0. TablesOK /\ ex[x] \in ExType /\ WorkOK(ex[x])
    BY AtWork
  <1>1. ASSUME NEW p \in Pipelines, CreateRun(x, p) PROVE \E y : Goes(x, y)
    <2> DEFINE todo == ex[x].todo \ {p}
               y == [ex[x] EXCEPT !.pc = "run", !.p = p, !.todo = todo]
    <2>1. todo \in SUBSET Pipelines /\ p \notin todo
      BY <1>0 DEF ExType
    <2>2. ex' = [ex EXCEPT ![x] = y] /\ ex[x].pc = "loop" /\ p \in ex[x].todo
      BY <1>0, <1>1 DEF CreateRun, TablesOK
    <2> HIDE DEF todo
    <2>3. /\ y \in ExType /\ y.pc = "run" /\ y.seen = ex[x].seen /\ y.todo = todo
          /\ y.p = p /\ y.r = ex[x].r
      BY <1>0, <2>1 DEF ExType, ExecutorSteps, InTry
    <2> HIDE DEF y
    <2>4. WorkOK(y)
      BY <1>0, <2>1, <2>2, <2>3 DEF WorkOK
    <2>5. ex' \in [Executors -> ExType]
      BY <1>0, <2>2, <2>3 DEF TablesOK
    <2>6. running[p] + 1 \in Int
      BY <1>0 DEF TablesOK
    <2>7. running' \in [Pipelines -> Int]
      BY <1>0, <1>1, <2>6 DEF CreateRun, TablesOK
    <2>8. Working(x, y) /\ TablesOK'
      BY <1>0, <1>1, <2>2, <2>3, <2>4, <2>5, <2>7 DEF CreateRun, Working, TablesOK
    <2>9. WorkStep(x, y)
      BY <1>1, <2>2, <2>3 DEF CreateRun, WorkStep, todo
    <2> QED
      BY <2>8, <2>9 DEF Goes
  <1>2. CASE Throw(x) /\ Async
    <2>0. PICK pc \in {"failEvent", "rethrow"} : ex' = [ex EXCEPT ![x].pc = pc]
      BY <1>2 DEF Throw
    <2>1. /\ ex' = [ex EXCEPT ![x].pc = pc] /\ ex[x].pc # "idle"
          /\ pc \in {"failEvent", "rethrow"} /\ pc \in ExecutorSteps
      BY <1>2, <2>0 DEF Throw, ExecutorSteps
    <2>2. PICK y : /\ ex' = [ex EXCEPT ![x] = y] /\ y \in ExType /\ WorkOK(y)
                   /\ y.pc = pc /\ y.r = ex[x].r /\ y.seen = ex[x].seen
                   /\ y.todo = ex[x].todo /\ y.p = ex[x].p
      BY <1>2, <2>1, MovesOn
    <2>3. ex' \in [Executors -> ExType]
      BY <1>0, <2>2 DEF TablesOK
    <2>4. faults' \in 0..MaxFaults
      BY <1>0, <1>2, FaultLeft DEF Throw, TablesOK
    <2>5. Working(x, y) /\ TablesOK'
      BY <1>0, <1>2, <2>1, <2>2, <2>3, <2>4 DEF Throw, Working, TablesOK
    <2>6. WorkStep(x, y)
      BY <1>2, <2>1, <2>2 DEF Throw, WorkStep
    <2> QED
      BY <2>5, <2>6 DEF Goes
  <1> QED
    BY <1>1, <1>2

\* The steps that let go of a request: in sync mode a fault ends it, in queue mode
\* it is returned, delayed, failed, or left to be handed out again.
LeaveStep(x) ==
  /\ Leaving(x) /\ TablesOK'
  /\ \/ ex[x].pc = "return" /\ faults' = faults
        /\ req'[ex[x].r].pc = "answered" /\ bull'[ex[x].r].state \in {"none", "completed"}
     \/ ex[x].pc = "rethrow" /\ faults' = faults
        /\ bull'[ex[x].r].state \in {"delayed", "failed"}
     \/ faults' = faults + 1
        /\ (req'[ex[x].r].pc = "failed" \/ bull'[ex[x].r].state = "active")

LEMMA Steps4 ==
  ASSUME TypeInv, NEW x \in Executors,
         Return(x) \/ Rethrow(x) \/ (Throw(x) /\ ~ Async) \/ Crash(x)
  PROVE  LeaveStep(x)
  <1> DEFINE r == ex[x].r
  <1>0. /\ TablesOK /\ ex[x] \in ExType /\ WorkOK(ex[x]) /\ HoldOK(ex[x]) /\ ex[x].pc # "idle"
        /\ r \in Requests /\ req[r] \in ReqType /\ bull[r] \in BullType
        /\ RequestOK(req[r], bull[r].state)
    <2>1. ex[x].pc # "idle"
      BY DEF Return, Rethrow, Throw, Crash
    <2> QED
      BY <2>1, AtWork
  <1>1. Idle \in ExType
    BY DEF Idle, ExType, ExecutorSteps
  <1>2. ASSUME NEW q \in ReqType, req' = [req EXCEPT ![r] = q], q.event = req[r].event,
               q.pc \in {"answered", "failed"}, ~ Async,
               ex' = [ex EXCEPT ![x] = Idle], faults' \in 0..MaxFaults,
               UNCHANGED <<event, job, bull, active, running, records, toggles, started>>
        PROVE  Leaving(x) /\ TablesOK'
    <2>1. RequestOK(q, bull[r].state)
      BY <1>0, <1>2 DEF RequestOK, HoldOK
    <2>2. /\ req' \in [Requests -> ReqType] /\ req'[r] = q
          /\ \A s \in Requests \ {r} : req'[s] = req[s]
      BY <1>0, <1>2 DEF TablesOK
    <2>3. ex' \in [Executors -> ExType]
      BY <1>0, <1>1, <1>2 DEF TablesOK
    <2> HIDE DEF r
    <2> QED
      BY <1>0, <1>2, <2>1, <2>2, <2>3 DEF Leaving, TablesOK, r
  <1>3. ASSUME NEW b \in BullType, bull' = [bull EXCEPT ![r] = b], b.state # "none", Async,
               ex' = [ex EXCEPT ![x] = Idle], faults' \in 0..MaxFaults,
               UNCHANGED <<req, event, job, active, running, records, toggles, started>>
        PROVE  Leaving(x) /\ TablesOK'
    <2>1. RequestOK(req[r], b.state)
      BY <1>0, <1>3 DEF RequestOK, HoldOK
    <2>2. /\ bull' \in [Requests -> BullType] /\ bull'[r] = b
          /\ \A s \in Requests \ {r} : bull'[s] = bull[s]
      BY <1>0, <1>3 DEF TablesOK
    <2>3. ex' \in [Executors -> ExType]
      BY <1>0, <1>1, <1>3 DEF TablesOK
    <2> HIDE DEF r
    <2> QED
      BY <1>0, <1>3, <2>1, <2>2, <2>3 DEF Leaving, TablesOK, r
  <1>4. CASE Return(x) /\ Async
    <2> DEFINE b == [bull[r] EXCEPT !.state = "completed"]
    <2>1. b \in BullType /\ b.state = "completed" /\ bull' = [bull EXCEPT ![r] = b]
      BY <1>0, <1>4 DEF Return, BullType, BullStates, TablesOK
    <2>2. Leaving(x) /\ TablesOK'
      <3> HIDE DEF b
      <3> QED
        BY <1>0, <1>3, <1>4, <2>1 DEF Return, TablesOK
    <2>3. req'[r].pc = "answered" /\ bull'[r].state = "completed"
      BY <1>0, <1>4, <2>1 DEF Return, RequestOK, HoldOK, TablesOK
    <2> QED
      BY <1>4, <2>2, <2>3 DEF LeaveStep, Return
  <1>5. CASE Return(x) /\ ~ Async
    <2> DEFINE q == [req[r] EXCEPT !.pc = "answered"]
    <2>1. /\ q \in ReqType /\ q.pc = "answered" /\ q.event = req[r].event
          /\ req' = [req EXCEPT ![r] = q]
      BY <1>0, <1>5 DEF Return, ReqType, RequestSteps, TablesOK
    <2>2. Leaving(x) /\ TablesOK'
      <3> HIDE DEF q
      <3> QED
        BY <1>0, <1>2, <1>5, <2>1 DEF Return, TablesOK
    <2>3. req'[r].pc = "answered" /\ bull'[r].state = "none"
      BY <1>0, <1>5, <2>1 DEF Return, RequestOK, HoldOK, TablesOK
    <2> QED
      BY <1>5, <2>2, <2>3 DEF LeaveStep, Return
  <1>6. CASE Rethrow(x)
    <2> DEFINE state == IF bull[r].made + 1 < MaxAttempts THEN "delayed" ELSE "failed"
               b == [bull[r] EXCEPT !.made = bull[r].made + 1, !.state = state]
    <2>1. state \in {"delayed", "failed"} /\ Async
      BY <1>0, <1>6 DEF Rethrow, WorkOK
    <2>2. bull' = [bull EXCEPT ![r] = b]
      BY <1>6 DEF Rethrow
    <2>3. state \in BullStates /\ bull[r].made + 1 \in Nat
      BY <1>0, <2>1 DEF BullType, BullStates
    <2> HIDE DEF state
    <2>4. b \in BullType /\ b.state = state
      BY <1>0, <2>3 DEF BullType
    <2>5. Leaving(x) /\ TablesOK'
      <3> HIDE DEF b
      <3> QED
        BY <1>0, <1>3, <1>6, <2>1, <2>2, <2>4 DEF Rethrow, TablesOK
    <2>6. bull'[r].state = state
      <3> HIDE DEF b, r
      <3> QED
        BY <1>0, <2>2, <2>4 DEF TablesOK
    <2> QED
      BY <1>6, <2>1, <2>5, <2>6 DEF LeaveStep, Rethrow
  <1>7. CASE Throw(x) \/ Crash(x)
    <2>1. faults' = faults + 1 /\ faults' \in 0..MaxFaults
      BY <1>0, <1>7, FaultLeft DEF Throw, Crash, TablesOK
    <2>2. CASE ~ Async
      <3> DEFINE q == [req[r] EXCEPT !.pc = "failed"]
      <3>1. /\ q \in ReqType /\ q.pc = "failed" /\ q.event = req[r].event
            /\ req' = [req EXCEPT ![r] = q]
        BY <1>0, <1>7, <2>2 DEF Throw, Crash, ReqType, RequestSteps, TablesOK
      <3>2. Leaving(x) /\ TablesOK'
        <4> HIDE DEF q
        <4> QED
          BY <1>2, <1>7, <2>1, <2>2, <3>1 DEF Throw, Crash
      <3>3. req'[r].pc = "failed"
        BY <1>0, <3>1 DEF TablesOK
      <3> QED
        BY <2>1, <3>2, <3>3 DEF LeaveStep
    <2>3. CASE Crash(x) /\ Async
      <3>1. bull' = [bull EXCEPT ![r] = bull[r]] /\ bull[r].state = "active"
        BY <1>0, <2>3 DEF Crash, HoldOK, TablesOK
      <3>2. Leaving(x) /\ TablesOK'
        BY <1>0, <1>3, <2>1, <2>3, <3>1 DEF Crash
      <3>3. bull'[r].state = "active"
        BY <2>3, <3>1 DEF Crash
      <3> QED
        BY <2>1, <3>2, <3>3 DEF LeaveStep
    <2>4. CASE Throw(x) /\ Async
      <3>1. Return(x) \/ Rethrow(x) \/ Crash(x)
        BY <2>4
      <3> QED
        BY <1>4, <1>5, <1>6, <2>3, <2>4, <3>1
    <2> QED
      BY <1>7, <2>2, <2>3, <2>4
  <1> QED
    BY <1>4, <1>5, <1>6, <1>7

(* Every step of the system is of one of five kinds. *)

LEMMA NextIs ==
  ASSUME TypeInv, Next
  PROVE  \/ \E r \in Requests : RequestAction(r)
         \/ \E x \in Executors, r \in Requests : Taking(x, r)
         \/ \E x \in Executors : \E y : Goes(x, y)
         \/ \E x \in Executors : LeaveStep(x)
         \/ \E p \in Pipelines : Toggle(p)
  <1>1. ASSUME NEW r \in Requests,
               \/ \E k \in Keys \cup {NoKey} : Deliver(r, k)
               \/ \E e \in Requests : BeginAgain(r, e)
               \/ RequestStep(r) \/ RequestFails(r) \/ Backoff(r) \/ Stalled(r)
        PROVE  RequestAction(r)
    BY <1>1 DEF RequestAction
  <1>2. ASSUME NEW x \in Executors, NEW r \in Requests, Take(x, r) PROVE Taking(x, r)
    BY <1>2, TakeTakes
  <1>3. ASSUME NEW x \in Executors, ExecutorStep(x) \/ Throw(x) \/ Crash(x)
        PROVE  (\E y : Goes(x, y)) \/ LeaveStep(x)
    <2>1. CASE MarkProcessing(x) \/ FailRun(x) \/ SucceedRun(x) \/ StoreRecord(x) \/ CompleteJob(x)
      BY <2>1, Steps1
    <2>2. CASE Settle(x) \/ Read(x) \/ FailEvent(x) \/ FailJob(x)
      BY <2>2, Steps2
    <2>3. CASE (\E p \in Pipelines : CreateRun(x, p)) \/ (Throw(x) /\ Async)
      BY <2>3, Steps3
    <2>4. CASE Return(x) \/ Rethrow(x) \/ (Throw(x) /\ ~ Async) \/ Crash(x)
      BY <2>4, Steps4
    <2> QED
      BY <1>3, <2>1, <2>2, <2>3, <2>4, Zenon DEF ExecutorStep
  <1> QED
    BY <1>1, <1>2, <1>3, Zenon DEF Next

LEMMA TypeNext ==
  ASSUME TypeInv, [Next]_vars
  PROVE  TypeInv'
  <1>1. CASE UNCHANGED vars
    BY <1>1 DEF vars, TypeInv, TablesOK, HoldOK, Exclusive
  <1>2. ASSUME NEW r \in Requests, RequestAction(r) PROVE TypeInv'
    BY <1>2, RequestAsks, TypeAsking
  <1>3. ASSUME NEW x \in Executors, NEW r \in Requests, Taking(x, r) PROVE TypeInv'
    BY <1>3, TypeTaking
  <1>4. ASSUME NEW x \in Executors, NEW y, Goes(x, y) PROVE TypeInv'
    BY <1>4, TypeWorking DEF Goes
  <1>5. ASSUME NEW x \in Executors, LeaveStep(x) PROVE TypeInv'
    BY <1>5, TypeLeaving DEF LeaveStep
  <1>6. ASSUME NEW p \in Pipelines, Toggle(p) PROVE TypeInv'
    <2>1. TablesOK'
      <3>1. active' \in SUBSET Pipelines
        BY <1>6, Typed DEF Toggle, TablesOK
      <3>2. toggles' \in 0..MaxToggles
        BY <1>6, Typed, WebhooksAssumption DEF Toggle, TablesOK
      <3> QED
        BY <1>6, <3>1, <3>2, Typed DEF Toggle, TablesOK
    <2> QED
      BY <1>6, <2>1 DEF Toggle, TypeInv, HoldOK, Exclusive
  <1> QED
    BY <1>1, <1>2, <1>3, <1>4, <1>5, <1>6, NextIs

(* Counting. *)

LEMMA CardSub ==
  ASSUME NEW T, IsFiniteSet(T), NEW S \in SUBSET T
  PROVE  Cardinality(S) <= Cardinality(T) /\ Cardinality(S) \in Nat /\ Cardinality(T) \in Nat
         /\ IsFiniteSet(S)
  BY FS_Subset, FS_CardinalityType

LEMMA CardAdd ==
  ASSUME NEW T, IsFiniteSet(T), NEW x, NEW S \in SUBSET (T \cup {x})
  PROVE  Cardinality(S) <= Cardinality(T) + 1 /\ Cardinality(S) \in Nat /\ Cardinality(T) \in Nat
  <1>1. /\ IsFiniteSet(T \cup {x}) /\ Cardinality(T) \in Nat
        /\ Cardinality(T \cup {x}) = IF x \in T THEN Cardinality(T) ELSE Cardinality(T) + 1
    BY FS_AddElement, FS_CardinalityType
  <1>2. Cardinality(S) <= Cardinality(T \cup {x}) /\ Cardinality(S) \in Nat
    BY <1>1, CardSub
  <1> QED
    BY <1>1, <1>2

LEMMA CardDrop ==
  ASSUME NEW T, IsFiniteSet(T), NEW x \in T, NEW S \in SUBSET (T \ {x})
  PROVE  Cardinality(S) + 1 <= Cardinality(T) /\ Cardinality(S) \in Nat /\ Cardinality(T) \in Nat
  <1>1. /\ IsFiniteSet(T \ {x}) /\ Cardinality(T) \in Nat /\ Cardinality(T \ {x}) \in Nat
        /\ Cardinality(T \ {x}) = Cardinality(T) - 1
    BY FS_RemoveElement, FS_CardinalityType
  <1>2. Cardinality(S) <= Cardinality(T \ {x}) /\ Cardinality(S) \in Nat
    BY <1>1, CardSub
  <1> QED
    BY <1>1, <1>2

(* Runs. *)

Holders(p) == {x \in Executors : ex[x].pc \in {"run", "stored"} /\ ex[x].p = p}

\* A pipeline has a RUNNING run for each executor that works on it, and at most
\* one more for each fault.
RunsInv ==
  \A p \in Pipelines : /\ Cardinality(Holders(p)) <= running[p]
                       /\ running[p] <= Cardinality(Holders(p)) + faults

LEMMA HoldersFinite == \A p : IsFiniteSet(Holders(p)) /\ Cardinality(Holders(p)) \in Nat
  <1>1. \A p : Holders(p) \subseteq Executors
    BY DEF Holders
  <1> QED
    BY <1>1, CardSub, WebhooksAssumption

LEMMA HoldersFiniteNext == \A p : IsFiniteSet(Holders(p)') /\ Cardinality(Holders(p)') \in Nat
  <1>1. \A p : Holders(p)' \subseteq Executors
    BY DEF Holders
  <1> QED
    BY <1>1, CardSub, WebhooksAssumption

LEMMA RunsNext ==
  ASSUME TypeInv, RunsInv, [Next]_vars
  PROVE  RunsInv'
  <1> SUFFICES ASSUME NEW p \in Pipelines
               PROVE  /\ Cardinality(Holders(p)') <= running'[p]
                      /\ running'[p] <= Cardinality(Holders(p)') + faults'
    BY DEF RunsInv
  <1> DEFINE S == Holders(p)
             T == Holders(p)'
  <1>0. /\ IsFiniteSet(S) /\ Cardinality(S) \in Nat /\ IsFiniteSet(T) /\ Cardinality(T) \in Nat
        /\ running[p] \in Int /\ faults \in Nat
        /\ Cardinality(S) <= running[p] /\ running[p] <= Cardinality(S) + faults
    BY HoldersFinite, HoldersFiniteNext, Typed DEF TablesOK, RunsInv
  <1>a. ASSUME T = S, running' = running, faults' \in {faults, faults + 1}
        PROVE  Cardinality(T) <= running'[p] /\ running'[p] <= Cardinality(T) + faults'
    <2> HIDE DEF S, T
    <2> QED
      BY <1>0, <1>a
  <1>b. ASSUME NEW x \in Executors, \A z \in Executors \ {x} : ex'[z] = ex[z], x \notin T,
               running' = running, faults' = faults + 1
        PROVE  Cardinality(T) <= running'[p] /\ running'[p] <= Cardinality(T) + faults'
    <2>1. T \subseteq S /\ S \subseteq T \cup {x}
      BY <1>b DEF Holders
    <2>2. Cardinality(T) <= Cardinality(S)
      BY <1>0, <2>1, CardSub
    <2>3. Cardinality(S) <= Cardinality(T) + 1
      BY <1>0, <2>1, CardAdd
    <2> HIDE DEF S, T
    <2> QED
      BY <1>0, <1>b, <2>2, <2>3
  <1>1. CASE UNCHANGED vars
    BY <1>1, <1>a DEF vars, Holders
  <1>2. ASSUME NEW r \in Requests, RequestAction(r)
        PROVE  Cardinality(T) <= running'[p] /\ running'[p] <= Cardinality(T) + faults'
    <2>1. ex' = ex /\ running' = running /\ faults' \in {faults, faults + 1}
      BY <1>2 DEF RequestAction, RequestStep, Deliver, BeginAgain, CreateEvent, Reset, CreateJob,
                  Enqueue, RequestFails, Backoff, Stalled
    <2>2. T = S
      BY <2>1 DEF Holders
    <2> QED
      BY <1>a, <2>1, <2>2
  <1>3. ASSUME NEW x \in Executors, NEW r \in Requests, Taking(x, r)
        PROVE  Cardinality(T) <= running'[p] /\ running'[p] <= Cardinality(T) + faults'
    <2>1. PICK y : ex' = [ex EXCEPT ![x] = y] /\ y.pc \in {"mark", "read"}
      BY <1>3, BeginType DEF Taking
    <2>2. /\ ex[x].pc = "idle" /\ ex'[x].pc \in {"mark", "read"}
          /\ \A z \in Executors \ {x} : ex'[z] = ex[z]
      BY <1>3, <2>1, Typed DEF Taking, TablesOK
    <2>3. T = S
      BY <2>2 DEF Holders
    <2> QED
      BY <1>3, <1>a, <2>3 DEF Taking
  <1>4. ASSUME NEW x \in Executors, NEW y, Goes(x, y)
        PROVE  Cardinality(T) <= running'[p] /\ running'[p] <= Cardinality(T) + faults'
    <2>0. /\ ex'[x] = y /\ \A z \in Executors \ {x} : ex'[z] = ex[z]
          /\ WorkOK(ex[x]) /\ ex[x].pc # "idle" /\ running \in [Pipelines -> Int]
      BY <1>4, Typed DEF Goes, Working, TablesOK
    <2>1. CASE ex[x].pc \in {"run", "stored"} /\ y.pc = "loop" /\ faults' = faults
               /\ running' = [running EXCEPT ![ex[x].p] = running[ex[x].p] - 1]
      <3>1. CASE ex[x].p = p
        <4>1. x \in S /\ T \subseteq S \ {x} /\ S \subseteq T \cup {x}
          BY <2>0, <2>1, <3>1 DEF Holders
        <4>2. Cardinality(T) + 1 <= Cardinality(S)
          BY <1>0, <4>1, CardDrop
        <4>3. Cardinality(S) <= Cardinality(T) + 1
          BY <1>0, <4>1, CardAdd
        <4>4. running'[p] = running[p] - 1
          BY <2>0, <2>1, <3>1
        <4> HIDE DEF S, T
        <4> QED
          BY <1>0, <2>1, <4>2, <4>3, <4>4
      <3>2. CASE ex[x].p # p
        <4>1. T = S /\ running'[p] = running[p]
          BY <2>0, <2>1, <3>2 DEF Holders, WorkOK
        <4> HIDE DEF S, T
        <4> QED
          BY <1>0, <2>1, <4>1
      <3> QED
        BY <3>1, <3>2
    <2>2. CASE ex[x].pc = "loop" /\ y.pc = "run" /\ y.p \in ex[x].todo /\ faults' = faults
               /\ running' = [running EXCEPT ![y.p] = running[y.p] + 1]
      <3>1. CASE y.p = p
        <4>1. x \in T /\ S \subseteq T \ {x} /\ T \subseteq S \cup {x}
          BY <2>0, <2>2, <3>1 DEF Holders
        <4>2. Cardinality(S) + 1 <= Cardinality(T)
          BY <1>0, <4>1, CardDrop
        <4>3. Cardinality(T) <= Cardinality(S) + 1
          BY <1>0, <4>1, CardAdd
        <4>4. running'[p] = running[p] + 1
          BY <2>0, <2>2, <3>1
        <4> HIDE DEF S, T
        <4> QED
          BY <1>0, <2>2, <4>2, <4>3, <4>4
      <3>2. CASE y.p # p
        <4>1. T = S /\ running'[p] = running[p]
          BY <2>0, <2>2, <3>2 DEF Holders
        <4> HIDE DEF S, T
        <4> QED
          BY <1>0, <2>2, <4>1
      <3> QED
        BY <3>1, <3>2
    <2>3. CASE y.pc \in {"failEvent", "rethrow"} /\ running' = running /\ faults' = faults + 1
      <3>1. x \notin T
        BY <2>0, <2>3 DEF Holders
      <3> QED
        BY <1>b, <2>0, <2>3, <3>1
    <2>4. CASE /\ running' = running /\ faults' = faults
               /\ \/ ex[x].pc \notin {"run", "stored"} /\ y.pc \notin {"run", "stored"}
                  \/ ex[x].pc = "run" /\ y.pc = "stored" /\ y.p = ex[x].p
      <3>1. T = S
        BY <2>0, <2>4 DEF Holders
      <3> QED
        BY <1>a, <2>4, <3>1
    <2> QED
      BY <1>4, <2>1, <2>2, <2>3, <2>4 DEF Goes, WorkStep
  <1>5. ASSUME NEW x \in Executors, LeaveStep(x)
        PROVE  Cardinality(T) <= running'[p] /\ running'[p] <= Cardinality(T) + faults'
    <2>0. /\ ex'[x] = Idle /\ \A z \in Executors \ {x} : ex'[z] = ex[z] /\ running' = running
      BY <1>5, Typed DEF LeaveStep, Leaving, TablesOK
    <2>1. CASE faults' = faults + 1
      <3>1. x \notin T
        BY <2>0 DEF Holders, Idle
      <3> QED
        BY <1>5, <1>b, <2>0, <2>1, <3>1 DEF LeaveStep, Leaving
    <2>2. CASE faults' = faults /\ ex[x].pc \in {"return", "rethrow"}
      <3>1. T = S
        BY <2>0, <2>2 DEF Holders, Idle
      <3> QED
        BY <1>5, <1>a, <2>2, <3>1 DEF LeaveStep, Leaving
    <2> QED
      BY <1>5, <2>1, <2>2 DEF LeaveStep
  <1>6. ASSUME NEW q \in Pipelines, Toggle(q)
        PROVE  Cardinality(T) <= running'[p] /\ running'[p] <= Cardinality(T) + faults'
    BY <1>6, <1>a DEF Toggle, Holders
  <1> QED
    BY <1>1, <1>2, <1>3, <1>4, <1>5, <1>6, NextIs

(* What PROCESSED says. *)

\* An executor has stored a record for each pipeline it met and left behind.
Behind(x) ==
  ex[x].pc \in {"loop", "run", "stored"} =>
    \A p \in ex[x].seen \ (ex[x].todo \cup Broken) :
      records[EventOf(x)][p] > 0 \/ (ex[x].pc = "run" /\ p = ex[x].p)

ProcessedInv == ProcessedIsComplete /\ \A x \in Executors : Behind(x)

LEMMA EventKept ==
  ASSUME TypeInv, Next, NEW x \in Executors, ex[x].pc # "idle", ex'[x] = ex[x]
  PROVE  EventOf(x)' = EventOf(x)
  <1>0. ex[x].r \in Requests /\ ex[x].r # None /\ WorkOK(ex[x])
    BY AtWork, WebhooksAssumption
  <1>1. ASSUME NEW r \in Requests, RequestAction(r) PROVE EventOf(x)' = EventOf(x)
    <2>1. PICK q : Asking(r, q)
      BY <1>1, RequestAsks
    <2> QED
      BY <1>0, <2>1, Typed DEF Asking, EventOf, TablesOK
  <1>2. ASSUME NEW z \in Executors, NEW r \in Requests, Taking(z, r)
        PROVE  EventOf(x)' = EventOf(x)
    BY <1>0, <1>2 DEF Taking, EventOf
  <1>3. ASSUME NEW z \in Executors, NEW y, Goes(z, y) PROVE EventOf(x)' = EventOf(x)
    BY <1>3 DEF Goes, Working, EventOf
  <1>4. ASSUME NEW z \in Executors, LeaveStep(z) PROVE EventOf(x)' = EventOf(x)
    BY <1>0, <1>4 DEF LeaveStep, Leaving, EventOf
  <1>5. ASSUME NEW p \in Pipelines, Toggle(p) PROVE EventOf(x)' = EventOf(x)
    BY <1>5 DEF Toggle, EventOf
  <1> QED
    BY <1>1, <1>2, <1>3, <1>4, <1>5, NextIs

\* A step that stores no record and settles no event, and takes no executor on
\* within its loop, leaves what it says.
LEMMA ProcessedKept ==
  ASSUME TypeInv, Next, ProcessedInv, UNCHANGED records,
         \A e \in Requests : event'[e].status = "PROCESSED" => event'[e] = event[e],
         \A x \in Executors : ex'[x].pc \in {"loop", "run", "stored"} => ex'[x] = ex[x]
  PROVE  ProcessedInv'
  <1>1. ProcessedIsComplete'
    BY DEF ProcessedInv, ProcessedIsComplete
  <1>2. ASSUME NEW x \in Executors PROVE Behind(x)'
    <2>1. CASE ex'[x].pc \in {"loop", "run", "stored"}
      <3>1. ex'[x] = ex[x] /\ ex[x].pc # "idle" /\ Behind(x)
        BY <2>1 DEF ProcessedInv
      <3>2. EventOf(x)' = EventOf(x)
        BY <3>1, EventKept
      <3> QED
        BY <3>1, <3>2 DEF Behind
    <2>2. CASE ex'[x].pc \notin {"loop", "run", "stored"}
      BY <2>2 DEF Behind
    <2> QED
      BY <2>1, <2>2
  <1> QED
    BY <1>1, <1>2 DEF ProcessedInv

LEMMA RequestKeepsProcessed ==
  ASSUME TypeInv, NEW r \in Requests, RequestAction(r)
  PROVE  /\ UNCHANGED <<records, ex>>
         /\ \A e \in Requests : event'[e].status = "PROCESSED" => event'[e] = event[e]
  <1>1. CASE CreateEvent(r)
    <2>1. UNCHANGED <<records, ex>>
      BY <1>1 DEF CreateEvent
    <2>2. event' = event \/ \E v : event' = [event EXCEPT ![r] = v] /\ v.status = "RECEIVED"
      <3>1. CASE \E known \in KnownConnector : event' = [event EXCEPT ![r] =
                   [status |-> "RECEIVED", key |-> req[r].key, known |-> known, seen |-> {}]]
        <4>1. PICK known \in KnownConnector : event' = [event EXCEPT ![r] =
                 [status |-> "RECEIVED", key |-> req[r].key, known |-> known, seen |-> {}]]
          BY <3>1
        <4> DEFINE v == [status |-> "RECEIVED", key |-> req[r].key, known |-> known, seen |-> {}]
        <4>2. v.status = "RECEIVED"
          OBVIOUS
        <4> HIDE DEF v
        <4>3. event' = [event EXCEPT ![r] = v]
          BY <4>1 DEF v
        <4> QED
          BY <4>2, <4>3
      <3> QED
        BY <1>1, <3>1 DEF CreateEvent
    <2> QED
      BY <2>1, <2>2, Typed DEF TablesOK
  <1>2. CASE Reset(r)
    <2>1. req[r].event \in Requests
      BY <1>2, Typed DEF Reset, RequestOK
    <2>2. event' = [event EXCEPT ![req[r].event].status = "RECEIVED"] /\ UNCHANGED <<records, ex>>
      BY <1>2 DEF Reset
    <2>3. event[req[r].event] \in EventType /\ event \in [Requests -> EventType]
      BY <2>1, Typed DEF TablesOK
    <2>4. [event[req[r].event] EXCEPT !.status = "RECEIVED"].status = "RECEIVED"
      BY <2>3 DEF EventType
    <2> QED
      BY <2>1, <2>2, <2>3, <2>4
  <1>3. CASE CreateJob(r) \/ Enqueue(r) \/ RequestFails(r) \/ Backoff(r) \/ Stalled(r)
    BY <1>3 DEF CreateJob, Enqueue, RequestFails, Backoff, Stalled
  <1>4. ASSUME NEW k \in Keys \cup {NoKey}, Deliver(r, k)
        PROVE  event' = event /\ UNCHANGED <<records, ex>>
    BY <1>4 DEF Deliver
  <1>5. ASSUME NEW e \in Requests, BeginAgain(r, e)
        PROVE  event' = event /\ UNCHANGED <<records, ex>>
    BY <1>5 DEF BeginAgain
  <1> QED
    BY <1>1, <1>2, <1>3, <1>4, <1>5 DEF RequestAction, RequestStep

LEMMA ProcessedNext ==
  ASSUME TypeInv, ProcessedInv, [Next]_vars
  PROVE  ProcessedInv'
  <1>1. CASE UNCHANGED vars
    BY <1>1 DEF vars, ProcessedInv, ProcessedIsComplete, Behind, EventOf
  <1> SUFFICES ASSUME Next PROVE ProcessedInv'
    BY <1>1
  <1>2. ASSUME NEW r \in Requests, RequestAction(r) PROVE ProcessedInv'
    BY <1>2, RequestKeepsProcessed, ProcessedKept
  <1>3. ASSUME NEW x \in Executors, NEW r \in Requests, Taking(x, r) PROVE ProcessedInv'
    <2>1. PICK y : ex' = [ex EXCEPT ![x] = y] /\ y.pc \in {"mark", "read"}
      BY <1>3, BeginType DEF Taking
    <2>2. /\ ex'[x].pc \in {"mark", "read"}
          /\ \A z \in Executors \ {x} : ex'[z] = ex[z]
      BY <2>1, Typed DEF TablesOK
    <2> QED
      BY <1>3, <2>2, ProcessedKept DEF Taking
  <1>4. ASSUME NEW x \in Executors, LeaveStep(x) PROVE ProcessedInv'
    <2>1. ex'[x] = Idle /\ \A z \in Executors \ {x} : ex'[z] = ex[z]
      BY <1>4, Typed DEF LeaveStep, Leaving, TablesOK
    <2>2. \A z \in Executors : ex'[z].pc \in {"loop", "run", "stored"} => ex'[z] = ex[z]
      BY <2>1 DEF Idle
    <2> QED
      BY <1>4, <2>2, ProcessedKept DEF LeaveStep, Leaving
  <1>5. ASSUME NEW p \in Pipelines, Toggle(p) PROVE ProcessedInv'
    BY <1>5, ProcessedKept DEF Toggle
  <1>6. ASSUME NEW x \in Executors, NEW y, Goes(x, y) PROVE ProcessedInv'
    <2> DEFINE e == EventOf(x)
    <2>0. /\ ex'[x] = y /\ \A z \in Executors \ {x} : ex'[z] = ex[z]
          /\ ex[x].pc # "idle" /\ WorkOK(ex[x]) /\ Behind(x) /\ e \in Requests
          /\ records \in [Requests -> [Pipelines -> Nat]] /\ event \in [Requests -> EventType]
          /\ event[e] \in EventType /\ records[e] \in [Pipelines -> Nat]
      BY <1>6, Typed, AtWork DEF Goes, Working, TablesOK, ProcessedInv
    <2>1. e' = e
      BY <1>6 DEF Goes, Working, EventOf, TablesOK
    <2>2. CASE /\ UNCHANGED records
               /\ event' = event \/ \E v : event' = [event EXCEPT ![e] = v] /\ v.status = "FAILED"
               /\ y.pc \notin {"loop", "run", "stored"}
      <3>1. \A f \in Requests : event'[f].status = "PROCESSED" => event'[f] = event[f]
        BY <2>0, <2>2
      <3> QED
        BY <2>0, <2>2, <3>1, ProcessedKept
    <2>3. CASE /\ ex[x].pc = "loop" /\ y.pc \notin {"loop", "run", "stored"}
               /\ ex[x].todo = {} /\ UNCHANGED records
               /\ event' = [event EXCEPT ![e] =
                              [event[e] EXCEPT !.status = Verdict(x), !.seen = ex[x].seen]]
      <3>1. event'[e].status = Verdict(x) /\ event'[e].seen = ex[x].seen
        BY <2>0, <2>3 DEF EventType
      <3>2. \A f \in Requests \ {e} : event'[f] = event[f]
        BY <2>0, <2>3
      <3>3. Verdict(x) = "PROCESSED" => ex[x].seen # {}
        BY <2>0, VerdictType
      <3>4. \A p \in ex[x].seen \ Broken : records[e][p] > 0
        BY <2>0, <2>3 DEF Behind
      <3>5. ProcessedIsComplete'
        <4> HIDE DEF e
        <4> SUFFICES ASSUME NEW f \in Requests, event'[f].status = "PROCESSED"
                     PROVE  event'[f].seen # {}
                            /\ \A p \in event'[f].seen \ Broken : records'[f][p] > 0
          BY DEF ProcessedIsComplete
        <4>1. CASE f = e
          BY <2>3, <3>1, <3>3, <3>4, <4>1
        <4>2. CASE f # e
          BY <2>3, <3>2, <4>2 DEF ProcessedInv, ProcessedIsComplete
        <4> QED
          BY <4>1, <4>2
      <3>6. ASSUME NEW z \in Executors PROVE Behind(z)'
        <4>1. CASE z = x
          BY <2>0, <2>3, <4>1 DEF Behind
        <4>2. CASE z # x
          <5>1. ex'[z] = ex[z] /\ Behind(z) /\ (ex[z].pc # "idle" => EventOf(z)' = EventOf(z))
            BY <2>0, <4>2, EventKept DEF ProcessedInv
          <5> QED
            BY <2>3, <5>1 DEF Behind
        <4> QED
          BY <4>1, <4>2
      <3> QED
        BY <3>5, <3>6 DEF ProcessedInv
    <2>4. CASE /\ UNCHANGED event /\ y.pc \in {"loop", "run", "stored"}
               /\ \/ UNCHANGED records
                  \/ records' = [records EXCEPT ![e][ex[x].p] = records[e][ex[x].p] + 1]
                     /\ ex[x].p \in Pipelines
      <3>1. \A f \in Requests, p \in Pipelines : records[f][p] > 0 => records'[f][p] > 0
        <4>1. CASE UNCHANGED records
          BY <4>1
        <4>2. CASE /\ records' = [records EXCEPT ![e][ex[x].p] = records[e][ex[x].p] + 1]
                   /\ ex[x].p \in Pipelines
          <5> HIDE DEF e
          <5>1. \A p \in Pipelines : records[e][p] \in Nat
            BY <2>0
          <5>2. \A f \in Requests, p \in Pipelines : f # e \/ p # ex[x].p =>
                  records'[f][p] = records[f][p]
            BY <2>0, <4>2
          <5>3. records'[e][ex[x].p] = records[e][ex[x].p] + 1
            BY <2>0, <4>2
          <5> QED
            BY <4>2, <5>1, <5>2, <5>3
        <4> QED
          BY <2>4, <4>1, <4>2
      <3>2. ProcessedIsComplete'
        <4>1. \A f \in Requests : event[f].seen \in SUBSET Pipelines
          BY Typed DEF EventType
        <4> QED
          BY <2>4, <3>1, <4>1 DEF ProcessedInv, ProcessedIsComplete
      <3>3. ASSUME NEW z \in Executors, z # x PROVE Behind(z)'
        <4>1. /\ ex'[z] = ex[z] /\ Behind(z) /\ ex[z] \in ExType
              /\ ex[z].pc # "idle" => EventOf(z)' = EventOf(z) /\ EventOf(z) \in Requests
          BY <2>0, <3>3, EventKept, AtWork DEF ProcessedInv
        <4>2. ex[z].seen \in SUBSET Pipelines
          BY <4>1 DEF ExType
        <4> QED
          BY <3>1, <4>1, <4>2 DEF Behind
      <3>4. Behind(x)'
        <4>0. ex[x].seen \in SUBSET Pipelines
          BY Typed DEF ExType
        <4>1. CASE y.seen = ex[x].seen /\ y.todo = ex[x].todo /\ y.p = ex[x].p
                   /\ ex[x].pc = "run" /\ y.pc = "loop" /\ ex[x].p \in Broken
          BY <2>0, <2>1, <3>1, <4>0, <4>1 DEF Behind
        <4>2. CASE y.seen = ex[x].seen /\ y.todo = ex[x].todo /\ y.p = ex[x].p
                   /\ ex[x].pc = "stored" /\ y.pc = "loop"
          BY <2>0, <2>1, <3>1, <4>0, <4>2 DEF Behind
        <4>3. CASE /\ y.seen = ex[x].seen /\ y.todo = ex[x].todo /\ y.p = ex[x].p
                   /\ ex[x].pc = "run" /\ y.pc = "stored"
                   /\ records' = [records EXCEPT ![e][ex[x].p] = records[e][ex[x].p] + 1]
          <5>1. ex[x].p \in Pipelines /\ records'[e][ex[x].p] = records[e][ex[x].p] + 1
                /\ records[e][ex[x].p] \in Nat
            <6> HIDE DEF e
            <6> QED
              BY <2>0, <4>3 DEF WorkOK
          <5>2. records'[e][ex[x].p] > 0
            BY <5>1
          <5> QED
            BY <2>0, <2>1, <3>1, <4>0, <4>3, <5>2 DEF Behind
        <4>4. CASE y.todo = y.seen /\ y.pc = "loop"
          BY <2>0, <4>4 DEF Behind
        <4>5. CASE /\ ex[x].pc = "loop" /\ y.pc = "run" /\ y.p \in ex[x].todo
                   /\ y.todo = ex[x].todo \ {y.p} /\ y.seen = ex[x].seen
          BY <2>0, <2>1, <3>1, <4>0, <4>5 DEF Behind
        <4> QED
          BY <1>6, <2>4, <4>1, <4>2, <4>3, <4>4, <4>5 DEF Goes, WorkStep
      <3> QED
        BY <3>2, <3>3, <3>4 DEF ProcessedInv
    <2>5. ex[x].pc = "run" => ex[x].p \in Pipelines
      BY <2>0 DEF WorkOK
    <2>6. CASE ex[x].pc \in {"mark", "complete", "failJob"} \/ y.pc \in {"failEvent", "rethrow"}
      <3>1. UNCHANGED <<event, records>> /\ y.pc \notin {"loop", "run", "stored"}
        BY <1>6, <2>6 DEF Goes, WorkStep
      <3> QED
        BY <2>2, <3>1
    <2>7. CASE ex[x].pc = "failEvent" /\ y.pc = "failJob"
      <3>1. UNCHANGED records /\ event' = [event EXCEPT ![e] = [event[e] EXCEPT !.status = "FAILED"]]
        BY <1>6, <2>7 DEF Goes, WorkStep
      <3>2. [event[e] EXCEPT !.status = "FAILED"].status = "FAILED"
        BY <2>0 DEF EventType
      <3> QED
        BY <2>2, <2>7, <3>1, <3>2
    <2>8. CASE ex[x].pc = "loop" /\ y.pc \in {"complete", "return"}
      <3>1. /\ ex[x].todo = {} /\ UNCHANGED records
            /\ event' = [event EXCEPT ![e] =
                          [event[e] EXCEPT !.status = Verdict(x), !.seen = ex[x].seen]]
        BY <1>6, <2>8 DEF Goes, WorkStep
      <3> QED
        BY <2>3, <2>8, <3>1
    <2>9. CASE y.pc \in {"loop", "run", "stored"}
      <3>1. /\ UNCHANGED event
            /\ \/ UNCHANGED records
               \/ records' = [records EXCEPT ![e][ex[x].p] = records[e][ex[x].p] + 1]
                  /\ ex[x].pc = "run"
        BY <1>6, <2>9 DEF Goes, WorkStep
      <3> QED
        BY <2>4, <2>5, <2>9, <3>1
    <2>10. \/ ex[x].pc \in {"mark", "complete", "failJob"} \/ y.pc \in {"failEvent", "rethrow"}
           \/ ex[x].pc = "failEvent" /\ y.pc = "failJob"
           \/ ex[x].pc = "loop" /\ y.pc \in {"complete", "return"}
           \/ y.pc \in {"loop", "run", "stored"}
      BY <1>6 DEF Goes, WorkStep
    <2> QED
      BY <2>6, <2>7, <2>8, <2>9, <2>10
  <1> QED
    BY <1>2, <1>3, <1>4, <1>5, <1>6, NextIs

(* What an event's records cost. *)

\* An executor in the state v has a record for the pipeline p still to store.
Due(v, p) ==
  \/ v.pc \in {"mark", "read"}
  \/ v.pc \in {"loop", "run", "stored"} /\ p \in v.todo
  \/ v.pc = "run" /\ v.p = p

Pending(e, p) ==
  {x \in Executors : ex[x].pc # "idle" /\ EventOf(x) = e /\ Due(ex[x], p)}

\* A request may still have its event executed, for the first time or again.
Owed(r) ==
  \/ req[r].pc \in {"reset", "job", "enqueue", "now"}
  \/ bull[r].state \in {"waiting", "delayed"}
  \/ /\ bull[r].state = "active"
     /\ \A x \in Executors : ex[x].r = r => ex[x].pc \in {"failEvent", "failJob", "rethrow"}

Unstarted(e) == {r \in Requests : req[r].event = e /\ Owed(r)}
OfEvent(e) == {r \in Requests : req[r].event = e}

\* An execution stores one record a pipeline; a request executes its event once,
\* and once more for a fault.
RecordsInv ==
  \A e \in Requests, p \in Pipelines : records[e][p] + Cardinality(Pending(e, p)) <= started[e]
StartedInv ==
  \A e \in Requests : started[e] + Cardinality(Unstarted(e)) <= Cardinality(OfEvent(e)) + faults

LEMMA PendingFinite ==
  \A e, p : /\ IsFiniteSet(Pending(e, p)) /\ Cardinality(Pending(e, p)) \in Nat
            /\ IsFiniteSet(Pending(e, p)') /\ Cardinality(Pending(e, p)') \in Nat
  <1>1. \A e, p : Pending(e, p) \subseteq Executors /\ Pending(e, p)' \subseteq Executors
    BY DEF Pending
  <1> QED
    BY <1>1, CardSub, WebhooksAssumption

LEMMA UnstartedFinite ==
  \A e : /\ IsFiniteSet(Unstarted(e)) /\ Cardinality(Unstarted(e)) \in Nat
         /\ IsFiniteSet(Unstarted(e)') /\ Cardinality(Unstarted(e)') \in Nat
         /\ IsFiniteSet(OfEvent(e)) /\ Cardinality(OfEvent(e)) \in Nat
         /\ IsFiniteSet(OfEvent(e)') /\ Cardinality(OfEvent(e)') \in Nat
  <1>1. \A e : /\ Unstarted(e) \subseteq Requests /\ Unstarted(e)' \subseteq Requests
               /\ OfEvent(e) \subseteq Requests /\ OfEvent(e)' \subseteq Requests
    BY DEF Unstarted, OfEvent
  <1> QED
    BY <1>1, CardSub, WebhooksAssumption

LEMMA RecordsNext ==
  ASSUME TypeInv, RecordsInv, [Next]_vars
  PROVE  RecordsInv'
  <1>1. CASE UNCHANGED vars
    BY <1>1 DEF vars, RecordsInv, Pending, EventOf
  <1> SUFFICES ASSUME Next, NEW e \in Requests, NEW p \in Pipelines
               PROVE  records'[e][p] + Cardinality(Pending(e, p)') <= started'[e]
    BY <1>1 DEF RecordsInv
  <1> DEFINE S == Pending(e, p)
             T == Pending(e, p)'
             Goal == records'[e][p] + Cardinality(T) <= started'[e]
  <1>0. /\ IsFiniteSet(S) /\ Cardinality(S) \in Nat /\ Cardinality(T) \in Nat
        /\ records[e][p] \in Nat /\ started[e] \in Nat
        /\ records[e][p] + Cardinality(S) <= started[e]
    BY PendingFinite, Typed DEF TablesOK, RecordsInv
  <1>a. ASSUME T \subseteq S, records'[e][p] = records[e][p], started'[e] = started[e]
        PROVE  Goal
    <2>1. Cardinality(T) <= Cardinality(S)
      BY <1>0, <1>a, CardSub
    <2> HIDE DEF S, T
    <2> QED
      BY <1>0, <1>a, <2>1
  <1>2. ASSUME NEW r \in Requests, RequestAction(r) PROVE Goal
    <2>1. ex' = ex /\ UNCHANGED <<records, started>>
      BY <1>2 DEF RequestAction, RequestStep, Deliver, BeginAgain, CreateEvent, Reset, CreateJob,
                  Enqueue, RequestFails, Backoff, Stalled
    <2>2. T \subseteq S
      BY <2>1, EventKept DEF Pending
    <2> QED
      BY <1>a, <2>1, <2>2
  <1>3. ASSUME NEW x \in Executors, NEW r \in Requests, Taking(x, r) PROVE Goal
    <2>1. PICK y : ex' = [ex EXCEPT ![x] = y] /\ y.pc \in {"mark", "read"} /\ y.r = r
      BY <1>3, BeginType DEF Taking
    <2>2. /\ ex'[x] = y /\ \A z \in Executors \ {x} : ex'[z] = ex[z]
      BY <2>1, Typed DEF TablesOK
    <2>3. EventOf(x)' = req[r].event
      BY <1>3, <2>1, <2>2 DEF EventOf, Taking
    <2>4. T \subseteq S \cup {x}
      BY <2>2, EventKept DEF Pending
    <2>5. records' = records /\ started \in [Requests -> Nat]
          /\ started' = [started EXCEPT ![req[r].event] = started[req[r].event] + 1]
      BY <1>3, Typed DEF Taking, TablesOK
    <2>6. CASE e = req[r].event
      <3>1. Cardinality(T) <= Cardinality(S) + 1
        BY <1>0, <2>4, CardAdd
      <3>2. started'[e] = started[e] + 1
        BY <2>5, <2>6
      <3> HIDE DEF S, T
      <3> QED
        BY <1>0, <2>5, <3>1, <3>2
    <2>7. CASE e # req[r].event
      <3>1. x \notin T
        BY <2>3, <2>7 DEF Pending
      <3> QED
        BY <1>a, <2>4, <2>5, <2>7, <3>1
    <2> QED
      BY <2>6, <2>7
  <1>4. ASSUME NEW x \in Executors, LeaveStep(x) PROVE Goal
    <2>1. /\ ex'[x] = Idle /\ \A z \in Executors \ {x} : ex'[z] = ex[z]
          /\ UNCHANGED <<records, started>>
      BY <1>4, Typed DEF LeaveStep, Leaving, TablesOK
    <2>2. T \subseteq S
      BY <2>1, EventKept DEF Pending, Idle
    <2> QED
      BY <1>a, <2>1, <2>2
  <1>5. ASSUME NEW q \in Pipelines, Toggle(q) PROVE Goal
    BY <1>5, <1>a DEF Toggle, Pending, EventOf
  <1>6. ASSUME NEW x \in Executors, NEW y, Goes(x, y) PROVE Goal
    <2>0. /\ ex'[x] = y /\ \A z \in Executors \ {x} : ex'[z] = ex[z]
          /\ ex[x].pc # "idle" /\ WorkOK(ex[x]) /\ started' = started
          /\ records \in [Requests -> [Pipelines -> Nat]] /\ EventOf(x) \in Requests
      BY <1>6, Typed, AtWork DEF Goes, Working, TablesOK
    <2>1. EventOf(x)' = EventOf(x)
      BY <1>6 DEF Goes, Working, EventOf, TablesOK
    <2>2. ASSUME Due(y, p) => Due(ex[x], p) PROVE T \subseteq S
      BY <2>0, <2>1, <2>2, EventKept DEF Pending
    <2>3. CASE ex[x].pc = "run" /\ y.pc = "stored" /\ y.todo = ex[x].todo
               /\ records' = [records EXCEPT ![EventOf(x)][ex[x].p] =
                                records[EventOf(x)][ex[x].p] + 1]
      <3>0. T \subseteq S /\ ex[x].p \in Pipelines /\ ex[x].p \notin ex[x].todo
        BY <2>0, <2>2, <2>3 DEF Due, WorkOK
      <3>1. CASE e = EventOf(x) /\ p = ex[x].p
        <4>1. x \in S /\ x \notin T
          BY <2>0, <2>3, <3>0, <3>1 DEF Pending, Due
        <4>2. Cardinality(T) + 1 <= Cardinality(S)
          BY <1>0, <3>0, <4>1, CardDrop
        <4>3. records'[e][p] = records[e][p] + 1
          BY <2>0, <2>3, <3>1
        <4> HIDE DEF S, T
        <4> QED
          BY <1>0, <2>0, <4>2, <4>3
      <3>2. CASE ~ (e = EventOf(x) /\ p = ex[x].p)
        <4>1. records'[e][p] = records[e][p]
          BY <2>0, <2>3, <3>2
        <4> QED
          BY <1>a, <2>0, <3>0, <4>1
      <3> QED
        BY <3>1, <3>2
    <2>4. CASE UNCHANGED records /\ (Due(y, p) => Due(ex[x], p))
      BY <1>a, <2>0, <2>2, <2>4
    <2> QED
      BY <1>6, <2>3, <2>4 DEF Goes, WorkStep, Due
  <1> QED
    BY <1>2, <1>3, <1>4, <1>5, <1>6, NextIs

LEMMA OwedElsewhere ==
  ASSUME NEW x \in Executors, NEW s \in Requests, \A z \in Executors \ {x} : ex'[z] = ex[z],
         ex[x].r # s, ex'[x].r # s, req'[s] = req[s], bull'[s] = bull[s]
  PROVE  Owed(s)' => Owed(s)
  <1>1. \A z \in Executors : ex[z].r = s => ex'[z] = ex[z]
    OBVIOUS
  <1> QED
    BY <1>1 DEF Owed

\* A request's step either leaves its event and owes nothing new, or it gives the
\* request its event.
LEMMA RequestOwes ==
  ASSUME TypeInv, NEW r \in Requests, RequestAction(r)
  PROVE  /\ UNCHANGED <<started, ex>> /\ faults' \in {faults, faults + 1}
         /\ \A s \in Requests \ {r} : req'[s] = req[s] /\ bull'[s] = bull[s]
         /\ \/ req'[r].event = req[r].event /\ (Owed(r)' => Owed(r))
            \/ req[r].event = None
  <1>0. /\ TablesOK /\ req[r] \in ReqType /\ bull[r] \in BullType
        /\ RequestOK(req[r], bull[r].state)
    BY Typed
  <1>1. PICK q : Asking(r, q)
    BY RequestAsks
  <1>2. /\ req'[r] = q /\ ex' = ex
        /\ \A s \in Requests \ {r} : req'[s] = req[s] /\ bull'[s] = bull[s]
    BY <1>0, <1>1 DEF Asking, TablesOK
  <1>3. started' = started /\ faults' \in {faults, faults + 1}
    BY DEF RequestAction, RequestStep, Deliver, BeginAgain, CreateEvent, Reset, CreateJob,
           Enqueue, RequestFails, Backoff, Stalled
  <1>4. CASE req[r].pc \in {"new", "create"}
    BY <1>0, <1>2, <1>3, <1>4 DEF RequestOK
  <1>5. CASE Reset(r) \/ CreateJob(r) \/ Enqueue(r) \/ Backoff(r) \/ Stalled(r)
    <2>1. Owed(r)
      BY <1>5 DEF Reset, CreateJob, Enqueue, Backoff, Stalled, Owed
    <2>2. req'[r].event = req[r].event
      BY <1>0, <1>5 DEF Reset, CreateJob, Enqueue, Backoff, Stalled, ReqType, TablesOK
    <2> QED
      BY <1>2, <1>3, <2>1, <2>2
  <1>6. CASE RequestFails(r)
    <2>1. CASE req[r].pc = "create"
      BY <1>4, <2>1
    <2>2. CASE req[r].pc # "create"
      <3>1. Owed(r)
        BY <1>6, <2>2 DEF RequestFails, Owed
      <3>2. req'[r].event = req[r].event
        BY <1>0, <1>6 DEF RequestFails, ReqType, TablesOK
      <3> QED
        BY <1>2, <1>3, <3>1, <3>2
    <2> QED
      BY <2>1, <2>2
  <1>7. \/ req[r].pc \in {"new", "create"} \/ RequestFails(r)
        \/ Reset(r) \/ CreateJob(r) \/ Enqueue(r) \/ Backoff(r) \/ Stalled(r)
    BY DEF RequestAction, RequestStep, Deliver, BeginAgain, CreateEvent
  <1> QED
    BY <1>2, <1>3, <1>4, <1>5, <1>6, <1>7

LEMMA StartedNext ==
  ASSUME TypeInv, StartedInv, [Next]_vars
  PROVE  StartedInv'
  <1>1. CASE UNCHANGED vars
    BY <1>1 DEF vars, StartedInv, Unstarted, OfEvent, Owed
  <1> SUFFICES ASSUME Next, NEW e \in Requests
               PROVE  started'[e] + Cardinality(Unstarted(e)')
                        <= Cardinality(OfEvent(e)') + faults'
    BY <1>1 DEF StartedInv
  <1> DEFINE S == Unstarted(e)
             T == Unstarted(e)'
             O == OfEvent(e)
             P == OfEvent(e)'
             Goal == started'[e] + Cardinality(T) <= Cardinality(P) + faults'
  <1>0. /\ IsFiniteSet(S) /\ Cardinality(S) \in Nat /\ Cardinality(T) \in Nat
        /\ IsFiniteSet(O) /\ Cardinality(O) \in Nat /\ Cardinality(P) \in Nat /\ IsFiniteSet(P)
        /\ started[e] \in Nat /\ faults \in Nat
        /\ started[e] + Cardinality(S) <= Cardinality(O) + faults
    BY UnstartedFinite, Typed DEF TablesOK, StartedInv
  <1>a. ASSUME T \subseteq S, P = O, started'[e] = started[e], faults' \in {faults, faults + 1}
        PROVE  Goal
    <2>1. Cardinality(T) <= Cardinality(S)
      BY <1>0, <1>a, CardSub
    <2> HIDE DEF S, T, O, P
    <2> QED
      BY <1>0, <1>a, <2>1
  <1>b. ASSUME NEW r, T \subseteq S \cup {r}, P = O, started'[e] = started[e],
               faults' = faults + 1
        PROVE  Goal
    <2>1. Cardinality(T) <= Cardinality(S) + 1
      BY <1>0, <1>b, CardAdd
    <2> HIDE DEF S, T, O, P
    <2> QED
      BY <1>0, <1>b, <2>1
  <1>2. ASSUME NEW r \in Requests, RequestAction(r) PROVE Goal
    <2>0. /\ UNCHANGED <<started, ex>> /\ faults' \in {faults, faults + 1}
          /\ \A s \in Requests \ {r} : req'[s] = req[s] /\ bull'[s] = bull[s]
          /\ \/ req'[r].event = req[r].event /\ (Owed(r)' => Owed(r))
             \/ req[r].event = None
      BY <1>2, RequestOwes
    <2>1. \A s \in Requests \ {r} : Owed(s)' => Owed(s)
      BY <2>0 DEF Owed
    <2>2. CASE req'[r].event = req[r].event /\ (Owed(r)' => Owed(r))
      <3>1. T \subseteq S /\ P = O
        BY <2>0, <2>1, <2>2 DEF Unstarted, OfEvent
      <3> QED
        BY <1>a, <2>0, <3>1
    <2>3. CASE req[r].event = None
      <3>1. r \notin O /\ r \notin S
        BY <2>3, WebhooksAssumption DEF OfEvent, Unstarted
      <3>2. CASE req'[r].event = e
        <4>1. r \in P /\ O \subseteq P \ {r} /\ T \subseteq S \cup {r}
          BY <2>0, <2>1, <3>1, <3>2 DEF Unstarted, OfEvent
        <4>2. Cardinality(O) + 1 <= Cardinality(P)
          BY <1>0, <4>1, CardDrop
        <4>3. Cardinality(T) <= Cardinality(S) + 1
          BY <1>0, <4>1, CardAdd
        <4> HIDE DEF S, T, O, P
        <4> QED
          BY <1>0, <2>0, <4>2, <4>3
      <3>3. CASE req'[r].event # e
        <4>1. T \subseteq S /\ P = O
          BY <2>0, <2>1, <3>1, <3>3 DEF Unstarted, OfEvent
        <4> QED
          BY <1>a, <2>0, <4>1
      <3> QED
        BY <3>2, <3>3
    <2> QED
      BY <2>0, <2>2, <2>3
  <1>3. ASSUME NEW x \in Executors, NEW r \in Requests, Taking(x, r) PROVE Goal
    <2>1. PICK y : ex' = [ex EXCEPT ![x] = y] /\ y.pc \in {"mark", "read"} /\ y.r = r
      BY <1>3, BeginType DEF Taking
    <2>2. /\ ex'[x] = y /\ \A z \in Executors \ {x} : ex'[z] = ex[z]
      BY <2>1, Typed DEF TablesOK
    <2>3. ex[x].r = None
      BY <1>3, AtWork DEF Taking, WorkOK
    <2>4. ASSUME NEW s \in Requests, s # r PROVE Owed(s)' => Owed(s)
      <3>1. ex[x].r # s /\ ex'[x].r # s /\ req'[s] = req[s] /\ bull'[s] = bull[s]
        BY <1>3, <2>1, <2>2, <2>3, <2>4, WebhooksAssumption DEF Taking
      <3> QED
        BY <2>2, <3>1, OwedElsewhere
    <2>5. Owed(r)
      BY <1>3 DEF Taking, Owed
    <2>6. ~ Owed(r)'
      <3>1. CASE Async
        <4>1. bull'[r].state = "active" /\ req'[r].pc = "answered"
          BY <1>3, <3>1, Typed DEF Taking, RequestOK
        <4>2. ex'[x].r = r /\ ex'[x].pc \notin {"failEvent", "failJob", "rethrow"}
          BY <2>1, <2>2
        <4> QED
          BY <4>1, <4>2 DEF Owed
      <3>2. CASE ~ Async
        <4>1. bull'[r].state = "none" /\ req'[r].pc = "executing"
          BY <1>3, <3>2, Typed DEF Taking, RequestOK
        <4> QED
          BY <4>1 DEF Owed
      <3> QED
        BY <3>1, <3>2
    <2>7. \A s \in Requests : req'[s].event = req[s].event
      BY <1>3 DEF Taking
    <2>8. P = O /\ T \subseteq S \ {r}
      BY <2>4, <2>6, <2>7 DEF Unstarted, OfEvent
    <2>9. /\ faults' = faults /\ started \in [Requests -> Nat]
          /\ started' = [started EXCEPT ![req[r].event] = started[req[r].event] + 1]
      BY <1>3, Typed DEF Taking, TablesOK
    <2>10. CASE e = req[r].event
      <3>1. r \in S
        BY <2>5, <2>10 DEF Unstarted
      <3>2. Cardinality(T) + 1 <= Cardinality(S)
        BY <1>0, <2>8, <3>1, CardDrop
      <3>3. started'[e] = started[e] + 1
        BY <2>9, <2>10
      <3> HIDE DEF S, T, O, P
      <3> QED
        BY <1>0, <2>8, <2>9, <3>2, <3>3
    <2>11. CASE e # req[r].event
      BY <1>a, <2>8, <2>9, <2>11
    <2> QED
      BY <2>10, <2>11
  <1>4. ASSUME NEW x \in Executors, LeaveStep(x) PROVE Goal
    <2> PICK r : r = ex[x].r
      OBVIOUS
    <2>0. /\ ex'[x] = Idle /\ \A z \in Executors \ {x} : ex'[z] = ex[z]
          /\ started' = started /\ r \in Requests /\ r # None /\ ex[x].pc # "idle"
          /\ \A s \in Requests \ {r} : req'[s] = req[s] /\ bull'[s] = bull[s]
          /\ req'[r].event = req[r].event
      BY <1>4, Typed, AtWork, WebhooksAssumption DEF LeaveStep, Leaving, TablesOK
    <2>1. ASSUME NEW s \in Requests, s # r PROVE Owed(s)' => Owed(s)
      <3>1. ex[x].r # s /\ ex'[x].r # s
        BY <2>0, <2>1, WebhooksAssumption DEF Idle
      <3> QED
        BY <2>0, <2>1, <3>1, OwedElsewhere
    <2>2. P = O
      BY <2>0 DEF OfEvent
    <2>3. T \subseteq S \cup {r}
      BY <2>0, <2>1 DEF Unstarted
    <2>4. CASE faults' = faults + 1
      BY <1>b, <2>0, <2>2, <2>3, <2>4
    <2>5. CASE faults' = faults /\ req'[r].pc = "answered"
               /\ bull'[r].state \in {"none", "completed"}
      <3>1. ~ Owed(r)'
        BY <2>5 DEF Owed
      <3>2. T \subseteq S
        BY <2>0, <2>3, <3>1 DEF Unstarted
      <3> QED
        BY <1>a, <2>0, <2>2, <2>5, <3>2
    <2>6. CASE faults' = faults /\ ex[x].pc = "rethrow"
      <3>1. bull[r].state = "active"
        BY <2>6, AtWork DEF WorkOK, HoldOK
      <3>2. \A z \in Executors : ex[z].r = r => z = x
        BY <2>0, Typed DEF Exclusive
      <3>3. Owed(r)
        BY <2>6, <3>1, <3>2 DEF Owed
      <3>4. T \subseteq S
        BY <2>0, <2>1, <3>3 DEF Unstarted
      <3> QED
        BY <1>a, <2>0, <2>2, <2>6, <3>4
    <2> QED
      BY <1>4, <2>4, <2>5, <2>6 DEF LeaveStep
  <1>5. ASSUME NEW q \in Pipelines, Toggle(q) PROVE Goal
    <2>1. T \subseteq S /\ P = O
      BY <1>5 DEF Toggle, Unstarted, OfEvent, Owed
    <2> QED
      BY <1>5, <1>a, <2>1 DEF Toggle
  <1>6. ASSUME NEW x \in Executors, NEW y, Goes(x, y) PROVE Goal
    <2> PICK r : r = ex[x].r
      OBVIOUS
    <2>0. /\ ex'[x] = y /\ \A z \in Executors \ {x} : ex'[z] = ex[z]
          /\ started' = started /\ r \in Requests /\ r # None /\ ex[x].pc # "idle"
          /\ y.r = r /\ req' = req /\ bull' = bull /\ HoldOK(ex[x])
          /\ RequestOK(req[r], bull[r].state)
      BY <1>6, Typed, AtWork, WebhooksAssumption DEF Goes, Working, TablesOK
    <2>1. ASSUME NEW s \in Requests, s # r PROVE Owed(s)' => Owed(s)
      BY <2>0, <2>1, OwedElsewhere
    <2>2. P = O
      BY <2>0 DEF OfEvent
    <2>3. T \subseteq S \cup {r}
      BY <2>0, <2>1 DEF Unstarted
    <2>4. CASE faults' = faults + 1
      BY <1>b, <2>0, <2>2, <2>3, <2>4
    <2>5. CASE faults' = faults /\ y.pc \notin {"failEvent", "failJob", "rethrow"}
      <3>1. ~ Owed(r)'
        <4>1. CASE Async
          BY <2>0, <2>5, <4>1 DEF Owed, HoldOK, RequestOK
        <4>2. CASE ~ Async
          BY <2>0, <4>2 DEF Owed, HoldOK, RequestOK
        <4> QED
          BY <4>1, <4>2
      <3>2. T \subseteq S
        BY <2>0, <2>3, <3>1 DEF Unstarted
      <3> QED
        BY <1>a, <2>0, <2>2, <2>5, <3>2
    <2>6. CASE faults' = faults /\ ex[x].pc \in {"failEvent", "failJob"}
      <3>1. bull[r].state = "active"
        BY <2>6, AtWork DEF WorkOK, HoldOK
      <3>2. \A z \in Executors : ex[z].r = r => z = x
        BY <2>0, Typed DEF Exclusive
      <3>3. Owed(r)
        BY <2>6, <3>1, <3>2 DEF Owed
      <3>4. T \subseteq S
        BY <2>0, <2>1, <3>3 DEF Unstarted
      <3> QED
        BY <1>a, <2>0, <2>2, <2>6, <3>4
    <2> QED
      BY <1>6, <2>4, <2>5, <2>6 DEF Goes, WorkStep
  <1> QED
    BY <1>2, <1>3, <1>4, <1>5, <1>6, NextIs

(* Stuck events. *)

\* The execution that a request asked for has met a fault that no retry has made
\* good yet: its handler or its job has failed, or its job is active without an
\* executor that is on its way to settle the event.
Hurt(r) ==
  \/ req[r].pc = "failed" \/ bull[r].state = "failed"
  \/ /\ bull[r].state = "active"
     /\ \A x \in Executors : ex[x].r = r => ex[x].pc \in {"failEvent", "failJob", "rethrow"}

\* The execution has still to settle the event, and will unless something fails.
WillSettle(r) ==
  \/ req[r].pc \in {"reset", "job", "enqueue", "now"} \/ bull[r].state \in {"waiting", "delayed"}
  \/ \E x \in Executors : ex[x].r = r /\ ex[x].pc \in {"mark", "read", "loop", "run", "stored"}

\* There are as many faults as executions hurt, and somebody is to settle an event
\* that is RECEIVED, or was hurt on the way.
HurtRequests == {r \in Requests : Hurt(r)}
StuckInv ==
  /\ Cardinality(HurtRequests) <= faults
  /\ \A e \in Requests : event[e].status = "RECEIVED" =>
       \E r \in Requests : req[r].event = e /\ (Hurt(r) \/ WillSettle(r))

\* A request that no step touches is hurt, or settles its event, as before.
LEMMA SameRequest ==
  ASSUME NEW s \in Requests, req'[s] = req[s], bull'[s] = bull[s],
         \A x \in Executors : (ex[x].r = s \/ ex'[x].r = s) => ex'[x] = ex[x]
  PROVE  (Hurt(s)' <=> Hurt(s)) /\ (WillSettle(s)' <=> WillSettle(s))
  BY DEF Hurt, WillSettle

\* A step of the request r hurts it only by a fault, leaves it with its event
\* what it was to do, and makes an event RECEIVED only to settle it.
LEMMA RequestHurts ==
  ASSUME TypeInv, NEW r \in Requests, RequestAction(r)
  PROVE  /\ UNCHANGED ex
         /\ \A s \in Requests \ {r} : req'[s] = req[s] /\ bull'[s] = bull[s]
         /\ \/ faults' = faults /\ (Hurt(r)' => Hurt(r))
            \/ faults' = faults + 1
         /\ req[r].event # None /\ (Hurt(r) \/ WillSettle(r)) =>
              req'[r].event = req[r].event /\ (Hurt(r)' \/ WillSettle(r)')
         /\ \A e \in Requests : event'[e].status = "RECEIVED" =>
              \/ event[e].status = "RECEIVED"
              \/ req'[r].event = e /\ WillSettle(r)'
  <1>0. /\ TablesOK /\ req[r] \in ReqType /\ bull[r] \in BullType
        /\ RequestOK(req[r], bull[r].state)
    BY Typed
  <1>1. PICK q : Asking(r, q)
    BY RequestAsks
  <1>2. /\ req'[r] = q /\ ex' = ex /\ RequestOK(q, bull'[r].state)
        /\ \A s \in Requests \ {r} : req'[s] = req[s] /\ bull'[s] = bull[s]
        /\ \A x \in Executors : ex[x].r # r
    BY <1>0, <1>1 DEF Asking, TablesOK
  <1> HIDE DEF RequestAction
  <1>a. ASSUME req[r].pc = "new", req'[r].pc \in {"answered", "create", "reset"},
               UNCHANGED <<bull, faults, event>>
        PROVE  /\ req[r].event = None /\ ~ Hurt(r)' /\ faults' = faults /\ event' = event
    <2>1. req[r].event = None /\ bull'[r].state = "none"
      BY <1>0, <1>a DEF RequestOK
    <2> QED
      BY <1>a, <2>1 DEF Hurt
  <1>3. CASE \E e \in Requests : BeginAgain(r, e)
    <2>1. /\ req[r].pc = "new" /\ req'[r].pc = "reset" /\ UNCHANGED <<bull, faults, event>>
      BY <1>0, <1>3 DEF BeginAgain, TablesOK, ReqType
    <2> QED
      BY <1>2, <1>a, <2>1
  <1>9. ASSUME NEW k \in Keys \cup {NoKey}, Deliver(r, k)
        PROVE  /\ req[r].pc = "new" /\ req'[r].pc \in {"answered", "create", "reset"}
               /\ UNCHANGED <<bull, faults, event>>
    <2> DEFINE pc == IF HasEvent(k) THEN "answered" ELSE "create"
               p == [req[r] EXCEPT !.key = k, !.pc = pc]
    <2>1. pc \in {"answered", "create"}
      OBVIOUS
    <2>2. req' = [req EXCEPT ![r] = p]
      BY <1>9, <1>0 DEF Deliver, TablesOK
    <2> HIDE DEF pc
    <2>3. p.pc = pc
      BY <1>0 DEF ReqType
    <2> HIDE DEF p
    <2> QED
      BY <1>0, <1>9, <2>1, <2>2, <2>3 DEF Deliver, TablesOK
  <1>10. CASE \E k \in Keys \cup {NoKey} : Deliver(r, k)
    BY <1>2, <1>9, <1>10, <1>a
  <1>4. CASE CreateEvent(r)
    <2>1. /\ req[r].pc = "create" /\ UNCHANGED <<bull, faults>>
          /\ \/ req'[r].pc = "rejected" /\ UNCHANGED event
             \/ /\ req'[r].pc = AfterEvent /\ req'[r].event = r
                /\ \A e \in Requests \ {r} : event'[e] = event[e]
      BY <1>0, <1>4 DEF CreateEvent, TablesOK, ReqType
    <2>2. req[r].event = None /\ bull'[r].state = "none"
      BY <1>0, <2>1 DEF RequestOK
    <2>3. req'[r].pc = AfterEvent => WillSettle(r)' /\ ~ Hurt(r)'
      BY <2>2 DEF AfterEvent, WillSettle, Hurt
    <2>4. ~ Hurt(r)'
      BY <2>1, <2>2, <2>3 DEF Hurt
    <2> QED
      BY <1>2, <2>1, <2>2, <2>3, <2>4
  <1>5. CASE Reset(r)
    <2>1. /\ req[r].pc = "reset" /\ UNCHANGED <<bull, faults>> /\ req'[r].pc = AfterEvent
          /\ req'[r].event = req[r].event /\ req[r].event \in Requests
          /\ \A e \in Requests \ {req[r].event} : event'[e] = event[e]
      BY <1>0, <1>5 DEF Reset, TablesOK, ReqType, RequestOK
    <2>2. bull'[r].state = "none"
      BY <1>0, <2>1 DEF RequestOK
    <2>3. WillSettle(r)' /\ ~ Hurt(r)'
      BY <2>1, <2>2 DEF AfterEvent, WillSettle, Hurt
    <2> QED
      BY <1>2, <2>1, <2>3
  <1>6. CASE CreateJob(r) \/ Enqueue(r) \/ Backoff(r)
    <2>1. /\ req'[r].event = req[r].event /\ UNCHANGED <<faults, event>>
          /\ \/ req'[r].pc = "enqueue" /\ req[r].pc = "job" /\ bull' = bull
             \/ bull'[r].state = "waiting"
      BY <1>0, <1>6 DEF CreateJob, Enqueue, Backoff, TablesOK, ReqType, BullType
    <2>2. WillSettle(r)'
      BY <2>1 DEF WillSettle
    <2>3. ~ Hurt(r)'
      BY <1>0, <1>2, <2>1 DEF Hurt, RequestOK
    <2> QED
      BY <1>2, <2>1, <2>2, <2>3
  <1>7. CASE RequestFails(r)
    <2>1. /\ req'[r].event = req[r].event /\ req'[r].pc = "failed"
          /\ faults' = faults + 1 /\ UNCHANGED event
      BY <1>0, <1>7 DEF RequestFails, TablesOK, ReqType
    <2>2. Hurt(r)'
      BY <2>1 DEF Hurt
    <2> QED
      BY <1>2, <2>1, <2>2
  <1>8. CASE Stalled(r)
    <2>1. /\ req' = req /\ UNCHANGED <<faults, event>> /\ bull[r].state = "active"
          /\ bull'[r].state \in {"waiting", "failed"}
      BY <1>0, <1>8 DEF Stalled, TablesOK, BullType
    <2>2. Hurt(r) /\ (Hurt(r)' \/ WillSettle(r)')
      BY <1>2, <2>1 DEF Hurt, WillSettle
    <2> QED
      BY <1>2, <2>1, <2>2
  <1> QED
    BY <1>3, <1>4, <1>5, <1>6, <1>7, <1>8, <1>10 DEF RequestAction, RequestStep

Failing == {"failEvent", "failJob", "rethrow"}
Settling == {"mark", "read", "loop", "run", "stored"}

\* What is to become of a request in hand is told by the executor that holds it.
LEMMA HurtInHand ==
  ASSUME TypeInv, NEW x \in Executors, NEW r \in Requests, ex[x].pc # "idle", ex[x].r = r
  PROVE  (Hurt(r) <=> ex[x].pc \in Failing) /\ (WillSettle(r) <=> ex[x].pc \in Settling)
  <1>1. \A z \in Executors : ex[z].r = r => z = x
    BY Typed, WebhooksAssumption DEF Exclusive
  <1>2. HoldOK(ex[x]) /\ WorkOK(ex[x]) /\ RequestOK(req[r], bull[r].state)
    BY Typed
  <1>3. /\ Async => bull[r].state = "active" /\ req[r].pc = "answered"
        /\ ~ Async => bull[r].state = "none" /\ req[r].pc = "executing"
    BY <1>2 DEF HoldOK, RequestOK
  <1>4. ex[x].pc \in Failing => Async
    BY <1>2 DEF WorkOK, Failing
  <1> QED
    BY <1>1, <1>3, <1>4 DEF Hurt, WillSettle, Failing, Settling

LEMMA HurtInHandNext ==
  ASSUME TypeInv', NEW x \in Executors, NEW r \in Requests, ex'[x].pc # "idle", ex'[x].r = r
  PROVE  (Hurt(r)' <=> ex'[x].pc \in Failing) /\ (WillSettle(r)' <=> ex'[x].pc \in Settling)
  <1>1. \A z \in Executors : ex'[z].r = r => z = x
    BY WebhooksAssumption DEF TypeInv, Exclusive
  <1>2. HoldOK(ex[x])' /\ WorkOK(ex[x])' /\ RequestOK(req'[r], bull'[r].state)
    BY DEF TypeInv
  <1>3. /\ Async => bull'[r].state = "active" /\ req'[r].pc = "answered"
        /\ ~ Async => bull'[r].state = "none" /\ req'[r].pc = "executing"
    BY <1>2 DEF HoldOK, RequestOK
  <1>4. ex'[x].pc \in Failing => Async
    BY <1>2 DEF WorkOK, Failing
  <1> QED
    BY <1>1, <1>3, <1>4 DEF Hurt, WillSettle, Failing, Settling

\* A step that touches the request r alone keeps the invariant when it pays for
\* hurting it, and takes it from an event only with the event settled.
LEMMA StuckStep ==
  ASSUME TypeInv, TypeInv', StuckInv, NEW r \in Requests,
         \A s \in Requests \ {r} : req'[s] = req[s] /\ bull'[s] = bull[s],
         \A s \in Requests \ {r} : \A x \in Executors :
           (ex[x].r = s \/ ex'[x].r = s) => ex'[x] = ex[x],
         \/ faults' = faults /\ (Hurt(r)' => Hurt(r))
         \/ faults' = faults + 1,
         \A e \in Requests : event'[e].status = "RECEIVED" =>
           \/ req'[r].event = e /\ (Hurt(r)' \/ WillSettle(r)')
           \/ /\ event[e].status = "RECEIVED"
              /\ ~ (req[r].event = e /\ (Hurt(r) \/ WillSettle(r)))
  PROVE  StuckInv'
  <1>1. \A s \in Requests \ {r} : (Hurt(s)' <=> Hurt(s)) /\ (WillSettle(s)' <=> WillSettle(s))
    BY SameRequest
  <1>2. Cardinality(HurtRequests') <= faults'
    <2> DEFINE S == HurtRequests
               T == HurtRequests'
    <2> SUFFICES Cardinality(T) <= faults'
      OBVIOUS
    <2>0. IsFiniteSet(S) /\ Cardinality(S) \in Nat /\ faults \in Nat /\ Cardinality(S) <= faults
      <3>1. S \in SUBSET Requests /\ IsFiniteSet(Requests)
        BY WebhooksAssumption DEF HurtRequests
      <3> QED
        BY <3>1, CardSub, Typed DEF StuckInv, TablesOK
    <2>1. CASE faults' = faults /\ (Hurt(r)' => Hurt(r))
      <3>1. T \subseteq S
        BY <1>1, <2>1 DEF HurtRequests
      <3>2. Cardinality(T) <= Cardinality(S) /\ Cardinality(T) \in Nat
        BY <2>0, <3>1, CardSub
      <3> HIDE DEF S, T
      <3> QED
        BY <2>0, <2>1, <3>2
    <2>2. CASE faults' = faults + 1
      <3>1. T \subseteq S \cup {r}
        BY <1>1 DEF HurtRequests
      <3>2. Cardinality(T) <= Cardinality(S) + 1 /\ Cardinality(T) \in Nat
        BY <2>0, <3>1, CardAdd
      <3> HIDE DEF S, T
      <3> QED
        BY <2>0, <2>2, <3>2
    <2> QED
      BY <2>1, <2>2
  <1>3. ASSUME NEW e \in Requests, event'[e].status = "RECEIVED"
        PROVE  \E s \in Requests : req'[s].event = e /\ (Hurt(s)' \/ WillSettle(s)')
    <2>1. CASE req'[r].event = e /\ (Hurt(r)' \/ WillSettle(r)')
      BY <2>1
    <2>2. CASE /\ event[e].status = "RECEIVED"
               /\ ~ (req[r].event = e /\ (Hurt(r) \/ WillSettle(r)))
      <3>1. PICK s \in Requests : req[s].event = e /\ (Hurt(s) \/ WillSettle(s))
        BY <2>2 DEF StuckInv
      <3>2. s # r /\ req'[s] = req[s]
        BY <2>2, <3>1
      <3> QED
        BY <1>1, <3>1, <3>2
    <2> QED
      BY <1>3, <2>1, <2>2
  <1> QED
    BY <1>2, <1>3 DEF StuckInv

LEMMA StuckNext ==
  ASSUME TypeInv, StuckInv, [Next]_vars
  PROVE  StuckInv'
  <1>0. TypeInv'
    BY TypeNext
  <1>1. CASE UNCHANGED vars
    BY <1>1 DEF vars, StuckInv, HurtRequests, Hurt, WillSettle
  <1>2. ASSUME NEW r \in Requests, RequestAction(r) PROVE StuckInv'
    <2>0. /\ UNCHANGED ex
          /\ \A s \in Requests \ {r} : req'[s] = req[s] /\ bull'[s] = bull[s]
          /\ \/ faults' = faults /\ (Hurt(r)' => Hurt(r))
             \/ faults' = faults + 1
          /\ req[r].event # None /\ (Hurt(r) \/ WillSettle(r)) =>
               req'[r].event = req[r].event /\ (Hurt(r)' \/ WillSettle(r)')
          /\ \A e \in Requests : event'[e].status = "RECEIVED" =>
               \/ event[e].status = "RECEIVED"
               \/ req'[r].event = e /\ WillSettle(r)'
      BY <1>2, RequestHurts
    <2>1. \A e \in Requests : e # None
      BY WebhooksAssumption
    <2>2. \A e \in Requests : event'[e].status = "RECEIVED" =>
            \/ req'[r].event = e /\ (Hurt(r)' \/ WillSettle(r)')
            \/ /\ event[e].status = "RECEIVED"
               /\ ~ (req[r].event = e /\ (Hurt(r) \/ WillSettle(r)))
      BY <2>0, <2>1
    <2> QED
      BY <1>0, <2>0, <2>2, StuckStep
  <1>3. ASSUME NEW x \in Executors, NEW r \in Requests, Taking(x, r) PROVE StuckInv'
    <2>0. PICK pc \in {"mark", "read"} :
            ex' = [ex EXCEPT ![x] = [Idle EXCEPT !.pc = pc, !.r = r]]
      BY <1>3 DEF Taking
    <2> DEFINE y == [Idle EXCEPT !.pc = pc, !.r = r]
    <2>a. y.pc = pc /\ y.r = r
      BY DEF Idle
    <2> HIDE DEF y
    <2>1. ex' = [ex EXCEPT ![x] = y] /\ y.pc \in {"mark", "read"} /\ y.r = r
      BY <2>0, <2>a DEF y
    <2>2. /\ ex'[x] = y /\ \A z \in Executors \ {x} : ex'[z] = ex[z]
          /\ ex[x].r = None /\ event' = event /\ faults' = faults
          /\ req'[r].event = req[r].event
          /\ \A s \in Requests \ {r} : req'[s] = req[s] /\ bull'[s] = bull[s]
      BY <1>3, <2>1, Typed, AtWork DEF Taking, WorkOK, TablesOK
    <2>3. ~ Hurt(r)' /\ WillSettle(r)'
      BY <1>0, <2>1, <2>2, HurtInHandNext DEF Failing, Settling
    <2>4. \A s \in Requests \ {r} : \A z \in Executors :
            (ex[z].r = s \/ ex'[z].r = s) => ex'[z] = ex[z]
      BY <2>1, <2>2, WebhooksAssumption
    <2> QED
      BY <1>0, <2>2, <2>3, <2>4, StuckStep
  <1>4. ASSUME NEW x \in Executors, LeaveStep(x) PROVE StuckInv'
    <2> PICK r : r = ex[x].r
      OBVIOUS
    <2>0. /\ ex'[x] = Idle /\ \A z \in Executors \ {x} : ex'[z] = ex[z]
          /\ event' = event /\ r \in Requests /\ r # None /\ ex[x].pc # "idle"
          /\ \A s \in Requests \ {r} : req'[s] = req[s] /\ bull'[s] = bull[s]
          /\ req'[r].event = req[r].event
      BY <1>4, Typed, AtWork, WebhooksAssumption DEF LeaveStep, Leaving, TablesOK
    <2>1. \A s \in Requests \ {r} : \A z \in Executors :
            (ex[z].r = s \/ ex'[z].r = s) => ex'[z] = ex[z]
      BY <2>0, WebhooksAssumption DEF Idle
    <2>2. \A z \in Executors : ex'[z].r # r
      BY <2>0, Typed DEF Exclusive, Idle
    <2>3. (Hurt(r) <=> ex[x].pc \in Failing) /\ (WillSettle(r) <=> ex[x].pc \in Settling)
      BY <2>0, HurtInHand
    <2>4. CASE /\ ex[x].pc = "return" /\ faults' = faults
               /\ req'[r].pc = "answered" /\ bull'[r].state \in {"none", "completed"}
      <3>1. ~ Hurt(r)' /\ ~ Hurt(r) /\ ~ WillSettle(r)
        BY <2>3, <2>4 DEF Hurt, Failing, Settling
      <3> QED
        BY <1>0, <2>0, <2>1, <2>4, <3>1, StuckStep
    <2>5. CASE /\ ex[x].pc = "rethrow" /\ faults' = faults
               /\ bull'[r].state \in {"delayed", "failed"}
      <3>1. Hurt(r) /\ (Hurt(r)' \/ WillSettle(r)')
        BY <2>3, <2>5 DEF Hurt, WillSettle, Failing
      <3> QED
        BY <1>0, <2>0, <2>1, <2>5, <3>1, StuckStep
    <2>6. CASE faults' = faults + 1 /\ (req'[r].pc = "failed" \/ bull'[r].state = "active")
      <3>1. Hurt(r)'
        BY <2>2, <2>6 DEF Hurt
      <3> QED
        BY <1>0, <2>0, <2>1, <2>6, <3>1, StuckStep
    <2> QED
      BY <1>4, <2>4, <2>5, <2>6 DEF LeaveStep
  <1>5. ASSUME NEW q \in Pipelines, Toggle(q) PROVE StuckInv'
    BY <1>5 DEF Toggle, StuckInv, HurtRequests, Hurt, WillSettle
  <1>6. ASSUME NEW x \in Executors, NEW y, Goes(x, y) PROVE StuckInv'
    <2> PICK r : r = ex[x].r
      OBVIOUS
    <2>0. /\ ex'[x] = y /\ \A z \in Executors \ {x} : ex'[z] = ex[z]
          /\ r \in Requests /\ r # None /\ ex[x].pc # "idle"
          /\ y.r = r /\ y.pc # "idle" /\ req' = req /\ bull' = bull
          /\ EventOf(x) = req[r].event /\ EventOf(x) \in Requests
      BY <1>6, Typed, AtWork, WebhooksAssumption DEF Goes, Working, TablesOK, EventOf
    <2>1. \A s \in Requests \ {r} : \A z \in Executors :
            (ex[z].r = s \/ ex'[z].r = s) => ex'[z] = ex[z]
      BY <2>0
    <2>2. (Hurt(r) <=> ex[x].pc \in Failing) /\ (WillSettle(r) <=> ex[x].pc \in Settling)
      BY <2>0, HurtInHand
    <2>3. (Hurt(r)' <=> y.pc \in Failing) /\ (WillSettle(r)' <=> y.pc \in Settling)
      BY <1>0, <2>0, HurtInHandNext
    <2>4. CASE y.pc \in Settling /\ faults' = faults /\ event' = event
      <3>1. ~ Hurt(r)' /\ WillSettle(r)'
        BY <2>3, <2>4 DEF Failing, Settling
      <3> QED
        BY <1>0, <2>0, <2>1, <2>4, <3>1, StuckStep
    <2>5. ASSUME NEW v \in EventType, v.status # "RECEIVED", Hurt(r)' => Hurt(r),
                 event' = [event EXCEPT ![EventOf(x)] = v], faults' = faults
          PROVE  StuckInv'
      <3>1. /\ event'[EventOf(x)].status # "RECEIVED"
            /\ \A e \in Requests \ {EventOf(x)} : event'[e] = event[e]
        BY <2>0, <2>5, Typed DEF TablesOK
      <3> QED
        BY <1>0, <2>0, <2>1, <2>5, <3>1, StuckStep
    <2>6. CASE /\ ex[x].pc = "loop" /\ y.pc \in {"complete", "return"} /\ faults' = faults
               /\ event' = [event EXCEPT ![EventOf(x)] =
                              [event[EventOf(x)] EXCEPT !.status = Verdict(x), !.seen = ex[x].seen]]
      <3> DEFINE v == [event[EventOf(x)] EXCEPT !.status = Verdict(x), !.seen = ex[x].seen]
      <3>1. v \in EventType /\ v.status # "RECEIVED"
        <4>1. event[EventOf(x)] \in EventType /\ ex[x].seen \in SUBSET Pipelines
          BY <2>0, AtWork DEF ExType
        <4>2. Verdict(x) \in EventStatus /\ Verdict(x) # "RECEIVED"
          BY <2>0, VerdictType
        <4> QED
          BY <4>1, <4>2 DEF EventType
      <3>2. ~ Hurt(r)'
        BY <2>3, <2>6 DEF Failing
      <3> HIDE DEF v
      <3> QED
        BY <2>5, <2>6, <3>1, <3>2 DEF v
    <2>7. CASE /\ ex[x].pc = "failEvent" /\ y.pc = "failJob" /\ faults' = faults
               /\ event' = [event EXCEPT ![EventOf(x)] =
                              [event[EventOf(x)] EXCEPT !.status = "FAILED"]]
      <3> DEFINE v == [event[EventOf(x)] EXCEPT !.status = "FAILED"]
      <3>1. v \in EventType /\ v.status # "RECEIVED"
        BY <2>0, AtWork DEF EventType, EventStatus
      <3>2. Hurt(r)
        BY <2>2, <2>7 DEF Failing
      <3> HIDE DEF v
      <3> QED
        BY <2>5, <2>7, <3>1, <3>2 DEF v
    <2>8. CASE ex[x].pc = "complete" /\ y.pc = "return" /\ faults' = faults /\ event' = event
      <3>1. ~ Hurt(r)' /\ ~ Hurt(r) /\ ~ WillSettle(r)
        BY <2>2, <2>3, <2>8 DEF Failing, Settling
      <3> QED
        BY <1>0, <2>0, <2>1, <2>8, <3>1, StuckStep
    <2>9. CASE /\ y.pc \in Failing /\ event' = event
               /\ \/ ex[x].pc \in Failing /\ faults' = faults
                  \/ faults' = faults + 1
      <3>1. Hurt(r)' /\ (ex[x].pc \in Failing => Hurt(r))
        BY <2>2, <2>3, <2>9
      <3> QED
        BY <1>0, <2>0, <2>1, <2>2, <2>9, <3>1, StuckStep
    <2> QED
      <3>1. WorkStep(x, y)
        BY <1>6 DEF Goes
      <3> QED
        BY <2>4, <2>6, <2>7, <2>8, <2>9, <3>1 DEF WorkStep, Failing, Settling
  <1> QED
    BY <1>1, <1>2, <1>3, <1>4, <1>5, <1>6, NextIs

(* The theorems. *)

IInv == TypeInv /\ RunsInv /\ ProcessedInv /\ RecordsInv /\ StartedInv /\ StuckInv

LEMMA InitIInv == Init => IInv
  <1> SUFFICES ASSUME Init PROVE IInv
    OBVIOUS
  <1>1. TypeInv
    BY TypeInit
  <1>2. \A x \in Executors : ex[x].pc = "idle"
    BY DEF Init, Idle
  <1>3. RunsInv
    <2>1. \A p : Holders(p) = {}
      BY <1>2 DEF Holders
    <2> QED
      BY <2>1, FS_EmptySet DEF RunsInv, Init
  <1>4. ProcessedInv
    BY <1>2 DEF ProcessedInv, ProcessedIsComplete, Behind, Init, NoEvent
  <1>5. RecordsInv
    <2>1. \A e, p : Pending(e, p) = {}
      BY <1>2 DEF Pending
    <2> QED
      BY <2>1, FS_EmptySet DEF RecordsInv, Init
  <1>6. StartedInv
    <2>1. \A e : Unstarted(e) = {}
      BY DEF Unstarted, Owed, Init, NewRequest, NoJob
    <2>2. ASSUME NEW e \in Requests
          PROVE  started[e] + Cardinality(Unstarted(e)) <= Cardinality(OfEvent(e)) + faults
      <3>1. Cardinality(OfEvent(e)) \in Nat
        BY UnstartedFinite
      <3>2. Cardinality(Unstarted(e)) = 0
        BY <2>1, FS_EmptySet
      <3>3. started[e] = 0 /\ faults = 0
        BY DEF Init
      <3> QED
        BY <3>1, <3>2, <3>3
    <2> QED
      BY <2>2 DEF StartedInv
  <1>7. StuckInv
    <2>1. HurtRequests = {}
      BY DEF HurtRequests, Hurt, Init, NewRequest, NoJob
    <2> QED
      BY <2>1, FS_EmptySet DEF StuckInv, Init, NoEvent
  <1> QED
    BY <1>1, <1>3, <1>4, <1>5, <1>6, <1>7 DEF IInv

LEMMA Invariant == Spec => []IInv
  <1>1. IInv /\ [Next]_vars => IInv'
    BY TypeNext, RunsNext, ProcessedNext, RecordsNext, StartedNext, StuckNext DEF IInv
  <1> QED
    BY InitIInv, <1>1, PTL DEF Spec

\* Types, in queue and in sync mode: the counts of RUNNING runs are never negative,
\* and an executor at work holds a request with an event.
THEOREM TypeCorrect == Spec => []TypeOK
  <1>1. IInv => TypeOK
    <2> SUFFICES ASSUME IInv PROVE TypeOK
      OBVIOUS
    <2>1. TypeInv /\ RunsInv
      BY DEF IInv
    <2>2. running \in [Pipelines -> Nat]
      <3>1. \A p \in Pipelines : running[p] \in Nat
        <4> SUFFICES ASSUME NEW p \in Pipelines PROVE running[p] \in Nat
          OBVIOUS
        <4>1. running[p] \in Int /\ Cardinality(Holders(p)) \in Nat
              /\ Cardinality(Holders(p)) <= running[p]
          BY <2>1, Typed, HoldersFinite DEF TablesOK, RunsInv
        <4> QED
          BY <4>1
      <3> QED
        BY <2>1, <3>1, Typed DEF TablesOK
    <2>3. /\ \A x \in Executors : ex[x].pc # "idle" => ex[x].r \in Requests /\ EventOf(x) \in Requests
          /\ \A x \in Executors : ex[x].pc \in {"run", "stored"} => ex[x].p \in Pipelines
      BY <2>1, AtWork DEF WorkOK
    <2>4. \A r \in Requests : req[r].pc \in {"reset", "job", "enqueue", "now", "executing"}
                              \/ bull[r].state # "none" => req[r].event \in Requests
      BY <2>1, Typed DEF RequestOK
    <2> QED
      BY <2>1, <2>2, <2>3, <2>4, Typed
         DEF TypeOK, TablesOK, ReqType, EventType, BullType, ExType
  <1> QED
    BY <1>1, Invariant, PTL

\* A SyncRun row stays RUNNING without an executor at most once for each fault.
THEOREM OrphansBounded == Spec => []OrphansCostFaults
  <1>1. IInv => OrphansCostFaults
    BY DEF IInv, RunsInv, OrphansCostFaults, Holders
  <1> QED
    BY <1>1, Invariant, PTL

\* An event is PROCESSED only when each pipeline its execution met has its record,
\* or rejects the payload.
THEOREM ProcessedComplete == Spec => []ProcessedIsComplete
  <1>1. IInv => ProcessedIsComplete
    BY DEF IInv, ProcessedInv
  <1> QED
    BY <1>1, Invariant, PTL

\* An event has at most one record a pipeline for each request that had it
\* processed, and one for each fault.
THEOREM RecordsBounded == Spec => []RecordsCostRequests
  <1>1. IInv => RecordsCostRequests
    <2> SUFFICES ASSUME IInv, NEW e \in Requests, NEW p \in Pipelines
                 PROVE  records[e][p] <= Cardinality(OfEvent(e)) + faults
      BY DEF RecordsCostRequests, OfEvent
    <2>1. /\ records[e][p] \in Nat /\ started[e] \in Nat /\ faults \in Nat
          /\ Cardinality(Pending(e, p)) \in Nat /\ Cardinality(Unstarted(e)) \in Nat
          /\ Cardinality(OfEvent(e)) \in Nat
      BY Typed, PendingFinite, UnstartedFinite DEF IInv, TablesOK
    <2>2. /\ records[e][p] + Cardinality(Pending(e, p)) <= started[e]
          /\ started[e] + Cardinality(Unstarted(e)) <= Cardinality(OfEvent(e)) + faults
      BY DEF IInv, RecordsInv, StartedInv
    <2> QED
      BY <2>1, <2>2
  <1> QED
    BY <1>1, Invariant, PTL

\* An event that stays RECEIVED although nobody is at work on it has cost a fault,
\* and no fault costs two events: requests that came too late or were dropped as
\* duplicates leave none behind.
THEOREM StuckEventsBounded == Spec => []StuckEventsCostFaults
  <1>1. IInv => StuckEventsCostFaults
    <2> SUFFICES ASSUME IInv PROVE StuckEventsCostFaults
      OBVIOUS
    <2> DEFINE Stuck == {e \in Requests : /\ event[e].status = "RECEIVED"
                                          /\ \A r \in Requests : req[r].event = e => ~ UnderWay(r)}
               Events == {req[r].event : r \in HurtRequests}
    <2>0. TypeInv /\ StuckInv
      BY DEF IInv
    <2>1. ASSUME NEW r \in Requests, WillSettle(r) PROVE UnderWay(r)
      <3>1. CASE \E x \in Executors : ex[x].r = r /\ ex[x].pc \in Settling
        <4>1. PICK x \in Executors : ex[x].r = r /\ ex[x].pc \in Settling
          BY <3>1
        <4>2. ex[x].pc # "idle" /\ HoldOK(ex[x])
          BY <2>0, <4>1, Typed DEF Settling
        <4> QED
          BY <4>1, <4>2 DEF HoldOK, UnderWay
      <3> QED
        BY <2>1, <3>1 DEF WillSettle, UnderWay, Settling
    <2>2. Stuck \subseteq Events
      BY <2>0, <2>1 DEF StuckInv, HurtRequests
    <2>3. IsFiniteSet(HurtRequests) /\ Cardinality(HurtRequests) \in Nat
      <3>1. HurtRequests \in SUBSET Requests /\ IsFiniteSet(Requests)
        BY WebhooksAssumption DEF HurtRequests
      <3> QED
        BY <3>1, CardSub
    <2>4. IsFiniteSet(Events) /\ Cardinality(Events) <= Cardinality(HurtRequests)
      <3> DEFINE f == [r \in HurtRequests |-> req[r].event]
      <3>1. f \in Surjection(HurtRequests, Events)
        BY DEF Surjection
      <3> HIDE DEF f, Events
      <3> QED
        BY <2>3, <3>1, FS_Surjection
    <2>5. Cardinality(Stuck) <= Cardinality(Events) /\ Cardinality(Stuck) \in Nat
          /\ Cardinality(Events) \in Nat
      BY <2>2, <2>4, CardSub
    <2>6. Cardinality(HurtRequests) <= faults /\ faults \in Nat
      BY <2>0, Typed DEF StuckInv, TablesOK
    <2>7. Cardinality(Stuck) <= faults
      <3> HIDE DEF Stuck, Events
      <3> QED
        BY <2>3, <2>4, <2>5, <2>6
    <2> QED
      BY <2>7 DEF StuckEventsCostFaults
  <1> QED
    BY <1>1, Invariant, PTL
================================================================================
