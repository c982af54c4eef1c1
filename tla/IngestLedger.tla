----------------------------- MODULE IngestLedger -----------------------------
(***************************************************************************)
(* What sync runs promise to the readers of the database, without workers, *)
(* queues, jobs, retries or faults: the status of each run, which of its   *)
(* records are stored, and the cursor of each pipeline.                    *)
(*                                                                         *)
(* A run may start over at any time, and a run that ended may fail after   *)
(* the fact; but records are only added, only by a run that is RUNNING,    *)
(* SUCCESS is only given to a run whose records are all accounted for, and *)
(* a cursor only takes the value of a record its run has stored.           *)
(***************************************************************************)
EXTENDS CursorOps, Sequences

CONSTANTS
  Runs,
  Pipelines,
  Incremental,  \* the incremental pipelines
  Requests      \* records [pipeline, records, ignoreCursor]

VARIABLES
  request,  \* request[r]: what run r was asked to ingest
  status,   \* status[r]: "none" before the run exists
  stored,   \* stored[r]: the positions of r's records that are in the database
  cursor    \* cursor[p]: the cursor of pipeline p

vars == <<request, status, stored, cursor>>

Positions(r) == DOMAIN request[r].records
Candidate(r, i) == request[r].records[i].candidate
Filters(r) == request[r].pipeline \in Incremental /\ ~request[r].ignoreCursor

\* A record is accounted for when it is stored, or when its run filters and a
\* record of the same pipeline that is at least as new is stored.
Accounted(r, i) ==
  \/ i \in stored[r]
  \/ /\ Filters(r)
     /\ \E s \in Runs : \E j \in stored[s] :
          /\ request[s].pipeline = request[r].pipeline
          /\ ~ShouldProcessRecord(Candidate(r, i), Candidate(s, j))

Init ==
  /\ request \in [Runs -> Requests]
  /\ status = [r \in Runs |-> "none"]
  /\ stored = [r \in Runs |-> {}]
  /\ cursor = [p \in Pipelines |-> NoCursor]

Accept(r) ==
  /\ status[r] = "none"
  /\ status' = [status EXCEPT ![r] = "QUEUED"]
  /\ UNCHANGED <<request, stored, cursor>>

\* From any status: a queued run starts, a direct request starts at once, and
\* a redelivered run starts over whatever came of it before.
Start(r) ==
  /\ status' = [status EXCEPT ![r] = "RUNNING"]
  /\ UNCHANGED <<request, stored, cursor>>

Store(r, i) ==
  /\ status[r] = "RUNNING"
  /\ stored' = [stored EXCEPT ![r] = stored[r] \cup {i}]
  /\ UNCHANGED <<request, status, cursor>>

Advance(r) ==
  /\ status[r] = "RUNNING" /\ request[r].pipeline \in Incremental
  /\ \E i \in stored[r] :
       cursor' = [cursor EXCEPT ![request[r].pipeline] = Candidate(r, i)]
  /\ UNCHANGED <<request, status, stored>>

Succeed(r) ==
  /\ status[r] = "RUNNING"
  /\ \A i \in Positions(r) : Accounted(r, i)
  /\ status' = [status EXCEPT ![r] = "SUCCESS"]
  /\ UNCHANGED <<request, stored, cursor>>

Fail(r) ==
  /\ status[r] \in {"RUNNING", "SUCCESS"}
  /\ status' = [status EXCEPT ![r] = "FAILED"]
  /\ UNCHANGED <<request, stored, cursor>>

Next ==
  \E r \in Runs :
    \/ Accept(r) \/ Start(r) \/ Advance(r) \/ Succeed(r) \/ Fail(r)
    \/ \E i \in Positions(r) : Store(r, i)

Spec == Init /\ [][Next]_vars
=============================================================================
