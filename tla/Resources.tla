------------------------------- MODULE Resources -------------------------------
(***************************************************************************)
(* Connectors, pipelines and the audit trail of their status               *)
(* (apps/api/src: connectors/connectors.service.ts,                        *)
(* pipelines/pipelines.service.ts, audit/audit.service.ts).                *)
(*                                                                         *)
(* A request is a handler; its database calls are its steps, nothing is    *)
(* done in a transaction.  Of a row its owner, status and, for a pipeline, *)
(* its source connector are kept; of the trail, whether a change has one.  *)
(***************************************************************************)
EXTENDS Naturals, Sequences, FiniteSets

CONSTANTS
  Users, Privileged,      \* the users; those with role OPERATOR or ADMIN
  Connectors, Pipelines,  \* the ids of the rows that may be created
  Statuses, Active,       \* the statuses, and the one of a new row
  Requests,               \* the handlers that may be running
  None,                   \* no owner, no status, no connector
  MaxWrites,              \* bound on the requests
  MaxFaults               \* bound on the calls that reject

VARIABLES
  rows,      \* [Rows -> [owner, status, source]]
  req,       \* [Requests -> the handler]
  chosenBy,  \* history, [Pipelines -> who set the source]
  silent,    \* history, [Rows -> the changes of its status without an entry]
  overlaps,  \* history: how often a request began while another was running
  begun, faults

vars == <<rows, req, chosenBy, silent, overlaps, begun, faults>>

Rows == Connectors \cup Pipelines
NoRow == [owner |-> None, status |-> None, source |-> None]
Exists(x) == rows[x] # NoRow
Idle == [pc |-> "idle", op |-> "update", user |-> None, row |-> None, status |-> None,
         source |-> None, previous |-> None, changed |-> FALSE]

Init ==
  /\ rows = [x \in Rows |-> NoRow]
  /\ req = [r \in Requests |-> Idle]
  /\ chosenBy = [p \in Pipelines |-> None]
  /\ silent = [x \in Rows |-> 0]
  /\ overlaps = 0 /\ begun = 0 /\ faults = 0

At(r, pc) == req[r].pc = pc
Go(r, pc) == req' = [req EXCEPT ![r].pc = pc]
End(r) == req' = [req EXCEPT ![r] = Idle]
IsPrivileged(u) == u \in Privileged
CanAccess(u, x) == IsPrivileged(u) \/ rows[x].owner = u

Quiet == \A r \in Requests : At(r, "idle")

\* The id of a row is new when it is inserted.
Begin(r) ==
  /\ At(r, "idle") /\ begun < MaxWrites
  /\ begun' = begun + 1
  /\ overlaps' = IF Quiet THEN overlaps ELSE overlaps + 1
  /\ \E u \in Users, x \in Rows, op \in {"create", "update", "updateStatus"} :
     \E status \in Statuses \cup {None}, source \in Connectors \cup {None} :
       /\ op = "create" => status = Active /\ ~Exists(x) /\ \A q \in Requests : req[q].row # x
       /\ op # "create" => Exists(x)
       /\ op = "updateStatus" => status # None /\ source = None
       /\ x \in Connectors => source = None
       /\ x \in Pipelines /\ op = "create" => source # None
       /\ req' = [req EXCEPT ![r] =
            [pc |-> IF op # "create" THEN "read" ELSE IF x \in Pipelines THEN "readSource" ELSE "write",
             op |-> op, user |-> u, row |-> x, status |-> status, source |-> source,
             previous |-> None, changed |-> FALSE]]
  /\ UNCHANGED <<rows, chosenBy, silent, faults>>

Read(r) ==
  /\ At(r, "read")
  /\ \/ /\ ~CanAccess(req[r].user, req[r].row)
        /\ End(r)
     \/ /\ CanAccess(req[r].user, req[r].row)
        /\ req' = [req EXCEPT ![r].pc = IF req[r].source = None THEN "write" ELSE "readSource",
                              ![r].previous = rows[req[r].row].status]
  /\ UNCHANGED <<rows, chosenBy, silent, overlaps, begun, faults>>

\* The owner of the connector is not looked at, for a mutant.
ReadAnySource(r) ==
  /\ At(r, "readSource")
  /\ IF Exists(req[r].source) THEN Go(r, "write") ELSE End(r)
  /\ UNCHANGED <<rows, chosenBy, silent, overlaps, begun, faults>>

\* "You can only use your own connector": a connector that does not exist, or is
\* another's, ends the request.
ReadSource(r) ==
  /\ At(r, "readSource")
  /\ IF Exists(req[r].source) /\ CanAccess(req[r].user, req[r].source) THEN Go(r, "write") ELSE End(r)
  /\ UNCHANGED <<rows, chosenBy, silent, overlaps, begun, faults>>

Written(r) ==
  LET x == req[r].row IN
  [owner |-> IF req[r].op = "create" THEN req[r].user ELSE rows[x].owner,
   status |-> IF req[r].status = None THEN rows[x].status ELSE req[r].status,
   source |-> IF req[r].source = None THEN rows[x].source ELSE req[r].source]
\* Only updateStatus() and create() log, for a mutant.
IsAuditedUnlessUpdated(r) == req[r].op # "update"
\* update() logs a status only when it differs from the one it has read.
IsAudited(r) ==
  req[r].op # "update" \/ (req[r].status # None /\ req[r].status # req[r].previous)

\* silent counts a change whose handler ends without an audit entry.
Write(r) ==
  LET x == req[r].row
      changed == Written(r).status # rows[x].status
  IN
  /\ At(r, "write")
  /\ rows' = [rows EXCEPT ![x] = Written(r)]
  /\ chosenBy' = IF req[r].source = None THEN chosenBy ELSE [chosenBy EXCEPT ![x] = req[r].user]
  /\ \/ /\ IsAudited(r)
        /\ req' = [req EXCEPT ![r].pc = "audit", ![r].changed = changed]
        /\ UNCHANGED silent
     \/ /\ ~IsAudited(r)
        /\ End(r)
        /\ silent' = [silent EXCEPT ![x] = IF changed THEN @ + 1 ELSE @]
  /\ UNCHANGED <<overlaps, begun, faults>>

\* The entry is written; what it says is not kept.
Audit(r) ==
  /\ At(r, "audit")
  /\ End(r)
  /\ UNCHANGED <<rows, chosenBy, silent, overlaps, begun, faults>>

\* The call of the step rejects; what was written stays written.
Fails(r) ==
  /\ ~At(r, "idle") /\ faults < MaxFaults
  /\ faults' = faults + 1
  /\ silent' = IF req[r].changed THEN [silent EXCEPT ![req[r].row] = @ + 1] ELSE silent
  /\ End(r)
  /\ UNCHANGED <<rows, chosenBy, overlaps, begun>>

Next == \E r \in Requests :
  Begin(r) \/ Read(r) \/ ReadSource(r) \/ Write(r) \/ Audit(r) \/ Fails(r)

Spec == Init /\ [][Next]_vars
-------------------------------------------------------------------------------
\* A pipeline reads from a connector that exists and that belongs to the
\* pipeline's owner, unless a privileged user chose it.
SourceIsUsable ==
  \A p \in Pipelines : Exists(p) =>
    /\ rows[p].source \in Connectors /\ Exists(rows[p].source)
    /\ IsPrivileged(chosenBy[p]) \/ rows[rows[p].source].owner = chosenBy[p]
    /\ IsPrivileged(chosenBy[p]) \/ rows[p].owner = chosenBy[p]

\* update() compares the status it is given with one it has read calls before
\* the write, so a change may leave no audit entry, but each such change costs
\* an overlap of two requests, or a call that rejects.
SilentChangesCostOverlaps == \A x \in Rows : silent[x] <= overlaps + faults
================================================================================
