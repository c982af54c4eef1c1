-------------------------------- MODULE Listing --------------------------------
(***************************************************************************)
(* Lists, detail pages and the dashboard, read while rows are being        *)
(* written (apps/api/src: sync-runs/sync-runs.service.ts listAll and       *)
(* findById, webhooks/webhooks.service.ts listEvents, jobs/                *)
(* job-status.service.ts, dashboard/dashboard.service.ts).                 *)
(*                                                                         *)
(* The items are runs, which belong to a pipeline, or webhook events,      *)
(* which belong to a connector; either is a container with an owner that   *)
(* never changes.  No item is ever deleted.  An item is its index in the   *)
(* order of createdAt (receivedAt), and the lists are sorted by it, newest *)
(* first.  A reader asks for page after page until it has read the total;  *)
(* every query is a step, and the queries of one Promise.all come in any   *)
(* order.                                                                  *)
(***************************************************************************)
EXTENDS Naturals, Sequences, FiniteSets

CONSTANTS
  Users, Privileged,  \* the users; those with role OPERATOR or ADMIN
  Containers,         \* the pipelines or connectors that may be created
  OwnerOf,            \* [Containers -> Users]
  Statuses, Failed,   \* the statuses of items, and the one the dashboard counts
  Limit,              \* the limit of the query
  Latest,             \* how many items the dashboard shows
  None,               \* no status filter
  MaxItems,           \* bound on the items
  MaxChanges          \* bound on the changes of a status

VARIABLES
  exists,   \* the containers created so far
  items,    \* Seq([container, status])
  reader,   \* what the reader has asked for and got
  before,   \* history: what the user could see when the reader began
  left,     \* history: how often an item left the filter since then
  late,     \* history: the items that came between the total and its page
  changed   \* how often a status changed

vars == <<exists, items, reader, before, left, late, changed>>

IsPrivileged(u) == u \in Privileged
Indexes == 1..Len(items)

\* findById, getAccessibleEvent and, for its job, assertCanAccessJob.
CanSee(u, i) == IsPrivileged(u) \/ OwnerOf[items[i].container] = u

Idle == [pc |-> "idle", view |-> "runs", user |-> CHOOSE u \in Users : TRUE, filter |-> None, owned |-> {},
         page |-> 1, seen |-> {}, todo |-> {}, total |-> 0, failed |-> 0]

Init ==
  /\ exists = {} /\ items = <<>>
  /\ reader = Idle /\ before = {} /\ left = 0 /\ late = 0 /\ changed = 0

(* The writers. *)

CreateContainer ==
  /\ \E c \in Containers \ exists : exists' = exists \cup {c}
  /\ UNCHANGED <<items, reader, before, left, late, changed>>

\* History only: the total of the page is known and its items are not.
LateAfter(status) ==
  IF /\ reader.pc = "query" /\ "items" \in reader.todo /\ "total" \notin reader.todo
     /\ reader.filter \in {None, status}
  THEN late + 1 ELSE late

CreateItem ==
  /\ Len(items) < MaxItems
  /\ \E c \in exists, s \in Statuses :
       /\ items' = Append(items, [container |-> c, status |-> s])
       /\ late' = LateAfter(s)
  /\ UNCHANGED <<exists, reader, before, left, changed>>

ChangeStatus ==
  /\ changed < MaxChanges
  /\ \E i \in Indexes, s \in Statuses :
       /\ items[i].status # s
       /\ items' = [items EXCEPT ![i].status = s]
       /\ left' = IF items[i].status = reader.filter THEN left + 1 ELSE left
       /\ late' = IF reader.filter = None THEN late ELSE LateAfter(s)
  /\ changed' = changed + 1
  /\ UNCHANGED <<exists, reader, before>>

(* The readers. *)

\* Runs and the dashboard of a user are scoped by the ids of the pipelines read
\* before; events by the owner of their connector.
ReadsOwned(view, u) == view # "events" /\ ~IsPrivileged(u)

Request(view, u) == IF ReadsOwned(view, u) THEN "owned" ELSE "query"
Queries(view) == IF view = "dashboard" THEN {"total", "failed", "items"} ELSE {"total", "items"}

Begin ==
  /\ reader.pc = "idle"
  /\ \E view \in {"runs", "events", "dashboard"}, u \in Users, f \in Statuses \cup {None} :
       /\ view # "dashboard" \/ f = None
       /\ reader' = [Idle EXCEPT !.pc = Request(view, u), !.view = view, !.user = u, !.filter = f,
                                 !.todo = Queries(view)]
       /\ before' = {i \in Indexes : CanSee(u, i) /\ f \in {None, items[i].status}}
  /\ left' = 0 /\ late' = 0
  /\ UNCHANGED <<exists, items, changed>>

\* A user without pipelines gets an empty page of runs.
ReadOwned ==
  LET owned == {c \in exists : OwnerOf[c] = reader.user} IN
  /\ reader.pc = "owned"
  /\ reader' = [reader EXCEPT !.owned = owned, !.pc = IF owned = {} /\ reader.view # "dashboard" THEN "done" ELSE "query"]
  /\ UNCHANGED <<exists, items, before, left, late, changed>>

InScope(i) ==
  IF ReadsOwned(reader.view, reader.user) THEN items[i].container \in reader.owned
  ELSE CanSee(reader.user, i)
Where == {i \in Indexes : InScope(i) /\ reader.filter \in {None, items[i].status}}

\* The place of an item in the list of a set, newest first.
Place(set, i) == Cardinality({j \in set : j >= i})

\* The last one is left out, for a mutant.
CutShort(set, first, last) == {i \in set : Place(set, i) \in first..last - 1}
Cut(set, first, last) == {i \in set : Place(set, i) \in first..last}

\* One item is skipped between two pages, for a mutant.
PageSkipping(set, page) == Cut(set, (page - 1) * (Limit + 1) + 1, page * (Limit + 1) - 1)
Page(set, page) == Cut(set, (page - 1) * Limit + 1, page * Limit)

\* The counts of a privileged user's dashboard are awaited before its items.
ReadItems ==
  /\ reader.pc = "query" /\ "items" \in reader.todo
  /\ ReadsOwned(reader.view, reader.user) \/ reader.view # "dashboard" \/ reader.todo = {"items"}
  /\ reader' = [reader EXCEPT !.todo = @ \ {"items"}, !.seen = @ \cup
       IF reader.view = "dashboard" THEN Cut(Where, 1, Latest)
       ELSE Page(Where, reader.page)]
  /\ UNCHANGED <<exists, items, before, left, late, changed>>

ReadTotal ==
  /\ reader.pc = "query" /\ "total" \in reader.todo
  /\ reader' = [reader EXCEPT !.todo = @ \ {"total"}, !.total = Cardinality(Where)]
  /\ late' = 0
  /\ UNCHANGED <<exists, items, before, left, changed>>

ReadFailed ==
  /\ reader.pc = "query" /\ "failed" \in reader.todo
  /\ reader' = [reader EXCEPT !.todo = @ \ {"failed"},
                              !.failed = Cardinality({i \in Where : items[i].status = Failed})]
  /\ UNCHANGED <<exists, items, before, left, late, changed>>

EndPage ==
  /\ reader.pc = "query" /\ reader.todo = {}
  /\ reader' = IF reader.view = "dashboard" \/ reader.page * Limit >= reader.total
               THEN [reader EXCEPT !.pc = "done"]
               ELSE [reader EXCEPT !.pc = Request(reader.view, reader.user),
                                   !.page = @ + 1, !.todo = Queries(reader.view)]
  /\ UNCHANGED <<exists, items, before, left, late, changed>>

EndReader ==
  /\ reader.pc = "done"
  /\ reader' = Idle /\ before' = {} /\ left' = 0 /\ late' = 0
  /\ UNCHANGED <<exists, items, changed>>

Next ==
  \/ CreateContainer \/ CreateItem \/ ChangeStatus
  \/ Begin \/ ReadOwned \/ ReadItems \/ ReadTotal \/ ReadFailed \/ EndPage \/ EndReader

Spec == Init /\ [][Next]_vars
-------------------------------------------------------------------------------
\* Pages are cut by offset from a list that grows at its head and from which,
\* under a status filter, items drop out, and the total and the items of a page
\* are read by two queries: a reader of all pages misses no more of the items
\* that matched when it began than left the filter meanwhile or came between
\* the two queries of its last page.
MissedCostLeft ==
  reader.pc = "done" /\ reader.view # "dashboard" =>
    Cardinality(before \ reader.seen) <= left + late

\* The dashboard counts what the user could see at some moment while it was being
\* read, and its newest items are as many as the counts allow.
DashboardIsTimely ==
  reader.pc = "done" /\ reader.view = "dashboard" =>
    /\ reader.total >= Cardinality(before)
    /\ reader.total <= Cardinality({i \in Indexes : CanSee(reader.user, i)})
    /\ Cardinality(reader.seen) >= Latest \/ Cardinality(reader.seen) >= Cardinality(before)
================================================================================
