------------------------------- MODULE RowAccess -------------------------------
(***************************************************************************)
(* Rows that are written after a check (Resources), read in several        *)
(* queries (Listing) and shown on a page (PipelinesPage).  The three keep  *)
(* what they have of the rows apart; a behaviour is one of theirs, and the *)
(* other two stay as they are.                                             *)
(***************************************************************************)
EXTENDS Naturals

CONSTANTS
  Users, Privileged, Connectors, Pipelines, Statuses, Active, None, Requests, MaxWrites, MaxFaults,
  Readers, Operators, Containers, OwnerOf, ItemStatuses, Failed, Limit, Latest, MaxItems, MaxChanges,
  Listed, MaxAttempt, MaxCalls

VARIABLES
  part,
  rows, req, chosenBy, silent, overlaps, begun,
  exists, items, reader, before, left, late, changed,
  status, calls, pipelines, pendingStatus, loading, runningPipelineId, updatingPipelineId, outrun,
  faults

Resources == INSTANCE Resources
Listing == INSTANCE Listing WITH
  Users <- Readers, Privileged <- Operators, Statuses <- ItemStatuses
Page == INSTANCE PipelinesPage WITH Pipelines <- Listed

resourcesVars == <<rows, req, chosenBy, silent, overlaps, begun>>
listingVars == <<exists, items, reader, before, left, late, changed>>
pageVars ==
  <<status, calls, pipelines, pendingStatus, loading, runningPipelineId, updatingPipelineId, outrun>>
vars == <<part, resourcesVars, listingVars, pageVars, faults>>

Init ==
  /\ part \in {"resources", "listing", "page"}
  /\ Resources!Init /\ Listing!Init /\ Page!Init
  /\ part # "page" => \A p \in Listed : status[p] = Active

PageStep(A) == part = "page" /\ A /\ UNCHANGED <<part, resourcesVars, listingVars>>

Next ==
  \/ part = "resources" /\ Resources!Next /\ UNCHANGED <<part, listingVars, pageVars>>
  \/ part = "listing" /\ Listing!Next /\ UNCHANGED <<part, resourcesVars, pageVars, faults>>
  \/ PageStep(Page!Next)

Spec == Init /\ [][Next]_vars

\* With the fairness that PipelinesPage gives the page's calls.
FairSpec == Spec /\ \A c \in 1..MaxCalls : WF_vars(PageStep(Page!CallStep(c)))
-------------------------------------------------------------------------------
\* The properties of Resources (pipelines.service.ts, connectors.service.ts),
\* Listing (sync-runs.service.ts, webhooks.service.ts, dashboard.service.ts) and
\* PipelinesPage (pipelines/page.tsx), each of its own behaviours.
SourceIsUsable == part = "resources" => Resources!SourceIsUsable
SilentChangesCostOverlaps == part = "resources" => Resources!SilentChangesCostOverlaps
MissedCostLeft == part = "listing" => Listing!MissedCostLeft
DashboardIsTimely == part = "listing" => Listing!DashboardIsTimely
StaleRowWasOutrun == part = "page" => Page!StaleRowWasOutrun
RepeatCostsAnother == part = "page" => Page!RepeatCostsAnother
CallsSettle == part = "page" => Page!CallsSettle
================================================================================
