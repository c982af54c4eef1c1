----------------------------- MODULE PipelinesPage -----------------------------
(***************************************************************************)
(* The page that lists the pipelines (apps/web: app/pipelines/page.tsx):   *)
(* its calls to the API overlap, and each ends by writing state of the     *)
(* page.  It loads the list, starts runs by hand or by the schedule's      *)
(* trigger, waits for the job of a run by asking for it every two seconds, *)
(* and saves a status chosen in the row of a pipeline.                     *)
(*                                                                         *)
(* A row keeps its status.  A job answers anything: SyncRuns models it.    *)
(* Messages are left out.                                                  *)
(***************************************************************************)
EXTENDS Naturals, Sequences, FiniteSets

CONSTANTS
  Pipelines, Statuses,
  None,       \* no pipeline; a row that is not on the page
  MaxAttempt, \* 60: the last attempt of pollJobUntilFinished
  MaxCalls,   \* bound on the calls the page begins
  MaxFaults   \* bound on the calls that reject

VARIABLES
  status,             \* [Pipelines -> Statuses], in the database
  calls,              \* the calls begun, in order
  pipelines,          \* [Pipelines -> the status on the page]
  pendingStatus,      \* [Pipelines -> the status chosen in the row]
  loading, runningPipelineId, updatingPipelineId,
  outrun,             \* history: pipelines written while an older answer was under way
  faults

page == <<pipelines, pendingStatus, loading, runningPipelineId, updatingPipelineId>>
vars == <<status, calls, page, outrun, faults>>

NoRows == [p \in Pipelines |-> None]
Steps == {"load", "loaded", "start", "poll", "wait", "save", "saved", "done"}
\* The answer of a call holds the rows it has read or written.
Call(kind, p) == [kind |-> kind, pc |-> kind, p |-> p, answer |-> NoRows, attempt |-> 0]

Init ==
  /\ status \in [Pipelines -> Statuses]
  /\ calls = <<Call("load", None)>>
  /\ pipelines = NoRows /\ pendingStatus = NoRows
  /\ loading = TRUE /\ runningPipelineId = None /\ updatingPipelineId = None
  /\ outrun = {} /\ faults = 0

At(c, pc) == c \in DOMAIN calls /\ calls[c].pc = pc
Go(c, pc) == calls' = [calls EXCEPT ![c].pc = pc]

(* The user: no row is on the page while it loads. *)

Visible(p) == ~loading /\ pipelines[p] # None /\ Len(calls) < MaxCalls

\* A button that is never disabled, for a mutant.
Enabled(p) == TRUE
CanStart(p) == runningPipelineId # p

Start(p) ==
  /\ Visible(p) /\ CanStart(p)
  /\ calls' = Append(calls, Call("start", p))
  /\ runningPipelineId' = p
  /\ UNCHANGED <<status, pipelines, pendingStatus, loading, updatingPipelineId, outrun, faults>>

Choose(p) ==
  /\ Visible(p)
  /\ \E s \in Statuses : pendingStatus' = [pendingStatus EXCEPT ![p] = s]
  /\ UNCHANGED <<status, calls, pipelines, loading, runningPipelineId, updatingPipelineId, outrun, faults>>

Save(p) ==
  /\ Visible(p) /\ updatingPipelineId # p
  /\ calls' = Append(calls, [Call("save", p) EXCEPT !.answer[p] = pendingStatus[p]])
  /\ updatingPipelineId' = p
  /\ UNCHANGED <<status, pipelines, pendingStatus, loading, runningPipelineId, outrun, faults>>

(* The calls. *)

\* The run is queued, and its job asked for; or it has ended, in sync mode.
Started(c) ==
  /\ At(c, "start")
  /\ \E pc \in {"poll", "done"} : Go(c, pc)
  /\ runningPipelineId' = None
  /\ UNCHANGED <<status, pipelines, pendingStatus, loading, updatingPipelineId, outrun, faults>>

\* COMPLETED and FAILED end the polling with a load.
JobRead(c) ==
  /\ At(c, "poll")
  /\ \/ Go(c, "wait") /\ UNCHANGED loading
     \/ Go(c, "load") /\ loading' = TRUE
  /\ UNCHANGED <<status, pipelines, pendingStatus, runningPipelineId, updatingPipelineId, outrun, faults>>

\* The attempt is not counted, for a mutant.
AskAgain(c) ==
  /\ At(c, "wait")
  /\ Go(c, "poll")
  /\ UNCHANGED <<status, page, outrun, faults>>
Waited(c) ==
  /\ At(c, "wait")
  /\ calls' = [calls EXCEPT ![c].attempt = @ + 1,
                            ![c].pc = IF calls[c].attempt + 1 > MaxAttempt THEN "done" ELSE "poll"]
  /\ UNCHANGED <<status, page, outrun, faults>>

ListRead(c) ==
  /\ At(c, "load")
  /\ calls' = [calls EXCEPT ![c].pc = "loaded", ![c].answer = status]
  /\ UNCHANGED <<status, page, outrun, faults>>

\* loadData replaces the rows and what was chosen in them.
Loaded(c) ==
  /\ At(c, "loaded")
  /\ Go(c, "done")
  /\ pipelines' = calls[c].answer /\ pendingStatus' = calls[c].answer /\ loading' = FALSE
  /\ UNCHANGED <<status, runningPipelineId, updatingPipelineId, outrun, faults>>

\* An answer with p's status is under way to the page.
Outruns(p, c) == \E d \in DOMAIN calls \ {c} : calls[d].pc \in {"loaded", "saved"} /\ calls[d].answer[p] # None

Written(c) ==
  LET p == calls[c].p IN
  /\ At(c, "save")
  /\ status' = [status EXCEPT ![p] = calls[c].answer[p]]
  /\ Go(c, "saved")
  /\ outrun' = IF Outruns(p, c) THEN outrun \cup {p} ELSE outrun
  /\ UNCHANGED <<page, faults>>

\* The row on the page is left as it is, for a mutant.
SavedOnly(c) ==
  /\ At(c, "saved")
  /\ Go(c, "done")
  /\ updatingPipelineId' = None
  /\ UNCHANGED <<status, pipelines, pendingStatus, loading, runningPipelineId, outrun, faults>>
Saved(c) ==
  /\ At(c, "saved")
  /\ Go(c, "done")
  /\ pipelines' = [pipelines EXCEPT ![calls[c].p] = calls[c].answer[calls[c].p]]
  /\ updatingPipelineId' = None
  /\ UNCHANGED <<status, pendingStatus, loading, runningPipelineId, outrun, faults>>

\* What finally does when the call rejects.
Finally(c) ==
  /\ loading' = IF calls[c].pc \in {"load", "loaded"} THEN FALSE ELSE loading
  /\ runningPipelineId' = IF At(c, "start") THEN None ELSE runningPipelineId
  /\ updatingPipelineId' = IF calls[c].pc \in {"save", "saved"} THEN None ELSE updatingPipelineId

\* A call rejects, or its answer is lost: a poll ends at its first rejected call.
Rejected(c) ==
  /\ calls[c].pc \in Steps \ {"wait", "done"} /\ faults < MaxFaults
  /\ faults' = faults + 1
  /\ Go(c, "done") /\ Finally(c)
  /\ UNCHANGED <<status, pipelines, pendingStatus, outrun>>

CallStep(c) ==
  \/ Started(c) \/ JobRead(c) \/ Waited(c)
  \/ ListRead(c) \/ Loaded(c) \/ Written(c) \/ Saved(c)

Next ==
  \/ \E p \in Pipelines : Start(p) \/ Choose(p) \/ Save(p)
  \/ \E c \in DOMAIN calls : CallStep(c) \/ Rejected(c)

Spec == Init /\ [][Next]_vars

\* Every call is answered at last, and timers fire.
FairSpec == Spec /\ \A c \in 1..MaxCalls : WF_vars(CallStep(c))
--------------------------------------------------------------------------------
\* A page without a load or a save under way shows the status of the database,
\* unless a call rejected or the status was written while an older answer with
\* it was under way (page.tsx: loadData and updateStatus both write the rows).
StaleRowWasOutrun ==
  faults = 0 /\ (\A c \in DOMAIN calls : calls[c].pc \notin {"load", "loaded", "save", "saved"}) =>
    \A p \in Pipelines : pipelines[p] \in {None, status[p]} \/ p \in outrun

\* The calls of a kind, begun and not yet answered.
Unanswered == {c \in DOMAIN calls : calls[c].pc \in {"start", "save", "saved"}}
Begun(kind, set) == {c \in DOMAIN calls : calls[c].kind = kind /\ calls[c].p \in set}
Open(kind, p) == Begun(kind, {p}) \cap Unanswered
BegunForOthers(kind, p) == Begun(kind, Pipelines \ {p})

\* A pipeline's buttons are disabled by one id for all rows, which a call for another
\* row takes over when it begins and clears when it ends (page.tsx: runPipeline and
\* updateStatus): a pipeline has one call under way, and one more only for each such step.
RepeatCostsAnother ==
  \A p \in Pipelines, kind \in {"start", "save"} :
    Cardinality(Open(kind, p))
      <= 1 + Cardinality(BegunForOthers(kind, p)) + Cardinality(BegunForOthers(kind, p) \ Unanswered)

\* Every call ends, also a poll for a job that no worker ever takes.
CallsSettle ==
  \A c \in 1..MaxCalls : c \in DOMAIN calls ~> At(c, "done")
================================================================================
