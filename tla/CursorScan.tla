------------------------------ MODULE CursorScan ------------------------------
(***************************************************************************)
(* The incremental cursor of one pipeline over many runs, with the data    *)
(* conversions: raw records in, cursorJson in the database, and back       *)
(* (apps/api/src/sync-runs/sync-runs.service.ts, processRunRecords).       *)
(*                                                                         *)
(* SyncRuns abstracts a record to its candidate; here a record is raw, the *)
(* runs follow one another and nothing fails.  A source may send what it   *)
(* sent before, in any order and in any run.  The filter and the loop are  *)
(* one pass: the filter reads nothing that the loop writes.                *)
(***************************************************************************)
EXTENDS CursorOps, Sequences

CONSTANTS
  Feeds,    \* the sets of raw records a source may send
  MaxBatch  \* bound on the records of one run

VARIABLES
  feed,        \* the records this source sends
  cursorJson,  \* SyncPipeline.cursorJson
  batch,       \* the records of the current run, empty between runs
  pos,         \* the loop's position
  base,        \* the normalised cursor the run has read
  latest,      \* maxCursor of the loop
  fresh,       \* history: records stored by the current run
  ingested     \* history: records stored by the runs before

vars == <<feed, cursorJson, batch, pos, base, latest, fresh, ingested>>

Candidate(raw) == ExtractCursorCandidate(raw)

Init ==
  /\ feed \in Feeds
  /\ cursorJson = NoCursor
  /\ batch = <<>> /\ pos = 1
  /\ base = NoCursor /\ latest = NoCursor
  /\ fresh = {} /\ ingested = {}

BeginRun ==
  /\ batch = <<>>
  /\ \E n \in 1..MaxBatch : batch' \in [1..n -> feed]
  /\ base' = NormalizeCursorState(cursorJson)
  /\ pos' = 1 /\ latest' = NoCursor
  /\ UNCHANGED <<feed, cursorJson, fresh, ingested>>

Skip ==
  /\ pos <= Len(batch)
  /\ ~ShouldProcessRecord(Candidate(batch[pos]), base)
  /\ pos' = pos + 1
  /\ UNCHANGED <<feed, cursorJson, batch, base, latest, fresh, ingested>>

Store ==
  /\ pos <= Len(batch)
  /\ ShouldProcessRecord(Candidate(batch[pos]), base)
  /\ latest' = PickLatestCursor(latest, Candidate(batch[pos]))
  /\ fresh' = fresh \cup {batch[pos]}
  /\ pos' = pos + 1
  /\ UNCHANGED <<feed, cursorJson, batch, base, ingested>>

EndRun ==
  /\ batch # <<>> /\ pos > Len(batch)
  /\ cursorJson' = IF latest = NoCursor THEN cursorJson ELSE CursorCandidateToJson(latest)
  /\ ingested' = ingested \cup fresh
  /\ batch' = <<>> /\ fresh' = {}
  /\ UNCHANGED <<feed, pos, base, latest>>

Next == BeginRun \/ Skip \/ Store \/ EndRun

Spec == Init /\ [][Next]_vars
-------------------------------------------------------------------------------
(***************************************************************************)
(* The order of the candidates is total only on a feed of one kind: all    *)
(* candidates have a sequence, or none has.  On a feed that mixes kinds    *)
(* two candidates may share no key, each is newer than the other, and both *)
(* properties fail.                                                        *)
(***************************************************************************)
OneKind(s) ==
  \/ \A raw \in s : Candidate(raw) # NoCursor => "sequence" \in DOMAIN Candidate(raw)
  \/ \A raw \in s : "sequence" \notin DOMAIN Candidate(raw)

\* Sending again what was already ingested stores nothing again, except for
\* records without a candidate: the cursor survives its trip through JSON and
\* is the latest of the candidates, in whatever order they came.
NoReplay ==
  OneKind(feed) => \A raw \in fresh \cap ingested : Candidate(raw) = NoCursor

\* The filter loses nothing but what is not newer than an ingested record: a
\* record that the stored cursor would skip has a candidate, and one of the
\* ingested records is at least as new.
SkipsOnlyOld ==
  OneKind(feed) => \A raw \in feed :
    ~ShouldProcessRecord(Candidate(raw), NormalizeCursorState(cursorJson)) =>
      \E old \in ingested : ~ShouldProcessRecord(Candidate(raw), Candidate(old))
===============================================================================
