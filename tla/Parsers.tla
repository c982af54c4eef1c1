-------------------------------- MODULE Parsers --------------------------------
(***************************************************************************)
(* What others write and the API reads: mappings, cron expressions and the *)
(* cursors of records.  The three share no state; a behaviour is one of    *)
(* Transform, of Cron or of CursorScan.                                    *)
(***************************************************************************)
EXTENDS Naturals

CONSTANTS
  Entries, Records, MaxFields, Dangerous, Blank, Numeric, Truthy, Falsy, DateLike,
  Fields, FieldSpecs, Texts, Zones, Hosts, Parts(_), Ticks, Horizon, SavedAt,
  Feeds, MaxBatch

VARIABLES
  part,
  mapping, record, next, fields, invalid, phase, normalized, errors,
  text, pos, parsed, outcome, zone, host, from, cursor, tries, run, fired,
  feed, cursorJson, batch, place, base, latest, fresh, ingested

Transform == INSTANCE Transform
Cron == INSTANCE Cron
Scan == INSTANCE CursorScan WITH pos <- place

ASSUME FeedsAssumption == MaxBatch \in Nat /\ \A s \in Feeds : s \subseteq Scan!Raws

transformVars == <<mapping, record, next, fields, invalid, phase, normalized, errors>>
cronVars == <<text, pos, parsed, outcome, zone, host, from, cursor, tries, run, fired>>
scanVars == <<feed, cursorJson, batch, place, base, latest, fresh, ingested>>
vars == <<part, transformVars, cronVars, scanVars>>

\* What the variables of the other parts hold.
Nothing == <<>>
NoTransform ==
  /\ mapping = Nothing /\ record = Nothing /\ next = Nothing /\ fields = Nothing
  /\ invalid = Nothing /\ phase = Nothing /\ normalized = Nothing /\ errors = Nothing
NoCron ==
  /\ text = Nothing /\ pos = Nothing /\ parsed = Nothing /\ outcome = Nothing
  /\ zone = Nothing /\ host = Nothing /\ from = Nothing /\ cursor = Nothing
  /\ tries = Nothing /\ run = Nothing /\ fired = Nothing
NoScan ==
  /\ feed = Nothing /\ cursorJson = Nothing /\ batch = Nothing /\ place = Nothing
  /\ base = Nothing /\ latest = Nothing /\ fresh = Nothing /\ ingested = Nothing

Init ==
  \/ part = "transform" /\ Transform!Init /\ NoCron /\ NoScan
  \/ part = "cron" /\ Cron!Init /\ NoTransform /\ NoScan
  \/ part = "scan" /\ Scan!Init /\ NoTransform /\ NoCron

Next ==
  \/ part = "transform" /\ Transform!Next /\ UNCHANGED <<part, cronVars, scanVars>>
  \/ part = "cron" /\ Cron!Next /\ UNCHANGED <<part, transformVars, scanVars>>
  \/ part = "scan" /\ Scan!Next /\ UNCHANGED <<part, transformVars, cronVars>>

Spec == Init /\ [][Next]_vars
-------------------------------------------------------------------------------
\* The properties of Transform (transformation-engine.service.ts), of Cron
\* (cron-utils.ts) and of CursorScan (sync-runs.service.ts), each of its own
\* behaviours.
FieldsAreIndependent == part = "transform" => Transform!FieldsAreIndependent
ReadsCron == part = "cron" => Cron!ReadsCron
NoSlotSkipped == part = "cron" => Cron!NoSlotSkipped
NoReplay == part = "scan" => Scan!NoReplay
SkipsOnlyOld == part = "scan" => Scan!SkipsOnlyOld
================================================================================
