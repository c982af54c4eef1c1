--------------------------------- MODULE Cron ---------------------------------
(***************************************************************************)
(* Cron expressions: their parser and the search for the next run          *)
(* (apps/api/src/scheduler/cron-utils.ts).                                 *)
(*                                                                         *)
(* A field is a sequence of segments, as split at ",".  A segment is       *)
(* [parts, step]: what precedes "/", split at "-", and the number that     *)
(* follows it.  A part is a number or one of the marks below.  Time is     *)
(* counted in ticks; a zone gives the local minute of every minute, so a   *)
(* gap or a repeated hour is a zone like any other.  The schedule's zone   *)
(* is one thing and the host's another: Date steps in the host's.  Of the  *)
(* five fields the configuration keeps as many as it needs: the code       *)
(* treats all alike.                                                       *)
(***************************************************************************)
EXTENDS Integers, Sequences, FiniteSetsExt

CONSTANTS
  Fields,    \* the fields, in the order of the expression
  FieldSpecs,\* [names of Fields -> [min, max, seven]]
  Texts,     \* [names of Fields -> the sequences of segments to parse]
  Zones,     \* the schedules' zones, functions from minutes to local minutes
  Hosts,     \* the zones that the process may run in
  Parts(_),  \* the parts of a local minute, [names of Fields -> number]
  Ticks,     \* ticks of a minute
  Horizon,   \* minutes that the search tries
  SavedAt    \* the instant, in ticks, at which the schedule is saved

Star == -1    \* "*"
Empty == -2   \* "", which Number() reads as 0
Junk == -3    \* anything that Number() does not read as an integer
NaN == -4
NoStep == -5
Null == -6

VARIABLES
  text,     \* the fields of the expression
  pos,      \* field and segment that the parser is at
  parsed,   \* [names of Fields -> set of numbers]
  outcome,  \* "parsing", "valid" or "invalid"
  zone,     \* the schedule's
  host,     \* the process's
  from,     \* fromDate, in ticks
  cursor,   \* the minute that the search is at, Null outside of one
  tries,    \* minutes tried so far
  run,      \* the minute that computeNextRunAt returned last, Null if none
  fired     \* history: the minutes returned so far

vars == <<text, pos, parsed, outcome, zone, host, from, cursor, tries, run, fired>>
Names == {Fields[i] : i \in DOMAIN Fields}

(* The parser. *)

NumberOf(part) == IF part = Empty THEN 0 ELSE IF part < 0 THEN NaN ELSE part

FieldValue(part, spec) ==
  LET value == NumberOf(part) IN
  CASE value = NaN -> NaN
    [] value # NaN /\ value = spec.seven -> 0
    [] value # spec.seven /\ value \in spec.min..spec.max -> value
    [] OTHER -> NaN

\* Steps counted from 0, for a mutant.
AddRangeFromZero(start, end, step) == {v \in start..end : v % step = 0}
AddRange(start, end, step) == {v \in start..end : (v - start) % step = 0}

\* The third and later parts of a range are not looked at.
RangeSet(seg, spec, step) ==
  LET start == FieldValue(seg.parts[1], spec)
      end == FieldValue(seg.parts[2], spec)
  IN IF start = NaN \/ end = NaN \/ end < start THEN {} ELSE AddRange(start, end, step)

\* What a segment adds, empty when the parser throws.
SegmentSet(seg, spec) ==
  LET step == IF seg.step = NoStep THEN 1 ELSE seg.step IN
  CASE seg.parts = <<Empty>> \/ step = 0 -> {}
    [] seg.parts = <<Star>> /\ step > 0 -> AddRange(spec.min, spec.max, step)
    [] Len(seg.parts) > 1 /\ step > 0 -> RangeSet(seg, spec, step)
    [] OTHER -> IF seg.step = NoStep THEN {FieldValue(seg.parts[1], spec)} \ {NaN} ELSE {}

Init ==
  /\ text \in {t \in [Names -> UNION {Texts[f] : f \in Names}] : \A f \in Names : t[f] \in Texts[f]}
  /\ pos = <<1, 1>>
  /\ parsed = [f \in Names |-> {}]
  /\ outcome = "parsing"
  /\ zone \in Zones /\ host \in Hosts
  /\ from = SavedAt /\ cursor = Null /\ tries = 0
  /\ run = Null /\ fired = {}

ParseSegment ==
  LET f == Fields[pos[1]]
      added == SegmentSet(text[f][pos[2]], FieldSpecs[f])
  IN
  /\ outcome = "parsing"
  /\ \/ /\ added = {}
        /\ outcome' = "invalid"
        /\ UNCHANGED <<parsed, pos>>
     \/ /\ added # {}
        /\ parsed' = [parsed EXCEPT ![f] = @ \cup added]
        /\ \/ /\ pos[2] < Len(text[f])
              /\ pos' = <<pos[1], pos[2] + 1>> /\ UNCHANGED outcome
           \/ /\ pos[2] = Len(text[f]) /\ pos[1] < Len(Fields)
              /\ pos' = <<pos[1] + 1, 1>> /\ UNCHANGED outcome
           \/ /\ pos = <<Len(Fields), Len(text[f])>>
              /\ outcome' = "valid" /\ UNCHANGED pos
  /\ UNCHANGED <<text, zone, host, from, cursor, tries, run, fired>>

(* The next run. *)

MatchesCron(minute) == \A f \in Names : Parts(zone[minute])[f] \in parsed[f]

\* What Date takes a local minute of the host for: the first of the minutes that
\* have it, or, in a gap, the minute it would be had the clock not changed.
Instant(local) ==
  LET same == {m \in DOMAIN host : host[m] = local}
      last == Max({m \in DOMAIN host : host[m] < local})
  IN IF same # {} THEN Min(same) ELSE last + (local - host[last])

\* setMinutes(getMinutes() + 1)
AddMinute(minute) == Instant(host[minute] + 1)
\* setSeconds(0, 0), which sets the local minute anew
DropSeconds(ticks) == Instant(host[ticks \div Ticks])
\* The search starts at the minute of fromDate itself, for a mutant.
FirstTriedAtOnce(ticks) == DropSeconds(ticks)
FirstTried(ticks) == AddMinute(DropSeconds(ticks))

\* computeNextRunAt.  The scheduler asks again from the run it has got.
BeginSearch ==
  /\ outcome = "valid" /\ cursor = Null
  /\ fired = {} \/ run # Null
  /\ from \div Ticks \in DOMAIN host
  /\ cursor' = FirstTried(from) /\ tries' = 1
  /\ UNCHANGED <<text, pos, parsed, outcome, zone, host, from, run, fired>>

\* The poll that asks next may come at any tick of the minute found.
Try ==
  /\ cursor \in DOMAIN host
  /\ \/ /\ MatchesCron(cursor)
        /\ run' = cursor /\ fired' = fired \cup {cursor}
        /\ \E late \in 0..(Ticks - 1) : from' = cursor * Ticks + late
        /\ cursor' = Null /\ tries' = 0
     \/ /\ ~MatchesCron(cursor) /\ tries < Horizon
        /\ cursor' = AddMinute(cursor) /\ tries' = tries + 1
        /\ UNCHANGED <<from, run, fired>>
     \/ /\ ~MatchesCron(cursor) /\ tries = Horizon
        /\ run' = Null /\ cursor' = Null /\ tries' = 0
        /\ UNCHANGED <<from, fired>>
  /\ UNCHANGED <<text, pos, parsed, outcome, zone, host>>

Next == ParseSegment \/ BeginSearch \/ Try

Spec == Init /\ [][Next]_vars
-------------------------------------------------------------------------------
(* The reference: what cron says of a segment. *)

InField(part, spec) == part \in spec.min..spec.max \/ (part >= 0 /\ part = spec.seven)
Days(values, spec) == {IF v = spec.seven THEN 0 ELSE v : v \in values}

WellFormed(seg, spec) ==
  /\ seg.step = NoStep \/ seg.step > 0
  /\ \/ seg.parts = <<Star>>
     \/ Len(seg.parts) = 1 /\ seg.step = NoStep /\ InField(seg.parts[1], spec)
     \/ /\ Len(seg.parts) = 2
        /\ \A i \in 1..2 : InField(seg.parts[i], spec)
        /\ seg.parts[1] <= seg.parts[2]

Denotes(seg, spec) ==
  LET step == IF seg.step = NoStep THEN 1 ELSE seg.step
      from0 == IF seg.parts = <<Star>> THEN spec.min ELSE seg.parts[1]
      to == IF seg.parts = <<Star>> THEN spec.max ELSE seg.parts[Len(seg.parts)]
  IN Days({v \in from0..to : \E n \in 0..to : v = from0 + n * step}, spec)

\* A range that ends on 7 is well formed, and yet the parser takes the 7 for 0:
\* it refuses "5-7" and reads "0-7" as Sunday alone.
EndsOnSeven(seg, spec) == Len(seg.parts) > 1 /\ seg.parts[2] = spec.seven

Segments(f) == {text[f][i] : i \in DOMAIN text[f]}
Readable(f) == \A seg \in Segments(f) :
  WellFormed(seg, FieldSpecs[f]) /\ ~EndsOnSeven(seg, FieldSpecs[f])

\* An expression of well-formed segments, ranges up to 7 apart, is accepted, and
\* each field stands for the numbers that cron says.
ReadsCron ==
  (\A f \in Names : Readable(f)) =>
    /\ outcome # "invalid"
    /\ outcome = "valid" => \A f \in Names :
         parsed[f] = UNION {Denotes(seg, FieldSpecs[f]) : seg \in Segments(f)}

\* A clock that is never set back, as UTC's.  Where it is, the search jumps over
\* the repeated minutes, or falls back into the first of them.
IsSteady(clock) == \A m, n \in DOMAIN clock : m < n => clock[m] < clock[n]

\* The runs of a schedule whose poll is never a minute late are all the matching
\* minutes since it was saved, in gaps and repeated hours of its zone too, when the
\* host's clock is steady: none is skipped and none comes twice.
NoSlotSkipped ==
  IsSteady(host) /\ run # Null =>
    fired = {m \in DOMAIN zone : m > SavedAt \div Ticks /\ m <= run /\ MatchesCron(m)}
================================================================================
