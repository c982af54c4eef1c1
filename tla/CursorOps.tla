------------------------------ MODULE CursorOps ------------------------------
(***************************************************************************)
(* Cursor arithmetic of incremental pipelines                              *)
(* (apps/api/src/sync-runs/sync-runs.service.ts, 810-918).                 *)
(*                                                                         *)
(* The code's candidates and cursors are JavaScript objects with two       *)
(* optional keys, "sequence" (a number) and "updatedAt" (an ISO instant,   *)
(* compared by its time).  Here they are functions from the set of keys    *)
(* that are present to the integers; the function with no key stands for   *)
(* null, which the code returns in place of an object without keys.        *)
(***************************************************************************)
EXTENDS Integers

CursorFields == {"sequence", "updatedAt"}

NoCursor == [f \in {} |-> 0]

\* Partial functions from the two keys to S.
Partial(S) == {NoCursor} \cup [{"sequence"} -> S] \cup [{"updatedAt"} -> S]
                \cup [CursorFields -> S]

Cursors == Partial(Int)

BothHave(f, left, right) == f \in DOMAIN left /\ f \in DOMAIN right

(***************************************************************************)
(* A raw record, or the JSON column cursorJson, as a partial function from *)
(* the two keys to typed JSON values.  `finite` is FALSE for a value that  *)
(* does not convert: NaN, an infinity, an unparsable string or date.       *)
(***************************************************************************)
JsonTypes == {"number", "string", "date", "other"}
JsonValues == [type : JsonTypes, finite : BOOLEAN, value : Int]
Raws == Partial(JsonValues)

\* What extractCursorCandidate reads from a record: numeric strings count as
\* sequences, and numbers and Date objects as instants.
ReadableInRecord == [f \in CursorFields |->
                       IF f = "sequence" THEN {"number", "string"}
                                         ELSE {"number", "string", "date"}]

ExtractCursorCandidate(raw) ==
  [f \in {f \in DOMAIN raw : raw[f].finite /\ raw[f].type \in ReadableInRecord[f]}
     |-> raw[f].value]

\* What normalizeCursorState accepts from the stored cursor: it is stricter.
ReadableInCursor == [f \in CursorFields |->
                       IF f = "sequence" THEN {"number"} ELSE {"string"}]

NormalizeCursorState(json) ==
  [f \in {f \in DOMAIN json : json[f].finite /\ json[f].type \in ReadableInCursor[f]}
     |-> json[f].value]

\* Mutant: the cursor names the next value to fetch.
NextValueToJson(candidate) ==
  [f \in DOMAIN candidate |->
     [type |-> IF f = "sequence" THEN "number" ELSE "string",
      finite |-> TRUE, value |-> candidate[f] + 1]]

CursorCandidateToJson(candidate) ==
  [f \in DOMAIN candidate |->
     [type |-> IF f = "sequence" THEN "number" ELSE "string",
      finite |-> TRUE, value |-> candidate[f]]]

(***************************************************************************)
(* The order.  Sequences win over instants, and two values that share no   *)
(* key are not comparable: isCandidateNewer then answers TRUE.             *)
(***************************************************************************)
IsCandidateNewer(candidate, cursor) ==
  IF BothHave("sequence", candidate, cursor)
    THEN candidate["sequence"] > cursor["sequence"]
  ELSE BothHave("updatedAt", candidate, cursor)
         => candidate["updatedAt"] > cursor["updatedAt"]

\* shouldProcessRecord: everything passes without a cursor or a candidate.
ShouldProcessRecord(candidate, cursor) ==
  \/ cursor = NoCursor
  \/ candidate = NoCursor
  \/ IsCandidateNewer(candidate, cursor)

\* Mutant: the last candidate wins, not the latest.
PickLastCursor(left, right) == IF right = NoCursor THEN left ELSE right

\* The last branch: two candidates that share no key; the later one wins,
\* whichever key it has.
PickLatestCursor(left, right) ==
  IF left = NoCursor \/ right = NoCursor
    THEN IF left = NoCursor THEN right ELSE left
  ELSE IF BothHave("sequence", left, right)
    THEN IF right["sequence"] > left["sequence"] THEN right ELSE left
  ELSE IF BothHave("updatedAt", left, right)
    THEN IF right["updatedAt"] > left["updatedAt"] THEN right ELSE left
  ELSE right
=============================================================================
