------------------------------- MODULE MCParsers -------------------------------
(***************************************************************************)
(* Short paths over the segments "a" and "b", and records with a value of  *)
(* each kind; a day of three minutes and a week of three days, of which 3  *)
(* is the other name of day 0; a plain zone, one with a gap and one that   *)
(* repeats for the schedule, one with a gap and one that repeats for the   *)
(* host.                                                                   *)
(***************************************************************************)
EXTENDS Parsers, Integers

\* The operators the values below are built from; they read none of these
\* constants, which the values themselves define.
Mapped == INSTANCE Transform WITH Entries <- {}, Records <- {}
Crontab == INSTANCE Cron WITH Texts <- {}, FieldSpecs <- {}
Cursor == INSTANCE CursorOps

Text(txt) == Mapped!Leaf("string", txt, {})
Number(txt) == Mapped!Leaf("number", txt, {})
Null == Mapped!Leaf("null", "null", {})
True == Mapped!Leaf("boolean", "true", {})
Array(txt) == Mapped!Leaf("array", txt, {})

Put(tree, path, value) == Mapped!PutAt(tree, path, value)
SmallRecords == {
  Put(Put(Mapped!EmptyObject, <<"a">>, Text("one")), <<"b", "a">>, Null),
  Put(Put(Mapped!EmptyObject, <<"a", "b">>, Text("yes")), <<"b">>, Number("zero")),
  Put(Put(Mapped!EmptyObject, <<"a">>, Array("")), <<"b">>, Text("iso")),
  Put(Put(Mapped!EmptyObject, <<"a">>, True), <<"b">>, Array("one"))}

Object(key, path, type, required, default, flags, compute) ==
  [kind |-> "object", key |-> key, path |-> path, type |-> type, required |-> required,
   default |-> default, flags |-> flags, compute |-> compute]
Short(key, path) ==
  [kind |-> "path", key |-> key, path |-> path, type |-> "json", required |-> FALSE,
   default |-> Mapped!Undefined, flags |-> {}, compute |-> "none"]

A == <<"a">>
B == <<"b">>
AB == <<"a", "", "b">>
AA == <<"a", "a">>

GoodEntries == {Short(A, A), Short(AB, B), Short(B, <<"b", "a">>), Short(AA, A)}
  \cup {Object(B, A, t, TRUE, Mapped!Undefined, {"trim", "lowercase"}, "none") : t \in Mapped!Types}
  \cup {Object(AB, <<"a", "b">>, t, TRUE, Number("one"), {"uppercase"}, "none") : t \in {"boolean", "date", "string"}}
  \cup {Object(AA, <<"b", "a">>, "number", TRUE, Null, {}, "none"),
        Object(A, <<>>, "date", FALSE, Mapped!Undefined, {}, "now"),
        Object(AA, A, "string", FALSE, Mapped!Undefined, {}, "uuid")}
BadEntries == {
  [Short(<<"x">>, A) EXCEPT !.kind = "other"], Short(<<"">>, A), Short(A, <<"proto">>),
  Object(B, <<>>, "json", FALSE, Mapped!Undefined, {}, "none"),
  Object(AB, A, "currency", FALSE, Mapped!Undefined, {}, "none"),
  Object(A, A, "json", FALSE, Mapped!Undefined, {}, "random"),
  Object(AA, A, "string", FALSE, Mapped!Undefined, {"lowercase", "uppercase"}, "none")}
AllEntries == GoodEntries \cup BadEntries

TwoFields == <<"minute", "dayOfWeek">>
SmallSpecs == [f \in {"minute", "dayOfWeek"} |->
  [min |-> 0, max |-> 2, seven |-> IF f = "minute" THEN Crontab!Null ELSE 3]]
SmallParts(local) == [f \in {"minute", "dayOfWeek"} |->
  IF f = "minute" THEN local % 3 ELSE (local \div 3) % 3]

Marks == {Crontab!Star, Crontab!Empty, Crontab!Junk}
Segment(parts, step) == [parts |-> parts, step |-> step]
AllSegments ==
  {Segment(p, s) : p \in {<<a>> : a \in Marks \cup (0..3)}, s \in {Crontab!NoStep, 0, 2}}
    \cup {Segment(<<a, b>>, s) : a \in Marks \cup (0..3), b \in Marks \cup (0..3), s \in {Crontab!NoStep, 2}}
    \cup {Segment(<<0, 1, c>>, Crontab!NoStep) : c \in {Crontab!Junk, 2}}
FewSegments == {Segment(<<a>>, Crontab!NoStep) : a \in {Crontab!Star, Crontab!Junk, 3}} \cup {Segment(<<0, 2>>, 2)}

OneSegment == {<<seg>> : seg \in AllSegments}
TwoSegments == {<<a, b>> : a \in FewSegments, b \in {Segment(<<1>>, Crontab!NoStep), Segment(<<0, 3>>, Crontab!NoStep)}}
SmallTexts == [f \in {"minute", "dayOfWeek"} |->
  IF f = "minute" THEN OneSegment \cup TwoSegments
  ELSE {<<seg>> : seg \in AllSegments} \cap {<<Segment(<<Crontab!Star>>, Crontab!NoStep)>>, <<Segment(<<3>>, Crontab!NoStep)>>,
        <<Segment(<<1, 2>>, Crontab!NoStep)>>, <<Segment(<<0, 3>>, Crontab!NoStep)>>, <<Segment(<<0, 2>>, 2)>>}]

Minutes == 0..19
SmallZones == {[m \in Minutes |-> m], [m \in Minutes |-> IF m < 7 THEN m ELSE m + 2],
               [m \in Minutes |-> IF m < 7 THEN m + 2 ELSE m]}
SmallHosts == {[m \in Minutes |-> IF m < 5 THEN m ELSE m + 1], [m \in Minutes |-> IF m < 6 THEN m + 3 ELSE m]}

Value(type, n) == [type |-> type, finite |-> TRUE, value |-> n]
Junk(type) == [type |-> type, finite |-> FALSE, value |-> 0]

Sequence(v) == [f \in {"sequence"} |-> v]
UpdatedAt(v) == [f \in {"updatedAt"} |-> v]
Both(s, u) == [f \in Cursor!CursorFields |-> IF f = "sequence" THEN s ELSE u]

\* Numbers, numeric strings, an instant that runs against the sequence, and a
\* record without a readable key.
SequenceFeed == {Sequence(Value("number", 1)), Sequence(Value("string", 2)),
                 Both(Value("number", 3), Value("string", 1)), UpdatedAt(Junk("string"))}

\* Instants in their three forms, one next to a sequence that does not parse.
InstantFeed == {UpdatedAt(Value("number", 1)), UpdatedAt(Value("date", 2)),
                Both(Junk("string"), Value("string", 3)), Sequence(Value("other", 4))}

SmallFeeds == {SequenceFeed, InstantFeed}

(***************************************************************************)
(* A fourth part, for a property on liveness: the calls of AuthSession,    *)
(* whose own run uses symmetry.                                            *)
(***************************************************************************)
CONSTANTS Requests, MaxTokens, MaxFaults
VARIABLES issued, hashed, revoked, expired, stale, parent, session, req, faults

Session == INSTANCE AuthSession
sessionVars == <<issued, hashed, revoked, expired, stale, parent, session, req, faults>>

AllInit ==
  /\ Session!Init
  /\ Init \/ (part = "session" /\ NoTransform /\ NoCron /\ NoScan)
SessionStep(step) == part = "session" /\ step /\ UNCHANGED vars
AllNext ==
  \/ Next /\ UNCHANGED sessionVars
  \/ SessionStep(Session!Next)
AllSpec ==
  /\ AllInit /\ [][AllNext]_<<vars, sessionVars>>
  /\ \A r \in Requests : WF_<<vars, sessionVars>>(
       SessionStep(Session!ServerStep(r) \/ Session!ClientStep(r)))

\* lib/api.ts: every call ends, whatever its first answer and the refresh were.
CallsEnd == part = "session" => Session!CallsEnd
================================================================================
