------------------------------- MODULE Transform -------------------------------
(***************************************************************************)
(* Mappings and what they make of a record                                 *)
(* (apps/api/src/transformations: transformation-engine.service.ts and     *)
(* path-utils.ts).                                                         *)
(*                                                                         *)
(* A JSON value is a tree: a function from paths to leaves, in which the   *)
(* leaf Object stands at every path that has something below it; an array  *)
(* is a leaf.  The empty function is undefined.  A leaf keeps its type and *)
(* its text, what String() makes of it: that of an empty array is "", that *)
(* of an array of one string is that string.  The mapping is compiled      *)
(* entry by entry and the record is transformed field by field, in the     *)
(* order of Object.entries.                                                *)
(***************************************************************************)
EXTENDS Naturals, Sequences, SequencesExt

CONSTANTS
  Entries,     \* the entries of mappings: key, and value as a record
  Records,     \* the raw records
  MaxFields,   \* bound on the entries of a mapping
  Dangerous,   \* DANGEROUS_PATH_KEYS
  Blank,       \* the texts that trim to nothing, as segments and as values
  Numeric, Truthy, Falsy, DateLike  \* the texts that coercion reads as such

VARIABLES
  mapping,     \* the entries
  record,
  next,        \* the entry or field the loop is at
  fields,      \* the compiled fields
  invalid,     \* [key -> code] of compileMapping's errors, as pairs
  phase,       \* "compile", "transform", "done" or "rejected"
  normalized,  \* the tree written so far
  errors       \* the same of transformRecord's errors

vars == <<mapping, record, next, fields, invalid, phase, normalized, errors>>

Types == {"string", "number", "boolean", "date", "json"}
Undefined == <<>>        \* the function with an empty domain
Leaf(type, txt, done) == [p \in {<<>>} |-> [type |-> type, text |-> txt, done |-> done]]
ObjectLeaf == [type |-> "object", text |-> "object", done |-> {}]
EmptyObject == [p \in {<<>>} |-> ObjectLeaf]
Root(value) == value[<<>>]

(* path-utils. *)

SplitPath(path) == SelectSeq(path, LAMBDA segment : segment \notin Blank)

IsSafePath(path) ==
  /\ SplitPath(path) # <<>>
  /\ \A i \in DOMAIN SplitPath(path) : SplitPath(path)[i] \notin Dangerous

At(tree, at) == [q \in {SubSeq(p, Len(at) + 1, Len(p)) : p \in {p \in DOMAIN tree : IsPrefix(at, p)}}
                   |-> tree[at \o q]]
GetByPath(tree, path) == At(tree, SplitPath(path))

\* Leaves on the way become objects; whatever stood at the path is replaced.
PutAt(tree, at, value) ==
  [p \in {p \in DOMAIN tree : ~IsPrefix(at, p)} \cup {SubSeq(at, 1, n) : n \in 0..(Len(at) - 1)}
            \cup {at \o q : q \in DOMAIN value}
     |-> IF IsPrefix(at, p) THEN value[SubSeq(p, Len(at) + 1, Len(p))]
         ELSE IF IsPrefix(p, at) THEN ObjectLeaf ELSE tree[p]]
\* Only the last segment is used, for a mutant.
SetFlat(tree, path, value) == PutAt(tree, <<Last(SplitPath(path))>>, value)
SetByPath(tree, path, value) == PutAt(tree, SplitPath(path), value)

(* compileMapping. *)

\* The code of the first check that fails, in their order.  A definition without
\* a path, or with an empty one, has the path <<>>.
Problem(entry) ==
  LET unsafe == ~IsSafePath(entry.key) \/ (entry.path # <<>> /\ ~IsSafePath(entry.path)) IN
  CASE entry.kind = "other" -> "MAPPING_INVALID"
    [] entry.kind = "path" -> IF unsafe \/ entry.path = <<>> THEN "PATH_UNSAFE" ELSE "none"
    [] entry.kind = "object" ->
         IF entry.path = <<>> /\ entry.compute = "none" THEN "MAPPING_INVALID"
         ELSE IF unsafe THEN "PATH_UNSAFE"
         ELSE IF entry.type \notin Types THEN "UNSUPPORTED_TYPE"
         ELSE IF \/ entry.compute \notin {"none", "now", "uuid"}
                 \/ {"lowercase", "uppercase"} \subseteq entry.flags THEN "MAPPING_INVALID"
         ELSE "none"

\* "fields" that is no object is an error of its own, and has no entries.
Init ==
  /\ mapping \in UNION {[1..n -> Entries] : n \in 0..MaxFields}
  /\ \A i, j \in DOMAIN mapping : i # j => mapping[i].key # mapping[j].key
  /\ record \in Records
  /\ \/ invalid = {}
     \/ mapping = <<>> /\ invalid = {<<<<"fields">>, "MAPPING_INVALID">>}
  /\ next = 1 /\ fields = <<>> /\ phase = "compile"
  /\ normalized = EmptyObject
  /\ errors = {}

CompileEntry ==
  /\ phase = "compile" /\ next <= Len(mapping)
  /\ \/ /\ Problem(mapping[next]) # "none"
        /\ invalid' = invalid \cup {<<mapping[next].key, Problem(mapping[next])>>}
        /\ UNCHANGED fields
     \/ /\ Problem(mapping[next]) = "none"
        /\ fields' = Append(fields, mapping[next])
        /\ UNCHANGED invalid
  /\ next' = next + 1
  /\ UNCHANGED <<mapping, record, phase, normalized, errors>>

EndCompile ==
  /\ phase = "compile" /\ next > Len(mapping)
  /\ phase' = IF invalid = {} THEN "transform" ELSE "rejected"
  /\ next' = 1
  /\ UNCHANGED <<mapping, record, fields, invalid, normalized, errors>>

(* transformRecordWithCompiledMapping. *)

IsPresent(value) ==
  /\ value # Undefined
  /\ Root(value).type # "null"
  /\ ~(Root(value).type = "string" /\ Root(value).text \in Blank)
IsMissing(value) == ~IsPresent(value)

Computed(entry) == Leaf("string", IF entry.compute = "now" THEN "iso" ELSE "word", {})

ValueOf(entry) ==
  LET current == IF entry.compute # "none" THEN Computed(entry) ELSE GetByPath(record, entry.path)
  IN IF IsMissing(current) /\ entry.default # Undefined THEN entry.default ELSE current

AsText(value) == Root(value).text   \* String(value)
ToISOString(txt) == Leaf("string", "iso", {})

\* Undefined when the coercion fails.
CoerceValue(value, entry) ==
  LET type == Root(value).type
      txt == Root(value).text
      done == IF type = "string" THEN Root(value).done ELSE {}
  IN CASE entry.type = "json" -> value
       [] entry.type = "string" -> Leaf("string", AsText(value), done \cup entry.flags)
       [] entry.type = "number" ->
            IF type = "number" \/ (type = "string" /\ txt \in Numeric)
            THEN Leaf("number", txt, {}) ELSE Undefined
       [] entry.type = "boolean" ->
            IF type = "boolean" THEN value
            ELSE IF \/ type = "number" /\ txt = "one"
                    \/ type = "string" /\ txt \in Truthy THEN Leaf("boolean", "true", {})
            ELSE IF \/ type = "number" /\ txt = "zero"
                    \/ type = "string" /\ txt \in Falsy THEN Leaf("boolean", "false", {})
            ELSE Undefined
       [] entry.type = "date" ->
            IF AsText(value) \in DateLike THEN ToISOString(AsText(value)) ELSE Undefined

TransformField ==
  LET field == fields[next]
      value == ValueOf(field)
  IN
  /\ phase = "transform" /\ next <= Len(fields)
  /\ \/ /\ IsMissing(value)
        /\ errors' = errors \cup
             (IF field.required THEN {<<field.key, "REQUIRED_FIELD_MISSING">>} ELSE {})
        /\ UNCHANGED normalized
     \/ /\ ~IsMissing(value) /\ CoerceValue(value, field) = Undefined
        /\ errors' = errors \cup {<<field.key, "TYPE_COERCION_FAILED">>}
        /\ UNCHANGED normalized
     \/ /\ ~IsMissing(value) /\ CoerceValue(value, field) # Undefined
        /\ normalized' = SetByPath(normalized, field.key, CoerceValue(value, field))
        /\ UNCHANGED errors
  /\ next' = next + 1
  /\ UNCHANGED <<mapping, record, fields, invalid, phase>>

EndTransform ==
  /\ phase = "transform" /\ next > Len(fields)
  /\ phase' = "done"
  /\ UNCHANGED <<mapping, record, next, fields, invalid, normalized, errors>>

Next == CompileEntry \/ EndCompile \/ TransformField \/ EndTransform

Spec == Init /\ [][Next]_vars
-------------------------------------------------------------------------------
HasError(field) == \E e \in errors : e[1] = field.key
IsWritten(field) == ~HasError(field) /\ ~IsMissing(ValueOf(field))

\* Output paths are not checked against one another: of two of which one begins
\* with the other, the later field replaces the earlier one or is written into it.
Overlap(f, g) ==
  IsPrefix(SplitPath(f.key), SplitPath(g.key)) \/ IsPrefix(SplitPath(g.key), SplitPath(f.key))

\* Fields do not disturb one another but where they overlap, and there the later one
\* prevails: a field is in the output with the value its own source gives unless a
\* later one that overlaps it was written; a field that was not written, and which no
\* written field overlaps, is not there, and has an error when it is required.
FieldsAreIndependent ==
  phase = "done" =>
    \A i \in DOMAIN fields :
      LET written == GetByPath(normalized, fields[i].key)
          DisturbedBy(j) == IsWritten(fields[j]) /\ Overlap(fields[i], fields[j])
      IN /\ IsWritten(fields[i]) /\ (\A j \in DOMAIN fields : j > i => ~DisturbedBy(j))
              => written = CoerceValue(ValueOf(fields[i]), fields[i])
         /\ (\A j \in DOMAIN fields : ~DisturbedBy(j)) => written = Undefined
         /\ fields[i].required => IsWritten(fields[i]) \/ HasError(fields[i])
================================================================================
