----------------------------- MODULE ParsersProofs -----------------------------
(***************************************************************************)
(* Theorems of the modules about what others write, Transform (mappings),  *)
(* Cron (schedules) and CursorScan (records), each for every value of its  *)
(* constants.                                                              *)
(***************************************************************************)
EXTENDS Parsers, Integers, Sequences, FiniteSets, WellFoundedInduction, TLAPS

-------------------------------------------------------------------------------
(***************************************************************************)
(* Trees.  IsPrefix is the community modules', as Transform has it.        *)
(***************************************************************************)
IsPrefix(p, q) == Transform!IsPrefix(p, q)

LEMMA PrefixOfConcat ==
  ASSUME NEW S, NEW p \in Seq(S), NEW q \in Seq(S)
  PROVE  /\ p \o q \in Seq(S) /\ IsPrefix(p, p \o q)
         /\ SubSeq(p \o q, Len(p) + 1, Len(p \o q)) = q
BY DEF IsPrefix, Transform!IsPrefix

LEMMA PrefixRest ==
  ASSUME NEW S, NEW p \in Seq(S), NEW q \in Seq(S), IsPrefix(p, q)
  PROVE  /\ SubSeq(q, Len(p) + 1, Len(q)) \in Seq(S)
         /\ p \o SubSeq(q, Len(p) + 1, Len(q)) = q
BY DEF IsPrefix, Transform!IsPrefix

LEMMA PrefixTransitive ==
  ASSUME NEW S, NEW p \in Seq(S), NEW q \in Seq(S), NEW r \in Seq(S),
         IsPrefix(p, q), IsPrefix(q, r)
  PROVE  IsPrefix(p, r)
BY DEF IsPrefix, Transform!IsPrefix

LEMMA PrefixesCompare ==
  ASSUME NEW S, NEW p \in Seq(S), NEW q \in Seq(S), NEW r \in Seq(S),
         IsPrefix(p, r), IsPrefix(q, r)
  PROVE  IsPrefix(p, q) \/ IsPrefix(q, p)
BY DEF IsPrefix, Transform!IsPrefix

LEMMA PrefixCut ==
  ASSUME NEW S, NEW p \in Seq(S), NEW n \in 0..Len(p)
  PROVE  SubSeq(p, 1, n) \in Seq(S) /\ IsPrefix(SubSeq(p, 1, n), p)
BY DEF IsPrefix, Transform!IsPrefix

LEMMA ShorterIsNoExtension ==
  ASSUME NEW S, NEW p \in Seq(S), NEW n \in 0..(Len(p) - 1)
  PROVE  ~IsPrefix(p, SubSeq(p, 1, n))
BY DEF IsPrefix, Transform!IsPrefix

\* A function from paths: a value of the engine.
IsTree(value, S) ==
  DOMAIN value \subseteq Seq(S) /\ value = [q \in DOMAIN value |-> value[q]]

Below(tree, at) == {p \in DOMAIN tree : IsPrefix(at, p)}
RestOf(p, at) == SubSeq(p, Len(at) + 1, Len(p))

\* What At reads: below `at`, and nothing when there is nothing.
LEMMA AtDomain ==
  ASSUME NEW S, NEW tree, IsTree(tree, S), NEW at \in Seq(S)
  PROVE  /\ DOMAIN Transform!At(tree, at) = {RestOf(p, at) : p \in Below(tree, at)}
         /\ IsTree(Transform!At(tree, at), S)
         /\ \A q \in DOMAIN Transform!At(tree, at) :
              Transform!At(tree, at)[q] = tree[at \o q] /\ at \o q \in Below(tree, at)
<1>1. Transform!At(tree, at) = [q \in {RestOf(p, at) : p \in Below(tree, at)} |-> tree[at \o q]]
  BY DEF Transform!At, RestOf, Below, IsPrefix
<1>2. ASSUME NEW p \in Below(tree, at)
      PROVE  RestOf(p, at) \in Seq(S) /\ at \o RestOf(p, at) = p
  BY <1>2, PrefixRest DEF IsTree, Below, RestOf
<1> QED
  BY <1>1, <1>2 DEF IsTree

LEMMA AtNothing ==
  ASSUME NEW S, NEW tree, IsTree(tree, S), NEW at \in Seq(S), Below(tree, at) = {}
  PROVE  Transform!At(tree, at) = Transform!Undefined
<1>1. DOMAIN Transform!At(tree, at) = {} /\ IsTree(Transform!At(tree, at), S)
  BY AtDomain
<1> QED
  BY <1>1 DEF IsTree, Transform!Undefined

\* The paths of the tree that PutAt makes.
Written(tree, at, value) ==
  {p \in DOMAIN tree : ~IsPrefix(at, p)}
    \cup {SubSeq(at, 1, n) : n \in 0..(Len(at) - 1)} \cup {at \o q : q \in DOMAIN value}

LEMMA PutTree ==
  ASSUME NEW S, NEW tree, IsTree(tree, S), NEW at \in Seq(S), NEW value, IsTree(value, S)
  PROVE  /\ IsTree(Transform!PutAt(tree, at, value), S)
         /\ DOMAIN Transform!PutAt(tree, at, value) = Written(tree, at, value)
         /\ \A p \in Written(tree, at, value) :
              Transform!PutAt(tree, at, value)[p]
                = IF IsPrefix(at, p) THEN value[RestOf(p, at)]
                  ELSE IF IsPrefix(p, at) THEN Transform!ObjectLeaf ELSE tree[p]
<1>1. Transform!PutAt(tree, at, value)
        = [p \in Written(tree, at, value) |->
             IF IsPrefix(at, p) THEN value[RestOf(p, at)]
             ELSE IF IsPrefix(p, at) THEN Transform!ObjectLeaf ELSE tree[p]]
  BY DEF Transform!PutAt, RestOf, IsPrefix, Written
<1>2. Written(tree, at, value) \subseteq Seq(S)
  <2>1. \A n \in 0..(Len(at) - 1) : SubSeq(at, 1, n) \in Seq(S)
    BY PrefixCut
  <2>2. \A q \in DOMAIN value : at \o q \in Seq(S)
    BY PrefixOfConcat DEF IsTree
  <2> QED
    BY <2>1, <2>2 DEF IsTree, Written
<1> QED
  BY <1>1, <1>2 DEF IsTree

\* A value that is written is read back ...
LEMMA ReadsWritten ==
  ASSUME NEW S, NEW tree, IsTree(tree, S), NEW at \in Seq(S), NEW value, IsTree(value, S)
  PROVE  Transform!At(Transform!PutAt(tree, at, value), at) = value
<1> DEFINE put == Transform!PutAt(tree, at, value)
           got == Transform!At(put, at)
<1>1. /\ IsTree(put, S) /\ DOMAIN put = Written(tree, at, value)
      /\ \A p \in DOMAIN put : IsPrefix(at, p) => put[p] = value[RestOf(p, at)]
  BY PutTree
<1>2. /\ DOMAIN got = {RestOf(p, at) : p \in Below(put, at)}
      /\ IsTree(got, S)
      /\ \A q \in DOMAIN got : got[q] = put[at \o q] /\ at \o q \in Below(put, at)
  BY <1>1, AtDomain
<1> HIDE DEF put, got
<1>3. Below(put, at) = {at \o q : q \in DOMAIN value}
  <2>1. \A q \in DOMAIN value : IsPrefix(at, at \o q)
    BY PrefixOfConcat DEF IsTree
  <2>2. \A n \in 0..(Len(at) - 1) : ~IsPrefix(at, SubSeq(at, 1, n))
    BY ShorterIsNoExtension
  <2> QED
    BY <1>1, <2>1, <2>2 DEF Below, Written
<1>4. \A q \in DOMAIN value : RestOf(at \o q, at) = q
  BY PrefixOfConcat DEF IsTree, RestOf
<1>5. DOMAIN got = DOMAIN value
  <2>1. ASSUME NEW q \in DOMAIN value PROVE q \in DOMAIN got
    <3>1. at \o q \in Below(put, at) /\ RestOf(at \o q, at) = q
      BY <1>3, <1>4
    <3> QED
      BY <1>2, <3>1
  <2>2. ASSUME NEW q \in DOMAIN got PROVE q \in DOMAIN value
    <3>1. PICK p \in Below(put, at) : q = RestOf(p, at)
      BY <1>2
    <3>2. PICK v \in DOMAIN value : p = at \o v
      BY <1>3
    <3> QED
      BY <1>4, <3>1, <3>2
  <2> QED
    BY <2>1, <2>2
<1>6. \A q \in DOMAIN value : got[q] = value[q]
  BY <1>1, <1>2, <1>4, <1>5 DEF Below
<1> QED
  BY <1>2, <1>5, <1>6 DEF IsTree, put, got

\* ... and nothing else of the tree changes, unless one path begins with the other.
LEMMA ReadsOthers ==
  ASSUME NEW S, NEW tree, IsTree(tree, S), NEW at \in Seq(S), NEW value, IsTree(value, S),
         NEW other \in Seq(S), ~IsPrefix(at, other), ~IsPrefix(other, at)
  PROVE  Transform!At(Transform!PutAt(tree, at, value), other) = Transform!At(tree, other)
<1> DEFINE put == Transform!PutAt(tree, at, value)
<1>1. /\ IsTree(put, S) /\ DOMAIN put = Written(tree, at, value)
      /\ \A p \in DOMAIN put : ~IsPrefix(at, p) /\ ~IsPrefix(p, at) => put[p] = tree[p]
  BY PutTree
<1> HIDE DEF put
<1>2. ASSUME NEW p \in Seq(S), IsPrefix(other, p) PROVE ~IsPrefix(at, p) /\ ~IsPrefix(p, at)
  BY <1>2, PrefixesCompare, PrefixTransitive
<1>3. Below(put, other) = Below(tree, other)
  <2>1. ASSUME NEW n \in 0..(Len(at) - 1) PROVE ~IsPrefix(other, SubSeq(at, 1, n))
    <3>1. n \in 0..Len(at)
      OBVIOUS
    <3>2. SubSeq(at, 1, n) \in Seq(S) /\ IsPrefix(SubSeq(at, 1, n), at)
      BY <3>1, PrefixCut
    <3> QED
      BY <1>2, <3>2
  <2>2. \A q \in DOMAIN value : ~IsPrefix(other, at \o q)
    BY <1>2, PrefixOfConcat DEF IsTree
  <2>3. \A p \in DOMAIN tree : IsPrefix(other, p) => ~IsPrefix(at, p)
    BY <1>2 DEF IsTree
  <2> QED
    BY <1>1, <2>1, <2>2, <2>3 DEF Below, Written
<1>4. \A p \in Below(tree, other) : put[p] = tree[p]
  BY <1>1, <1>2, <1>3 DEF Below, IsTree
<1> DEFINE new == Transform!At(put, other)
           old == Transform!At(tree, other)
<1>5. /\ DOMAIN new = {RestOf(p, other) : p \in Below(put, other)}
      /\ IsTree(new, S)
      /\ \A q \in DOMAIN new : new[q] = put[other \o q] /\ other \o q \in Below(put, other)
  BY <1>1, AtDomain
<1>6. /\ DOMAIN old = {RestOf(p, other) : p \in Below(tree, other)}
      /\ IsTree(old, S)
      /\ \A q \in DOMAIN old : old[q] = tree[other \o q] /\ other \o q \in Below(tree, other)
  BY AtDomain
<1> HIDE DEF new, old
<1>7. DOMAIN new = DOMAIN old
  BY <1>3, <1>5, <1>6
<1>8. \A q \in DOMAIN old : new[q] = old[q]
  BY <1>4, <1>5, <1>6, <1>7
<1>9. new = old
  BY <1>5, <1>6, <1>7, <1>8 DEF IsTree
<1> QED
  BY <1>9 DEF put, new, old
-------------------------------------------------------------------------------
(***************************************************************************)
(* Transform: the compilation of a mapping.  S holds the segments.         *)
(***************************************************************************)
MappingsAssumption(S) ==
  /\ MaxFields \in Nat
  /\ \A entry \in Entries :
       /\ entry.kind \in {"other", "path", "object"}
       /\ entry.kind = "path" => entry.type \in Transform!Types
       /\ Transform!SplitPath(entry.key) \in Seq(S)
       /\ Transform!SplitPath(entry.path) \in Seq(S)
       /\ IsTree(entry.default, S)
  /\ \A r \in Records : IsTree(r, S)

GoodEntries == {entry \in Entries : Transform!Problem(entry) = "none"}

\* The compiled fields are entries of the mapping, each once, and an object has
\* each key once.
CompileInv ==
  /\ mapping \in Seq(Entries) /\ record \in Records
  /\ next \in Nat \ {0}
  /\ phase \in {"compile", "transform", "done", "rejected"}
  /\ fields \in Seq(GoodEntries)
  /\ \A i, j \in DOMAIN mapping : i # j => mapping[i].key # mapping[j].key
  /\ phase = "compile" =>
       \A i \in DOMAIN fields : \E k \in DOMAIN mapping : k < next /\ fields[i] = mapping[k]
  /\ \A i, j \in DOMAIN fields : i # j => fields[i].key # fields[j].key

LEMMA CompileInit == ASSUME MaxFields \in Nat PROVE Transform!Init => CompileInv
<1> SUFFICES ASSUME Transform!Init PROVE CompileInv
  OBVIOUS
<1>1. mapping \in Seq(Entries)
  <2>1. PICK n \in 0..MaxFields : mapping \in [1..n -> Entries]
    BY DEF Transform!Init
  <2> QED
    BY <2>1
<1> QED
  BY <1>1 DEF Transform!Init, CompileInv

LEMMA CompileStep == CompileInv /\ [Transform!Next]_(Transform!vars) => CompileInv'
<1> SUFFICES ASSUME CompileInv, [Transform!Next]_(Transform!vars) PROVE CompileInv'
  OBVIOUS
<1>1. ASSUME Transform!CompileEntry PROVE CompileInv'
  <2>1. /\ phase = "compile" /\ next \in DOMAIN mapping /\ next' = next + 1
        /\ UNCHANGED <<mapping, record, phase>>
        /\ mapping[next] \in Entries
    BY <1>1 DEF Transform!CompileEntry, CompileInv
  <2>2. CASE fields' = fields
    BY <2>1, <2>2 DEF CompileInv
  <2>3. CASE fields' # fields
    <3>1. fields' = Append(fields, mapping[next]) /\ mapping[next] \in GoodEntries
      BY <1>1, <2>1, <2>3 DEF Transform!CompileEntry, GoodEntries
    <3>2. /\ fields' \in Seq(GoodEntries) /\ Len(fields') = Len(fields) + 1
          /\ DOMAIN fields' = 1..(Len(fields) + 1) /\ DOMAIN fields = 1..Len(fields)
          /\ fields'[Len(fields) + 1] = mapping[next]
          /\ \A i \in DOMAIN fields : fields'[i] = fields[i]
      BY <3>1 DEF CompileInv
    <3>3. \A i \in DOMAIN fields : fields[i].key # mapping[next].key
      <4>1. ASSUME NEW i \in DOMAIN fields PROVE fields[i].key # mapping[next].key
        <5>1. PICK k \in DOMAIN mapping : k < next /\ fields[i] = mapping[k]
          BY <2>1 DEF CompileInv
        <5> QED
          BY <2>1, <5>1 DEF CompileInv
      <4> QED
        BY <4>1
    <3>4. \A i, j \in DOMAIN fields' : i # j => fields'[i].key # fields'[j].key
      <4>1. ASSUME NEW i \in DOMAIN fields', NEW j \in DOMAIN fields', i # j
            PROVE  fields'[i].key # fields'[j].key
        <5>1. i \in DOMAIN fields \/ i = Len(fields) + 1
          BY <3>2
        <5>2. j \in DOMAIN fields \/ j = Len(fields) + 1
          BY <3>2
        <5> QED
          BY <3>2, <3>3, <4>1, <5>1, <5>2 DEF CompileInv
      <4> QED
        BY <4>1
    <3>5. \A i \in DOMAIN fields' : \E k \in DOMAIN mapping : k < next + 1 /\ fields'[i] = mapping[k]
      <4>1. ASSUME NEW i \in DOMAIN fields
            PROVE  \E k \in DOMAIN mapping : k < next + 1 /\ fields'[i] = mapping[k]
        <5>1. PICK k \in DOMAIN mapping : k < next /\ fields[i] = mapping[k]
          BY <2>1 DEF CompileInv
        <5>2. k < next + 1 /\ fields'[i] = mapping[k]
          BY <2>1, <3>2, <5>1 DEF CompileInv
        <5> QED
          BY <5>2
      <4>2. next < next + 1
        BY DEF CompileInv
      <4> QED
        BY <2>1, <3>2, <4>1, <4>2
    <3> QED
      BY <2>1, <3>2, <3>4, <3>5 DEF CompileInv
  <2> QED
    BY <2>2, <2>3
<1>2. ASSUME Transform!EndCompile PROVE CompileInv'
  <2>1. /\ next' = 1 /\ phase' \in {"transform", "rejected"}
        /\ UNCHANGED <<mapping, record, fields>>
    BY <1>2 DEF Transform!EndCompile
  <2> QED
    BY <2>1 DEF CompileInv
<1>3. ASSUME Transform!TransformField \/ Transform!EndTransform \/ UNCHANGED Transform!vars
      PROVE  CompileInv'
  <2>1. /\ UNCHANGED <<mapping, record, fields>>
        /\ next' \in {next, next + 1}
        /\ \/ phase' = phase /\ (phase = "compile" => next' = next)
           \/ phase = "transform" /\ phase' = "done"
    BY <1>3 DEF Transform!TransformField, Transform!EndTransform, Transform!vars
  <2> QED
    BY <2>1 DEF CompileInv
<1> QED
  BY <1>1, <1>2, <1>3 DEF Transform!Next

-------------------------------------------------------------------------------
(***************************************************************************)
(* Transform: the fields.  What is at a field's path is what the last      *)
(* written field that overlaps it has left there.                          *)
(***************************************************************************)
At(field) == Transform!SplitPath(field.key)

\* Field j was written at or over the path of field i.
Disturbs(j, i) == Transform!IsWritten(fields[j]) /\ Transform!Overlap(fields[i], fields[j])

\* A written field keeps its value until a later one disturbs it ...
Kept(i) ==
  Transform!IsWritten(fields[i]) /\ (\A j \in DOMAIN fields : i < j /\ j < next => ~Disturbs(j, i))
    => Transform!GetByPath(normalized, fields[i].key)
         = Transform!CoerceValue(Transform!ValueOf(fields[i]), fields[i])

\* ... and nothing is where no field was written.
Clear(i) ==
  (\A j \in DOMAIN fields : j < next => ~Disturbs(j, i))
    => Transform!GetByPath(normalized, fields[i].key) = Transform!Undefined

FieldsInv(S) ==
  /\ IsTree(normalized, S)
  /\ phase = "compile" => normalized = Transform!EmptyObject /\ errors = {}
  /\ phase = "done" => next > Len(fields)
  /\ phase \in {"transform", "done"} =>
       \A i \in DOMAIN fields :
         /\ Clear(i)
         /\ i < next => /\ Kept(i)
                        /\ fields[i].required =>
                             Transform!IsWritten(fields[i]) \/ Transform!HasError(fields[i])
         /\ i >= next => ~Transform!HasError(fields[i])

\* Leaves and trees.
LEMMA LeafTree ==
  ASSUME NEW S, NEW type, NEW txt, NEW done
  PROVE  /\ IsTree(Transform!Leaf(type, txt, done), S)
         /\ Transform!Root(Transform!Leaf(type, txt, done))
              = [type |-> type, text |-> txt, done |-> done]
<1>1. <<>> \in Seq(S)
  OBVIOUS
<1> QED
  BY <1>1 DEF IsTree, Transform!Leaf, Transform!Root

LEMMA EmptyObjectTree ==
  ASSUME NEW S
  PROVE  /\ IsTree(Transform!EmptyObject, S)
         /\ \A at \in Seq(S) : at # <<>> =>
              Transform!At(Transform!EmptyObject, at) = Transform!Undefined
<1>1. <<>> \in Seq(S) /\ DOMAIN Transform!EmptyObject = {<<>>}
  BY DEF Transform!EmptyObject
<1>2. IsTree(Transform!EmptyObject, S)
  BY <1>1 DEF IsTree, Transform!EmptyObject
<1>3. ASSUME NEW at \in Seq(S), at # <<>>
      PROVE  Below(Transform!EmptyObject, at) = {}
  <2>1. ~IsPrefix(at, <<>>)
    BY <1>3 DEF IsPrefix, Transform!IsPrefix
  <2> QED
    BY <1>1, <2>1 DEF Below
<1> QED
  BY <1>2, <1>3, AtNothing

\* What a field finds in the record, and what coercion makes of it, are trees.
LEMMA ValueTree ==
  ASSUME NEW S, MappingsAssumption(S), record \in Records, NEW field \in GoodEntries
  PROVE  IsTree(Transform!ValueOf(field), S)
<1>1. /\ IsTree(record, S) /\ Transform!SplitPath(field.path) \in Seq(S)
      /\ IsTree(field.default, S)
  BY DEF MappingsAssumption, GoodEntries
<1>2. IsTree(Transform!Computed(field), S)
  BY LeafTree DEF Transform!Computed
<1>3. IsTree(Transform!GetByPath(record, field.path), S)
  BY <1>1, AtDomain DEF Transform!GetByPath
<1> QED
  BY <1>1, <1>2, <1>3 DEF Transform!ValueOf

LEMMA UndefinedTree == ASSUME NEW S PROVE IsTree(Transform!Undefined, S)
BY DEF IsTree, Transform!Undefined

LEMMA FieldType ==
  ASSUME NEW S, MappingsAssumption(S), NEW field \in GoodEntries
  PROVE  /\ field.type \in Transform!Types
         /\ At(field) \in Seq(S) /\ At(field) # <<>>
<1>1. /\ field.kind \in {"other", "path", "object"} /\ Transform!Problem(field) = "none"
      /\ At(field) \in Seq(S)
      /\ field.kind = "path" => field.type \in Transform!Types
  BY DEF MappingsAssumption, GoodEntries, At
<1>2. /\ Transform!IsSafePath(field.key)
      /\ field.kind = "object" => field.type \in Transform!Types
  BY <1>1 DEF Transform!Problem
<1> QED
  BY <1>1, <1>2 DEF Transform!Problem, Transform!IsSafePath, At

LEMMA CoercedTree ==
  ASSUME NEW S, MappingsAssumption(S), NEW field \in GoodEntries,
         NEW value, IsTree(value, S)
  PROVE  IsTree(Transform!CoerceValue(value, field), S)
<1>1. field.type \in {"string", "number", "boolean", "date", "json"}
  BY FieldType DEF Transform!Types
<1>2. CASE field.type = "json"
  BY <1>2 DEF Transform!CoerceValue
<1>3. CASE field.type = "string"
  BY <1>3, LeafTree DEF Transform!CoerceValue
<1>4. CASE field.type = "number"
  BY <1>4, LeafTree, UndefinedTree DEF Transform!CoerceValue
<1>5. CASE field.type = "boolean"
  BY <1>5, LeafTree, UndefinedTree DEF Transform!CoerceValue
<1>6. CASE field.type = "date"
  BY <1>6, LeafTree, UndefinedTree DEF Transform!CoerceValue, Transform!ToISOString
<1> QED
  BY <1>1, <1>2, <1>3, <1>4, <1>5, <1>6

LEMMA FieldsInit == ASSUME NEW S PROVE Transform!Init => FieldsInv(S)
BY EmptyObjectTree DEF Transform!Init, FieldsInv

LEMMA FieldsStep ==
  ASSUME NEW S, MappingsAssumption(S)
  PROVE  CompileInv /\ FieldsInv(S) /\ [Transform!Next]_(Transform!vars) => FieldsInv(S)'
<1> SUFFICES ASSUME CompileInv, FieldsInv(S), [Transform!Next]_(Transform!vars)
             PROVE  FieldsInv(S)'
  OBVIOUS
<1>0. \A i \in DOMAIN fields :
        fields[i] \in GoodEntries /\ i \in Nat \ {0} /\ At(fields[i]) \in Seq(S) /\ At(fields[i]) # <<>>
  BY FieldType DEF CompileInv
<1>1. ASSUME Transform!CompileEntry PROVE FieldsInv(S)'
  BY <1>1 DEF Transform!CompileEntry, FieldsInv
<1>2. ASSUME Transform!EndCompile PROVE FieldsInv(S)'
  <2>1. /\ normalized = Transform!EmptyObject /\ errors = {} /\ next' = 1
        /\ UNCHANGED <<fields, normalized, errors>> /\ phase' \in {"transform", "rejected"}
    BY <1>2 DEF Transform!EndCompile, FieldsInv
  <2>2. ASSUME NEW i \in DOMAIN fields
        PROVE  Clear(i)' /\ i >= 1 /\ ~Transform!HasError(fields[i])'
    <3>1. Transform!At(Transform!EmptyObject, At(fields[i])) = Transform!Undefined
      BY <1>0, EmptyObjectTree
    <3> QED
      BY <1>0, <2>1, <3>1 DEF Clear, Transform!HasError, Transform!GetByPath, At
  <2>3. \A i \in DOMAIN fields : ~(i < 1)
    BY <1>0
  <2> QED
    BY <2>1, <2>2, <2>3 DEF FieldsInv
<1>3. ASSUME Transform!TransformField PROVE FieldsInv(S)'
  <2>0. PICK n, field : n = next /\ field = fields[n]
    OBVIOUS
  <2> DEFINE value == Transform!ValueOf(field)
             coerced == Transform!CoerceValue(value, field)
  <2>1. /\ phase = "transform" /\ phase' = "transform" /\ next' = next + 1
        /\ n \in DOMAIN fields /\ field \in GoodEntries /\ n = next /\ field = fields[n]
        /\ UNCHANGED <<mapping, record, fields>>
    BY <1>3, <1>0, <2>0 DEF Transform!TransformField, CompileInv
  <2>2. At(field) \in Seq(S) /\ IsTree(value, S) /\ IsTree(coerced, S)
    BY <1>0, <2>1, ValueTree, CoercedTree DEF CompileInv
  <2>3. \/ /\ Transform!IsMissing(value)
           /\ errors' = errors \cup
                (IF field.required THEN {<<field.key, "REQUIRED_FIELD_MISSING">>} ELSE {})
           /\ normalized' = normalized
        \/ /\ ~Transform!IsMissing(value) /\ coerced = Transform!Undefined
           /\ errors' = errors \cup {<<field.key, "TYPE_COERCION_FAILED">>}
           /\ normalized' = normalized
        \/ /\ ~Transform!IsMissing(value) /\ coerced # Transform!Undefined
           /\ normalized' = Transform!PutAt(normalized, At(field), coerced)
           /\ errors' = errors
    BY <1>3, <2>0 DEF Transform!TransformField, Transform!SetByPath, At
  <2>4. ~Transform!HasError(field)
    BY <2>1 DEF FieldsInv, CompileInv
  <2>5. \A i \in DOMAIN fields : Transform!ValueOf(fields[i])' = Transform!ValueOf(fields[i])
    BY <2>1 DEF Transform!ValueOf, Transform!Computed
  <2> HIDE DEF value, coerced
  <2>6. IsTree(normalized', S)
    BY <2>2, <2>3, PutTree DEF FieldsInv
  <2>7. ASSUME NEW i \in DOMAIN fields, i # n
        PROVE  /\ Transform!HasError(fields[i])' <=> Transform!HasError(fields[i])
               /\ Transform!IsWritten(fields[i])' <=> Transform!IsWritten(fields[i])
    <3>1. fields[i].key # field.key
      BY <2>1, <2>7 DEF CompileInv
    <3>2. Transform!HasError(fields[i])' <=> Transform!HasError(fields[i])
      BY <2>1, <2>3, <3>1 DEF Transform!HasError
    <3> QED
      BY <2>1, <2>5, <3>2 DEF Transform!IsWritten
  <2>8. \A j, i \in DOMAIN fields : j < next => (Disturbs(j, i)' <=> Disturbs(j, i))
    <3>1. \A j \in DOMAIN fields : j < next => j # n
      BY <1>0, <2>0
    <3> QED
      BY <2>1, <2>7, <3>1 DEF Disturbs, Transform!Overlap
  <2>9. /\ \A j \in DOMAIN fields : j < next' <=> j < next \/ j = n
        /\ \A j \in DOMAIN fields : j >= next' => j >= next /\ j # n
    BY <1>0, <2>1 DEF CompileInv
  <2>10. ASSUME normalized' = normalized, ~Transform!IsWritten(field)'
         PROVE  \A i \in DOMAIN fields : Clear(i)' /\ (i < next' => Kept(i)')
    <3>1. ASSUME NEW i \in DOMAIN fields PROVE Clear(i)'
      BY <2>1, <2>8, <2>9, <2>10 DEF Clear, FieldsInv, Transform!GetByPath
    <3>2. ASSUME NEW i \in DOMAIN fields, i < next' PROVE Kept(i)'
      <4>1. CASE i = n
        BY <2>1, <2>10, <4>1 DEF Kept
      <4>2. CASE i < next
        <5>1. i # n /\ Kept(i)
          BY <1>0, <2>1, <4>2 DEF FieldsInv
        <5> QED
          BY <2>1, <2>5, <2>7, <2>8, <2>9, <2>10, <5>1 DEF Kept, Transform!GetByPath
      <4> QED
        BY <2>9, <3>2, <4>1, <4>2
    <3> QED
      BY <2>1, <3>1, <3>2
  <2>11. ASSUME normalized' = Transform!PutAt(normalized, At(field), coerced),
                Transform!IsWritten(field)'
         PROVE  \A i \in DOMAIN fields : Clear(i)' /\ (i < next' => Kept(i)')
    <3>1. ASSUME NEW i \in DOMAIN fields, ~Disturbs(n, i)'
          PROVE  /\ i # n
                 /\ Transform!GetByPath(normalized, fields[i].key)'
                      = Transform!GetByPath(normalized, fields[i].key)
      <4>1. ~IsPrefix(At(fields[i]), At(field)) /\ ~IsPrefix(At(field), At(fields[i]))
        BY <2>1, <2>11, <3>1 DEF Disturbs, Transform!Overlap, IsPrefix, At
      <4>2. IsPrefix(At(field), At(field))
        BY <2>2 DEF IsPrefix, Transform!IsPrefix
      <4>3. Transform!At(normalized', At(fields[i])) = Transform!At(normalized, At(fields[i]))
        BY <1>0, <2>2, <2>11, <4>1, ReadsOthers DEF FieldsInv
      <4> QED
        BY <2>1, <4>1, <4>2, <4>3 DEF Transform!GetByPath, At
    <3>2. ASSUME NEW i \in DOMAIN fields PROVE Clear(i)'
      <4>1. SUFFICES ASSUME \A j \in DOMAIN fields : j < next' => ~Disturbs(j, i)'
                     PROVE  Transform!GetByPath(normalized, fields[i].key)' = Transform!Undefined
        BY <2>1 DEF Clear
      <4>2. ~Disturbs(n, i)'
        BY <2>1, <2>9, <4>1
      <4> QED
        BY <2>1, <2>8, <2>9, <3>1, <4>1, <4>2 DEF Clear, FieldsInv
    <3>3. ASSUME NEW i \in DOMAIN fields, i < next' PROVE Kept(i)'
      <4>1. CASE i = n
        <5>1. Transform!At(normalized', At(field)) = coerced
          BY <2>2, <2>11, ReadsWritten DEF FieldsInv
        <5>2. coerced = Transform!CoerceValue(Transform!ValueOf(field)', field)
          BY <2>1, <2>5 DEF coerced, value
        <5> QED
          BY <2>1, <4>1, <5>1, <5>2 DEF Kept, Transform!GetByPath, At
      <4>2. CASE i < next
        <5>1. i # n /\ Kept(i)
          BY <1>0, <2>1, <4>2 DEF FieldsInv
        <5>2. SUFFICES ASSUME Transform!IsWritten(fields[i])',
                              \A j \in DOMAIN fields : i < j /\ j < next' => ~Disturbs(j, i)'
                       PROVE  Transform!GetByPath(normalized, fields[i].key)'
                                = Transform!CoerceValue(Transform!ValueOf(fields[i]), fields[i])
          BY <2>1, <2>5 DEF Kept
        <5>3. ~Disturbs(n, i)'
          BY <2>1, <2>9, <4>2, <5>2
        <5> QED
          BY <2>7, <2>8, <2>9, <3>1, <5>1, <5>2, <5>3 DEF Kept
      <4> QED
        BY <2>9, <3>3, <4>1, <4>2
    <3> QED
      BY <2>1, <3>2, <3>3
  <2>12. \/ normalized' = normalized /\ ~Transform!IsWritten(field)'
         \/ /\ normalized' = Transform!PutAt(normalized, At(field), coerced)
            /\ Transform!IsWritten(field)'
    <3>1. \A code : <<field.key, code>>[1] = field.key
      OBVIOUS
    <3>2. Transform!ValueOf(field)' = value
      BY <2>1, <2>5 DEF value
    <3> QED
      BY <2>3, <2>4, <3>1, <3>2 DEF Transform!IsWritten, Transform!HasError
  <2>13. \A i \in DOMAIN fields : Clear(i)' /\ (i < next' => Kept(i)')
    BY <2>10, <2>11, <2>12
  <2>14. ASSUME NEW i \in DOMAIN fields
         PROVE  /\ i < next' /\ fields[i].required =>
                     Transform!IsWritten(fields[i])' \/ Transform!HasError(fields[i])'
                /\ i >= next' => ~Transform!HasError(fields[i])'
    <3>1. CASE i = n
      <4>1. ~(i >= next')
        BY <2>1, <2>9, <3>1
      <4>2. \A code : <<field.key, code>>[1] = field.key
        OBVIOUS
      <4>3. Transform!ValueOf(field)' = value
        BY <2>1, <2>5 DEF value
      <4>4. field.required => Transform!IsWritten(field)' \/ Transform!HasError(field)'
        BY <2>3, <4>2, <4>3 DEF Transform!IsWritten, Transform!HasError
      <4> QED
        BY <2>1, <3>1, <4>1, <4>4
    <3>2. CASE i # n
      BY <2>1, <2>7, <2>9, <3>2 DEF FieldsInv
    <3> QED
      BY <3>1, <3>2
  <2> QED
    BY <2>1, <2>6, <2>13, <2>14 DEF FieldsInv
<1>4. ASSUME Transform!EndTransform \/ UNCHANGED Transform!vars PROVE FieldsInv(S)'
  <2>1. /\ UNCHANGED <<mapping, record, next, fields, normalized, errors>>
        /\ \/ phase' = phase
           \/ phase = "transform" /\ phase' = "done" /\ next > Len(fields)
    BY <1>4 DEF Transform!EndTransform, Transform!vars
  <2>2. ASSUME NEW i \in DOMAIN fields
        PROVE  /\ Clear(i)' <=> Clear(i)
               /\ Kept(i)' <=> Kept(i)
               /\ Transform!IsWritten(fields[i])' <=> Transform!IsWritten(fields[i])
               /\ Transform!HasError(fields[i])' <=> Transform!HasError(fields[i])
    BY <2>1 DEF Clear, Kept, Disturbs, Transform!IsWritten, Transform!Overlap, Transform!HasError,
       Transform!GetByPath, Transform!ValueOf, Transform!Computed
  <2> QED
    BY <2>1, <2>2 DEF FieldsInv
<1> QED
  BY <1>1, <1>2, <1>3, <1>4 DEF Transform!Next

LEMMA FieldsInvariant ==
  ASSUME NEW S, MappingsAssumption(S)
  PROVE  Transform!Spec => [](CompileInv /\ FieldsInv(S))
<1>1. MaxFields \in Nat
  BY DEF MappingsAssumption
<1>2. Transform!Init => CompileInv /\ FieldsInv(S)
  BY <1>1, CompileInit, FieldsInit
<1>3. CompileInv /\ FieldsInv(S) /\ [Transform!Next]_(Transform!vars)
        => (CompileInv /\ FieldsInv(S))'
  BY CompileStep, FieldsStep
<1> QED
  BY <1>2, <1>3, PTL DEF Transform!Spec

\* Whatever the mapping and the record, and whichever output paths overlap, a
\* transformed record has at each field's path what the last written field there
\* has left, and a required field is in it or has an error.
LEMMA FieldsSettled ==
  ASSUME NEW S, MappingsAssumption(S)
  PROVE  Transform!Spec => []Transform!FieldsAreIndependent
<1>1. ASSUME CompileInv, FieldsInv(S) PROVE Transform!FieldsAreIndependent
  <2>1. \A i \in DOMAIN fields : phase = "done" => i < next
    BY <1>1 DEF CompileInv, FieldsInv
  <2> QED
    BY <1>1, <2>1 DEF FieldsInv, Clear, Kept, Disturbs, Transform!FieldsAreIndependent
<1> QED
  BY <1>1, FieldsInvariant, PTL

-------------------------------------------------------------------------------
(***************************************************************************)
(* Cron: a segment means what the reference says.                          *)
(***************************************************************************)
SegmentType ==
  {seg \in [parts : Seq(Int), step : Int] : seg.parts # <<>>}

\* Each field's range starts at 0 or above, and the number that stands for 0 is
\* beyond it (7 for the days of the week) or none at all.
SpecOK(spec) ==
  /\ spec.min \in Nat /\ spec.max \in Nat /\ spec.min <= spec.max
  /\ spec.seven \in Int /\ spec.seven \notin 0..spec.max

CronAssumption ==
  /\ Fields \in Seq(Cron!Names) /\ Fields # <<>>
  /\ \A i, j \in DOMAIN Fields : Fields[i] = Fields[j] => i = j
  /\ \A f \in Cron!Names :
       SpecOK(FieldSpecs[f]) /\ Texts[f] \subseteq Seq(SegmentType) \ {<<>>}

\* Division with a symbolic divisor.
LEMMA StepsOf ==
  ASSUME NEW a \in Nat, NEW step \in Nat \ {0}
  PROVE  a % step = 0 <=> \E n \in 0..a : a = n * step
<1>1. /\ a = step * (a \div step) + (a % step) /\ a % step \in 0..(step - 1)
      /\ a \div step \in Int
  OBVIOUS
<1>2. ASSUME a % step = 0 PROVE \E n \in 0..a : a = n * step
  <2> DEFINE n == a \div step
  <2>1. n \in Int /\ a = step * n
    BY <1>1, <1>2
  <2> HIDE DEF n
  <2>2. n >= 0 /\ n <= a
    BY <2>1
  <2> QED
    BY <2>1, <2>2
<1>3. ASSUME NEW n \in 0..a, a = n * step PROVE a % step = 0
  <2> DEFINE q == a \div step
             m == a % step
  <2>1. /\ q \in Int /\ m \in 0..(step - 1) /\ n * step = step * q + m
    BY <1>1, <1>3
  <2> HIDE DEF q, m
  <2>2. step * (n - q) = m
    BY <2>1
  <2>3. n - q = 0
    <3> DEFINE d == n - q
    <3>1. d \in Int /\ step * d = m /\ m < step /\ m >= 0
      BY <2>1, <2>2
    <3> HIDE DEF d
    <3>2. ~(d >= 1)
      BY <3>1
    <3>3. ~(d <= -1)
      BY <3>1
    <3> QED
      BY <3>1, <3>2, <3>3 DEF d
  <2>4. m = 0
    BY <2>1, <2>2, <2>3
  <2> QED
    BY <2>4 DEF m
<1> QED
  BY <1>2, <1>3

LEMMA QuotientOf ==
  ASSUME NEW n \in Nat, NEW step \in Nat \ {0}, NEW late \in 0..(step - 1)
  PROVE  (n * step + late) \in Nat /\ (n * step + late) \div step = n
<1> DEFINE a == n * step + late
           q == a \div step
           m == a % step
<1>1. a \in Nat
  OBVIOUS
<1>2. q \in Int /\ m \in 0..(step - 1) /\ a = step * q + m
  BY <1>1
<1>3. step * (n - q) = m - late
  <2> HIDE DEF q, m
  <2> QED
    BY <1>2
<1> DEFINE d == n - q
<1>4. d \in Int /\ step * d = m - late /\ m - late < step /\ m - late > -step
  <2> HIDE DEF q, m
  <2> QED
    BY <1>2, <1>3
<1>5. d = 0
  <2> HIDE DEF d, q, m
  <2>1. ~(d >= 1)
    BY <1>2, <1>4
  <2>2. ~(d <= -1)
    BY <1>2, <1>4
  <2> QED
    BY <1>4, <2>1, <2>2
<1>6. q = n
  <2> HIDE DEF q, m
  <2> QED
    BY <1>2, <1>5
<1> QED
  BY <1>1, <1>6

\* The steps of a range, by remainder as in the code and by counting.
LEMMA RangeSteps ==
  ASSUME NEW first \in Nat, NEW last \in Nat, first <= last, NEW step \in Nat \ {0},
         NEW spec, SpecOK(spec), last <= spec.max
  PROVE  /\ Cron!AddRange(first, last, step)
              = Cron!Days({v \in first..last : \E n \in 0..last : v = first + n * step}, spec)
         /\ Cron!AddRange(first, last, step) # {}
<1> DEFINE counted == {v \in first..last : \E n \in 0..last : v = first + n * step}
<1>1. ASSUME NEW v \in first..last
      PROVE  (v - first) % step = 0 <=> \E n \in 0..last : v = first + n * step
  <2> DEFINE a == v - first
  <2>1. a \in Nat /\ a <= last
    OBVIOUS
  <2>2. a % step = 0 <=> \E n \in 0..a : a = n * step
    BY <2>1, StepsOf
  <2> HIDE DEF a
  <2>3. ASSUME NEW n \in 0..last, a = n * step PROVE n \in 0..a
    BY <2>1, <2>3
  <2>4. (\E n \in 0..a : a = n * step) <=> (\E n \in 0..last : a = n * step)
    <3>1. 0..a \subseteq 0..last
      BY <2>1
    <3> QED
      BY <2>3, <3>1
  <2>5. \A n \in 0..last : a = n * step <=> v = first + n * step
    <3> TAKE n \in 0..last
    <3>1. n * step \in Int
      OBVIOUS
    <3> QED
      BY <3>1 DEF a
  <2> QED
    BY <2>2, <2>4, <2>5 DEF a
<1>2. Cron!AddRange(first, last, step) = counted
  BY <1>1 DEF Cron!AddRange
<1>3. \A v \in counted : v # spec.seven
  BY DEF SpecOK
<1>4. Cron!Days(counted, spec) = counted
  BY <1>3 DEF Cron!Days
<1>5. first \in Cron!AddRange(first, last, step)
  <2>1. first - first = 0 /\ 0 % step = 0
    OBVIOUS
  <2> QED
    BY <2>1 DEF Cron!AddRange
<1> QED
  BY <1>2, <1>4, <1>5

LEMMA SegmentMeaning ==
  ASSUME NEW spec, SpecOK(spec), NEW seg \in SegmentType,
         Cron!WellFormed(seg, spec), ~Cron!EndsOnSeven(seg, spec)
  PROVE  /\ Cron!SegmentSet(seg, spec) = Cron!Denotes(seg, spec)
         /\ Cron!SegmentSet(seg, spec) # {}
<1> DEFINE step == IF seg.step = Cron!NoStep THEN 1 ELSE seg.step
<1>1. /\ step \in Nat \ {0} /\ seg.parts \in Seq(Int) /\ seg.parts # <<>>
      /\ spec.min \in Nat /\ spec.max \in Nat /\ spec.min <= spec.max
  BY DEF Cron!WellFormed, SegmentType, SpecOK
<1>2. CASE seg.parts = <<Cron!Star>>
  <2>1. seg.parts # <<Cron!Empty>>
    BY <1>2 DEF Cron!Star, Cron!Empty
  <2>2. Cron!SegmentSet(seg, spec) = Cron!AddRange(spec.min, spec.max, step)
    BY <1>1, <1>2, <2>1 DEF Cron!SegmentSet
  <2>3. Cron!Denotes(seg, spec)
          = Cron!Days({v \in spec.min..spec.max : \E n \in 0..spec.max : v = spec.min + n * step}, spec)
    BY <1>2 DEF Cron!Denotes
  <2> HIDE DEF step
  <2>4. /\ Cron!AddRange(spec.min, spec.max, step)
              = Cron!Days({v \in spec.min..spec.max :
                             \E n \in 0..spec.max : v = spec.min + n * step}, spec)
        /\ Cron!AddRange(spec.min, spec.max, step) # {}
    <3>1. spec.max <= spec.max
      BY <1>1
    <3> QED
      BY <1>1, <3>1, RangeSteps
  <2> QED
    BY <2>2, <2>3, <2>4
<1>3. CASE Len(seg.parts) = 1 /\ seg.step = Cron!NoStep /\ Cron!InField(seg.parts[1], spec)
  <2> DEFINE only == seg.parts[1]
             value == IF only = spec.seven THEN 0 ELSE only
  <2>1. only \in Nat /\ seg.parts # <<Cron!Empty>> /\ seg.parts # <<Cron!Star>> /\ step = 1
    BY <1>1, <1>3 DEF Cron!InField, Cron!Empty, Cron!Star, Cron!NoStep
  <2>2. Cron!SegmentSet(seg, spec) = {Cron!FieldValue(only, spec)} \ {Cron!NaN}
    BY <1>3, <2>1 DEF Cron!SegmentSet
  <2>3. Cron!FieldValue(only, spec) = value /\ value # Cron!NaN
    <3>1. Cron!NumberOf(only) = only /\ only # Cron!NaN
      BY <2>1 DEF Cron!NumberOf, Cron!Empty, Cron!NaN
    <3> QED
      BY <1>3, <2>1, <3>1 DEF Cron!FieldValue, Cron!InField, Cron!NaN
  <2>4. Cron!Denotes(seg, spec) = {value}
    <3>1. Cron!Denotes(seg, spec)
            = Cron!Days({v \in only..only : \E n \in 0..only : v = only + n * 1}, spec)
      BY <1>3, <2>1 DEF Cron!Denotes
    <3>2. {v \in only..only : \E n \in 0..only : v = only + n * 1} = {only}
      <4>1. 0 \in 0..only /\ only = only + 0 * 1 /\ only..only = {only}
        BY <2>1
      <4> QED
        BY <4>1
    <3> QED
      BY <3>1, <3>2 DEF Cron!Days
  <2> QED
    BY <2>2, <2>3, <2>4
<1>4. CASE /\ Len(seg.parts) = 2 /\ \A i \in 1..2 : Cron!InField(seg.parts[i], spec)
           /\ seg.parts[1] <= seg.parts[2]
  <2> DEFINE first == seg.parts[1]
             last == seg.parts[2]
  <2>1. /\ first \in Nat /\ last \in Nat /\ first <= last /\ last <= spec.max
        /\ first # spec.seven /\ last # spec.seven
        /\ first \in spec.min..spec.max /\ last \in spec.min..spec.max
    <3>1. first \in Int /\ last \in Int /\ Cron!InField(first, spec) /\ Cron!InField(last, spec)
      BY <1>1, <1>4
    <3>2. last # spec.seven
      BY <1>4 DEF Cron!EndsOnSeven
    <3> QED
      BY <1>1, <1>4, <3>1, <3>2 DEF Cron!InField, SpecOK
  <2>2. /\ seg.parts # <<Cron!Empty>> /\ seg.parts # <<Cron!Star>>
    BY <1>4
  <2>3. Cron!FieldValue(first, spec) = first /\ Cron!FieldValue(last, spec) = last
    BY <2>1 DEF Cron!FieldValue, Cron!NumberOf, Cron!Empty, Cron!NaN
  <2>4. Cron!SegmentSet(seg, spec) = Cron!RangeSet(seg, spec, step)
    BY <1>1, <1>4, <2>2 DEF Cron!SegmentSet
  <2>5. Cron!RangeSet(seg, spec, step) = Cron!AddRange(first, last, step)
    BY <2>1, <2>3 DEF Cron!RangeSet, Cron!NaN
  <2>6. Cron!Denotes(seg, spec)
          = Cron!Days({v \in first..last : \E n \in 0..last : v = first + n * step}, spec)
    BY <1>4, <2>2 DEF Cron!Denotes
  <2> HIDE DEF step, first, last
  <2>7. /\ Cron!AddRange(first, last, step)
              = Cron!Days({v \in first..last : \E n \in 0..last : v = first + n * step}, spec)
        /\ Cron!AddRange(first, last, step) # {}
    BY <1>1, <2>1, RangeSteps
  <2> QED
    BY <2>4, <2>5, <2>6, <2>7
<1> QED
  BY <1>2, <1>3, <1>4 DEF Cron!WellFormed

-------------------------------------------------------------------------------
(***************************************************************************)
(* Cron: the parser.  What is parsed of a field is what its segments so    *)
(* far add; an expression is refused at a segment that adds nothing.       *)
(***************************************************************************)
Adds(f, k) == Cron!SegmentSet(text[f][k], FieldSpecs[f])

Processed(i) ==
  IF outcome = "valid" \/ i < pos[1] THEN DOMAIN text[Fields[i]]
  ELSE IF i = pos[1] THEN 1..(pos[2] - 1) ELSE {}

ParserInv ==
  /\ outcome \in {"parsing", "valid", "invalid"}
  /\ \A f \in Cron!Names : text[f] \in Seq(SegmentType) \ {<<>>}
  /\ pos \in (1..Len(Fields)) \X (Nat \ {0}) /\ pos[2] <= Len(text[Fields[pos[1]]])
  /\ DOMAIN parsed = Cron!Names
  /\ \A i \in DOMAIN Fields : parsed[Fields[i]] = UNION {Adds(Fields[i], k) : k \in Processed(i)}
  /\ outcome = "invalid" => \E f \in Cron!Names : \E k \in DOMAIN text[f] : Adds(f, k) = {}

LEMMA NamesAreFields ==
  ASSUME CronAssumption
  PROVE  /\ DOMAIN Fields = 1..Len(Fields) /\ Len(Fields) \in Nat \ {0}
         /\ \A i \in DOMAIN Fields : Fields[i] \in Cron!Names
         /\ \A f \in Cron!Names : \E i \in DOMAIN Fields : f = Fields[i]
BY DEF CronAssumption, Cron!Names

LEMMA ParserInit == ASSUME CronAssumption PROVE Cron!Init => ParserInv
<1> SUFFICES ASSUME Cron!Init PROVE ParserInv
  OBVIOUS
<1>1. ASSUME NEW f \in Cron!Names PROVE text[f] \in Seq(SegmentType) \ {<<>>}
  BY DEF Cron!Init, CronAssumption
<1>2. /\ pos = <<1, 1>> /\ outcome = "parsing" /\ parsed = [f \in Cron!Names |-> {}]
      /\ 1 \in DOMAIN Fields
  BY NamesAreFields DEF Cron!Init
<1>3. pos \in (1..Len(Fields)) \X (Nat \ {0}) /\ pos[2] <= Len(text[Fields[pos[1]]])
  <2>1. text[Fields[1]] \in Seq(SegmentType) /\ text[Fields[1]] # <<>>
    BY <1>1, <1>2, NamesAreFields
  <2> QED
    BY <1>2, <2>1, NamesAreFields
<1>4. ASSUME NEW i \in DOMAIN Fields
      PROVE  parsed[Fields[i]] = UNION {Adds(Fields[i], k) : k \in Processed(i)}
  <2>1. Processed(i) = {}
    BY <1>2, NamesAreFields DEF Processed
  <2>2. parsed[Fields[i]] = {}
    BY <1>2, NamesAreFields
  <2> QED
    BY <2>1, <2>2
<1> QED
  BY <1>1, <1>2, <1>3, <1>4 DEF ParserInv

\* One more segment.
LEMMA UnionGrows ==
  ASSUME NEW f, NEW K, NEW k
  PROVE  UNION {Adds(f, j) : j \in K \cup {k}} = (UNION {Adds(f, j) : j \in K}) \cup Adds(f, k)
<1> DEFINE more == UNION {Adds(f, j) : j \in K \cup {k}}
           less == UNION {Adds(f, j) : j \in K}
<1>1. \A x : x \in more <=> \E j \in K \cup {k} : x \in Adds(f, j)
  BY Zenon
<1>2. \A x : x \in less <=> \E j \in K : x \in Adds(f, j)
  BY Zenon
<1> HIDE DEF more, less
<1>3. \A x : x \in more <=> x \in less \cup Adds(f, k)
  BY <1>1, <1>2
<1>4. more = less \cup Adds(f, k)
  BY <1>3
<1> QED
  BY <1>4 DEF more, less

LEMMA ParserStep ==
  ASSUME CronAssumption
  PROVE  ParserInv /\ [Cron!Next]_(Cron!vars) => ParserInv'
<1> SUFFICES ASSUME ParserInv, [Cron!Next]_(Cron!vars) PROVE ParserInv'
  OBVIOUS
<1>1. CASE Cron!ParseSegment
  <2>0. PICK a \in 1..Len(Fields), b \in Nat \ {0} : pos = <<a, b>>
    BY DEF ParserInv
  <2> DEFINE f == Fields[a]
             added == Adds(f, b)
  <2>1. /\ a \in 1..Len(Fields) /\ b \in Nat \ {0} /\ pos = <<a, b>> /\ b <= Len(text[f])
        /\ f \in Cron!Names /\ text[f] \in Seq(SegmentType) /\ b \in DOMAIN text[f]
        /\ DOMAIN text[f] = 1..Len(text[f])
    BY <2>0, NamesAreFields DEF ParserInv
  <2>2. /\ outcome = "parsing" /\ text' = text
        /\ \/ /\ added = {} /\ outcome' = "invalid" /\ UNCHANGED <<parsed, pos>>
           \/ /\ added # {} /\ parsed' = [parsed EXCEPT ![f] = @ \cup added]
              /\ \/ b < Len(text[f]) /\ pos' = <<a, b + 1>> /\ outcome' = outcome
                 \/ b = Len(text[f]) /\ a < Len(Fields) /\ pos' = <<a + 1, 1>> /\ outcome' = outcome
                 \/ pos = <<Len(Fields), Len(text[f])>> /\ outcome' = "valid" /\ pos' = pos
    BY <1>1, <2>0 DEF Cron!ParseSegment, Adds
  <2> HIDE DEF added
  <2>3. CASE added = {}
    <3>1. outcome' = "invalid" /\ UNCHANGED <<text, parsed, pos>>
      BY <2>2, <2>3
    <3>2. \A i : Processed(i)' = Processed(i)
      BY <2>2, <3>1 DEF Processed
    <3>3. \A g, k : Adds(g, k)' = Adds(g, k)
      BY <3>1 DEF Adds
    <3>4. \E g \in Cron!Names : \E k \in DOMAIN text[g] : Adds(g, k) = {}
      BY <2>1, <2>3 DEF added
    <3>5. \E g \in Cron!Names : \E k \in DOMAIN text'[g] : Adds(g, k)' = {}
      BY <3>1, <3>3, <3>4
    <3>6. \A i \in DOMAIN Fields :
            parsed'[Fields[i]] = UNION {Adds(Fields[i], k)' : k \in Processed(i)'}
      BY <3>1, <3>2, <3>3 DEF ParserInv
    <3> QED
      BY <3>1, <3>5, <3>6 DEF ParserInv
  <2>4. CASE added # {}
    <3>1. /\ parsed' = [parsed EXCEPT ![f] = @ \cup added] /\ text' = text
          /\ outcome' \in {"parsing", "valid"}
      BY <2>2, <2>4
    <3>2. pos' \in (1..Len(Fields)) \X (Nat \ {0}) /\ pos'[2] <= Len(text[Fields[pos'[1]]])
      <4>1. CASE b < Len(text[f]) /\ pos' = <<a, b + 1>>
        BY <2>1, <4>1
      <4>2. CASE a < Len(Fields) /\ pos' = <<a + 1, 1>>
        <5>1. a + 1 \in DOMAIN Fields
          BY <2>1, <4>2, NamesAreFields
        <5>2. text[Fields[a + 1]] \in Seq(SegmentType) /\ text[Fields[a + 1]] # <<>>
          BY <5>1, NamesAreFields DEF ParserInv
        <5> QED
          BY <4>2, <5>1, <5>2, NamesAreFields
      <4>3. CASE pos' = pos
        BY <4>3 DEF ParserInv
      <4> QED
        BY <2>2, <2>4, <4>1, <4>2, <4>3
    <3>3. Processed(a)' = Processed(a) \cup {b}
      <4>1. Processed(a) = 1..(b - 1)
        BY <2>1, <2>2 DEF Processed
      <4>2. 1..b = 1..(b - 1) \cup {b}
        BY <2>1
      <4>3. Processed(a)' = 1..b
        <5>1. CASE b < Len(text[f]) /\ pos' = <<a, b + 1>> /\ outcome' = outcome
          <6>1. Processed(a)' = 1..((b + 1) - 1)
            BY <2>1, <2>2, <5>1 DEF Processed
          <6>2. (b + 1) - 1 = b
            BY <2>1
          <6> QED
            BY <6>1, <6>2
        <5>2. CASE b = Len(text[f]) /\ pos' = <<a + 1, 1>> /\ outcome' = outcome
          <6>1. a < pos'[1] /\ text'[Fields[a]] = text[f]
            BY <2>1, <2>2, <5>2
          <6>2. Processed(a)' = DOMAIN text[f]
            BY <6>1 DEF Processed
          <6> QED
            BY <2>1, <5>2, <6>2
        <5>3. CASE pos = <<Len(Fields), Len(text[f])>> /\ outcome' = "valid"
          <6>1. Processed(a)' = DOMAIN text[f]
            BY <2>1, <2>2, <5>3 DEF Processed
          <6>2. b = Len(text[f])
            BY <2>1, <5>3
          <6> QED
            BY <2>1, <6>1, <6>2
        <5> QED
          BY <2>2, <2>4, <5>1, <5>2, <5>3
      <4> QED
        BY <4>1, <4>2, <4>3
    <3>4. ASSUME NEW i \in DOMAIN Fields, i # a PROVE Processed(i)' = Processed(i)
      <4>1. i \in 1..Len(Fields)
        BY NamesAreFields
      <4>2. CASE pos' = <<a, b + 1>> /\ outcome' = outcome
        BY <2>1, <2>2, <3>4, <4>1, <4>2 DEF Processed
      <4>3. CASE pos' = <<a + 1, 1>> /\ outcome' = outcome
        <5>1. CASE i = a + 1
          <6>1. Processed(i)' = 1..(1 - 1)
            BY <2>1, <2>2, <4>3, <5>1 DEF Processed
          <6>2. Processed(i) = {}
            BY <2>1, <2>2, <5>1 DEF Processed
          <6> QED
            BY <6>1, <6>2
        <5>2. CASE i # a + 1
          <6>1. i < a + 1 <=> i < a
            BY <2>1, <3>4, <4>1
          <6> QED
            BY <2>1, <2>2, <3>4, <4>3, <5>2, <6>1 DEF Processed
        <5> QED
          BY <5>1, <5>2
      <4>4. CASE pos = <<Len(Fields), Len(text[f])>> /\ outcome' = "valid"
        <5>1. i < a
          BY <2>1, <3>4, <4>1, <4>4
        <5> QED
          BY <2>1, <2>2, <4>4, <5>1 DEF Processed
      <4> QED
        BY <2>2, <2>4, <4>2, <4>3, <4>4
    <3>5. \A g, k : Adds(g, k)' = Adds(g, k)
      BY <3>1 DEF Adds
    <3>6. ASSUME NEW i \in DOMAIN Fields
          PROVE  parsed'[Fields[i]] = UNION {Adds(Fields[i], k) : k \in Processed(i)'}
      <4>1. parsed[Fields[i]] = UNION {Adds(Fields[i], k) : k \in Processed(i)}
        BY DEF ParserInv
      <4>2. CASE i = a
        <5>1. parsed'[f] = parsed[f] \cup added
          BY <2>1, <3>1 DEF ParserInv
        <5>2. UNION {Adds(f, k) : k \in Processed(a)'}
                = (UNION {Adds(f, k) : k \in Processed(a)}) \cup Adds(f, b)
          BY <3>3, UnionGrows
        <5> QED
          BY <4>1, <4>2, <5>1, <5>2 DEF added
      <4>3. CASE i # a
        <5>1. Fields[i] # f
          BY <2>1, <4>3, NamesAreFields DEF CronAssumption
        <5>2. parsed'[Fields[i]] = parsed[Fields[i]]
          BY <3>1, <5>1
        <5>3. Processed(i)' = Processed(i)
          BY <3>4, <4>3
        <5> QED
          BY <4>1, <5>2, <5>3, Zenon
      <4> QED
        BY <4>2, <4>3
    <3>7. DOMAIN parsed' = Cron!Names
      BY <3>1 DEF ParserInv
    <3>8. \A i \in DOMAIN Fields :
            parsed'[Fields[i]] = UNION {Adds(Fields[i], k)' : k \in Processed(i)'}
      BY <3>5, <3>6
    <3> QED
      BY <3>1, <3>2, <3>7, <3>8 DEF ParserInv
  <2> QED
    BY <2>3, <2>4
<1>2. CASE Cron!BeginSearch \/ Cron!Try \/ UNCHANGED Cron!vars
  <2>1. UNCHANGED <<text, pos, parsed, outcome>>
    BY <1>2 DEF Cron!BeginSearch, Cron!Try, Cron!vars
  <2>2. (\A i : Processed(i)' = Processed(i)) /\ (\A g, k : Adds(g, k)' = Adds(g, k))
    BY <2>1 DEF Processed, Adds
  <2> QED
    BY <2>1, <2>2 DEF ParserInv
<1> QED
  BY <1>1, <1>2 DEF Cron!Next

\* Every expression of well-formed segments is accepted and means, field by
\* field, what cron says of its segments, for all ranges, steps and lengths.
LEMMA ExpressionsRead ==
  ASSUME CronAssumption
  PROVE  Cron!Spec => []Cron!ReadsCron
<1>1. ParserInv => Cron!ReadsCron
  <2> SUFFICES ASSUME ParserInv, \A f \in Cron!Names : Cron!Readable(f)
               PROVE  /\ outcome # "invalid"
                      /\ outcome = "valid" => \A f \in Cron!Names :
                           parsed[f] = UNION {Cron!Denotes(seg, FieldSpecs[f])
                                                : seg \in Cron!Segments(f)}
    BY DEF Cron!ReadsCron
  <2>1. ASSUME NEW f \in Cron!Names, NEW k \in DOMAIN text[f]
        PROVE  Adds(f, k) = Cron!Denotes(text[f][k], FieldSpecs[f]) /\ Adds(f, k) # {}
    <3>1. text[f][k] \in SegmentType /\ SpecOK(FieldSpecs[f])
      BY DEF ParserInv, CronAssumption
    <3>2. /\ Cron!WellFormed(text[f][k], FieldSpecs[f])
          /\ ~Cron!EndsOnSeven(text[f][k], FieldSpecs[f])
      BY DEF Cron!Readable, Cron!Segments
    <3> QED
      BY <3>1, <3>2, SegmentMeaning DEF Adds
  <2>2. outcome # "invalid"
    BY <2>1 DEF ParserInv
  <2>3. ASSUME outcome = "valid", NEW f \in Cron!Names
        PROVE  parsed[f] = UNION {Cron!Denotes(seg, FieldSpecs[f]) : seg \in Cron!Segments(f)}
    <3>1. parsed[f] = UNION {Adds(f, k) : k \in DOMAIN text[f]}
      <4>1. PICK i \in DOMAIN Fields : f = Fields[i]
        BY NamesAreFields
      <4> QED
        BY <2>3, <4>1 DEF ParserInv, Processed
    <3>2. {Adds(f, k) : k \in DOMAIN text[f]}
            = {Cron!Denotes(seg, FieldSpecs[f]) : seg \in Cron!Segments(f)}
      BY <2>1 DEF Cron!Segments
    <3> QED
      BY <3>1, <3>2
  <2> QED
    BY <2>2, <2>3
<1> QED
  BY <1>1, ParserInit, ParserStep, PTL DEF Cron!Spec

-------------------------------------------------------------------------------
(***************************************************************************)
(* Cron: the search.  What has fired is every matching minute between the  *)
(* instant the schedule was saved at and the minute asked from last.       *)
(***************************************************************************)
SearchAssumption ==
  /\ Ticks \in Nat \ {0} /\ SavedAt \in Nat
  /\ \A h \in Hosts : /\ DOMAIN h \subseteq Nat
                      /\ \A m \in DOMAIN h : h[m] \in Int /\ 0..m \subseteq DOMAIN h
                      /\ \A z \in Zones : DOMAIN z = DOMAIN h

Due(n) == {m \in DOMAIN zone : m > SavedAt \div Ticks /\ m <= n /\ Cron!MatchesCron(m)}

\* The minutes of a search follow one another from the one it was asked at.
SteadyInv ==
  /\ from \in Nat
  /\ outcome # "valid" => fired = {} /\ cursor = Cron!Null
  /\ fired = {} => run = Cron!Null /\ from = SavedAt
  /\ run # Cron!Null => /\ run \in Nat /\ run = from \div Ticks /\ run >= SavedAt \div Ticks
                        /\ fired = Due(run)
  /\ cursor # Cron!Null =>
       /\ fired = {} \/ run # Cron!Null
       /\ cursor \in Nat /\ cursor > from \div Ticks
       /\ \A m \in DOMAIN zone : from \div Ticks < m /\ m < cursor => ~Cron!MatchesCron(m)

SlotInv == zone \in Zones /\ host \in Hosts /\ (Cron!IsSteady(host) => SteadyInv)

\* On a steady clock setMinutes(getMinutes() + 1) is the next minute, in a gap too.
LEMMA StepsAreMinutes ==
  ASSUME SearchAssumption, host \in Hosts, Cron!IsSteady(host), NEW m \in DOMAIN host
  PROVE  /\ m \in Nat
         /\ Cron!Instant(host[m]) = m
         /\ Cron!Instant(host[m] + 1) = m + 1
<1>1. /\ DOMAIN host \subseteq Nat
      /\ \A k \in DOMAIN host : host[k] \in Int /\ 0..k \subseteq DOMAIN host
      /\ \A k, l \in DOMAIN host : k < l => host[k] < host[l]
  BY DEF SearchAssumption, Cron!IsSteady
<1>2. \A k \in DOMAIN host : (host[k] = host[m] => k = m) /\ (host[k] < host[m] + 1 <=> k <= m)
  <2>1. ASSUME NEW k \in DOMAIN host
        PROVE  (host[k] = host[m] => k = m) /\ (host[k] < host[m] + 1 <=> k <= m)
    <3>1. k \in Nat /\ m \in Nat /\ host[k] \in Int /\ host[m] \in Int
      BY <1>1
    <3>2. (k < m => host[k] < host[m]) /\ (m < k => host[m] < host[k])
      BY <1>1
    <3> QED
      BY <3>1, <3>2
  <2> QED
    BY <2>1
<1>3. Cron!Instant(host[m]) = m
  <2>1. {k \in DOMAIN host : host[k] = host[m]} = {m}
    BY <1>2
  <2>2. Cron!Min({m}) = m
    BY <1>1 DEF Cron!Min
  <2> QED
    BY <2>1, <2>2 DEF Cron!Instant
<1>4. \A k \in DOMAIN host : host[k] = host[m] + 1 => k = m + 1
  <2>1. ASSUME NEW k \in DOMAIN host, host[k] = host[m] + 1, k # m + 1 PROVE FALSE
    <3>1. k \in Nat /\ m \in Nat /\ host[m] \in Int
      BY <1>1
    <3>2. m < k
      <4>1. ~(k <= m)
        BY <1>2, <2>1, <3>1
      <4> QED
        BY <3>1, <4>1
    <3>3. m + 1 < k /\ m + 1 \in 0..k
      BY <2>1, <3>1, <3>2
    <3>4. m + 1 \in DOMAIN host /\ host[m + 1] \in Int
      BY <1>1, <3>3
    <3>5. host[m] < host[m + 1] /\ host[m + 1] < host[k]
      <4>1. m < m + 1
        BY <3>1
      <4> QED
        BY <1>1, <3>3, <3>4, <4>1
    <3> QED
      BY <2>1, <3>1, <3>4, <3>5
  <2> QED
    BY <2>1
<1>5. Cron!Instant(host[m] + 1) = m + 1
  <2> DEFINE same == {k \in DOMAIN host : host[k] = host[m] + 1}
             before == {k \in DOMAIN host : host[k] < host[m] + 1}
  <2>1. same \subseteq {m + 1}
    BY <1>4
  <2>2. CASE same = {}
    <3>1. before = {k \in DOMAIN host : k <= m}
      BY <1>2
    <3>2. m \in before /\ \A k \in before : k \in Nat /\ k <= m
      BY <1>1, <3>1
    <3> HIDE DEF before
    <3>3. Cron!Max(before) = m
      <4>1. Cron!Max(before) \in before /\ Cron!Max(before) >= m
        <5>1. \E k \in before : \A l \in before : k >= l
          BY <3>2
        <5> QED
          BY <3>2, <5>1 DEF Cron!Max
      <4> QED
        BY <3>2, <4>1
    <3>4. PICK local : local = host[m] + 1
      OBVIOUS
    <3>5. /\ same = {k \in DOMAIN host : host[k] = local}
          /\ before = {k \in DOMAIN host : host[k] < local}
      BY <3>4 DEF before
    <3> HIDE DEF same
    <3>6. Cron!Instant(local) = Cron!Max(before) + (local - host[Cron!Max(before)])
      BY <2>2, <3>5 DEF Cron!Instant
    <3> QED
      BY <1>1, <3>3, <3>4, <3>6
  <2>3. CASE same = {m + 1}
    <3>1. Cron!Min({m + 1}) = m + 1
      BY <1>1 DEF Cron!Min
    <3> QED
      BY <2>3, <3>1 DEF Cron!Instant
  <2> QED
    BY <2>1, <2>2, <2>3
<1> QED
  BY <1>1, <1>3, <1>5

LEMMA SlotInit == ASSUME SearchAssumption PROVE Cron!Init => SlotInv
BY DEF SearchAssumption, Cron!Init, SlotInv, SteadyInv

\* What has fired when a search begins, and while it goes on.
LEMMA FiredIsDue ==
  ASSUME SearchAssumption, SlotInv, SteadyInv, fired = {} \/ run # Cron!Null
  PROVE  /\ from \div Ticks \in Nat /\ SavedAt \div Ticks \in Nat
         /\ from \div Ticks >= SavedAt \div Ticks
         /\ fired = Due(from \div Ticks)
<1> DEFINE asked == from \div Ticks
           saved == SavedAt \div Ticks
<1>1. asked \in Nat /\ saved \in Nat
  <2>1. Ticks \in Nat \ {0} /\ SavedAt \in Nat /\ from \in Nat
    BY DEF SearchAssumption, SteadyInv
  <2> QED
    BY <2>1
<1>2. CASE fired = {}
  <2>1. asked = saved
    BY <1>2 DEF SteadyInv
  <2>2. DOMAIN zone \subseteq Nat
    BY DEF SearchAssumption, SlotInv
  <2>3. \A m \in DOMAIN zone : ~(m > saved /\ m <= asked)
    BY <1>1, <2>1, <2>2
  <2> QED
    BY <1>1, <1>2, <2>1, <2>3 DEF Due
<1>3. CASE run # Cron!Null
  BY <1>1, <1>3 DEF SteadyInv
<1> QED
  BY <1>2, <1>3

LEMMA SearchBegins ==
  ASSUME SearchAssumption, SlotInv, SteadyInv, Cron!IsSteady(host), Cron!BeginSearch
  PROVE  SteadyInv'
<1> DEFINE asked == from \div Ticks
<1>1. /\ asked \in DOMAIN host /\ outcome = "valid" /\ (fired = {} \/ run # Cron!Null)
      /\ cursor' = Cron!FirstTried(from)
      /\ UNCHANGED <<parsed, outcome, zone, from, run, fired>>
  BY DEF Cron!BeginSearch
<1>2. asked \in Nat /\ Cron!Instant(host[asked]) = asked /\ Cron!Instant(host[asked] + 1) = asked + 1
  BY <1>1, StepsAreMinutes DEF SlotInv
<1>3. cursor' = asked + 1
  BY <1>1, <1>2 DEF Cron!FirstTried, Cron!DropSeconds, Cron!AddMinute
<1>4. \A m \in DOMAIN zone : ~(asked < m /\ m < asked + 1)
  <2>1. DOMAIN zone \subseteq Nat
    BY DEF SearchAssumption, SlotInv
  <2> HIDE DEF asked
  <2> QED
    BY <1>2, <2>1
<1>5. Due(run)' = Due(run) /\ asked' = asked
  BY <1>1 DEF Due, Cron!MatchesCron
<1> HIDE DEF asked
<1>6. asked + 1 \in Nat /\ asked + 1 > asked
  BY <1>2
<1> QED
  BY <1>1, <1>3, <1>4, <1>5, <1>6 DEF SteadyInv, asked

\* A minute that is found is the next one that is due; one that does not match
\* is left behind.
LEMMA SearchTries ==
  ASSUME SearchAssumption, SlotInv, SteadyInv, Cron!IsSteady(host), Cron!Try
  PROVE  SteadyInv'
<1> DEFINE asked == from \div Ticks
           saved == SavedAt \div Ticks
<1>0. /\ Ticks \in Nat \ {0} /\ from \in Nat
      /\ DOMAIN zone \subseteq Nat /\ DOMAIN zone = DOMAIN host
  BY DEF SearchAssumption, SlotInv, SteadyInv
<1>1. /\ cursor \in DOMAIN host /\ cursor \in Nat
      /\ UNCHANGED <<parsed, outcome, zone>>
  BY <1>0 DEF Cron!Try
<1>2. cursor # Cron!Null
  BY <1>1 DEF Cron!Null
<1>3. /\ outcome = "valid" /\ (fired = {} \/ run # Cron!Null)
      /\ cursor > asked
      /\ \A m \in DOMAIN zone : asked < m /\ m < cursor => ~Cron!MatchesCron(m)
  BY <1>2 DEF SteadyInv
<1>4. asked \in Nat /\ saved \in Nat /\ asked >= saved /\ fired = Due(asked)
  BY <1>3, FiredIsDue
<1>5. \A m : Cron!MatchesCron(m)' <=> Cron!MatchesCron(m)
  BY <1>1 DEF Cron!MatchesCron
<1> HIDE DEF asked, saved
<1>6. CASE Cron!MatchesCron(cursor) /\ run' = cursor
  <2>1. fired' = fired \cup {cursor} /\ cursor' = Cron!Null
    BY <1>2, <1>6 DEF Cron!Try
  <2>2. PICK late \in 0..(Ticks - 1) : from' = cursor * Ticks + late
    BY <1>2, <1>6 DEF Cron!Try
  <2>3. from' \in Nat /\ from' \div Ticks = cursor
    BY <1>0, <1>1, <2>2, QuotientOf
  <2>4. ASSUME NEW m \in DOMAIN zone, Cron!MatchesCron(m)
        PROVE  (m > saved /\ m <= cursor) <=> (m > saved /\ m <= asked) \/ m = cursor
    <3>1. m \in Nat /\ ~(asked < m /\ m < cursor)
      BY <1>0, <1>3, <2>4
    <3> QED
      BY <1>1, <1>3, <1>4, <3>1
  <2>5. Due(cursor) = fired \cup {cursor}
    <3>1. \A m : m \in Due(cursor) <=> m \in Due(asked) \/ m = cursor
      BY <1>0, <1>1, <1>6, <2>4 DEF Due, saved
    <3> QED
      BY <1>4, <3>1
  <2>6. Due(run)' = Due(cursor)
    BY <1>1, <1>5, <1>6 DEF Due
  <2>7. cursor >= saved
    BY <1>1, <1>3, <1>4
  <2> QED
    BY <1>1, <1>2, <1>3, <1>6, <2>1, <2>3, <2>5, <2>6, <2>7 DEF SteadyInv, saved
<1>7. CASE ~Cron!MatchesCron(cursor) /\ cursor' = Cron!AddMinute(cursor)
            /\ UNCHANGED <<from, run, fired>>
  <2>1. cursor' = cursor + 1
    BY <1>1, <1>7, StepsAreMinutes DEF SlotInv, Cron!AddMinute
  <2>2. ASSUME NEW m \in DOMAIN zone, asked < m, m < cursor + 1 PROVE ~Cron!MatchesCron(m)
    <3>1. m \in Nat /\ (m < cursor \/ m = cursor)
      BY <1>0, <1>1, <2>2
    <3> QED
      BY <1>3, <1>7, <2>2, <3>1
  <2>3. Due(run)' = Due(run) /\ asked' = asked
    BY <1>1, <1>5, <1>7 DEF Due, asked
  <2>4. cursor + 1 \in Nat /\ cursor + 1 > asked
    BY <1>1, <1>3, <1>4
  <2> QED
    BY <1>1, <1>3, <1>5, <1>7, <2>1, <2>2, <2>3, <2>4 DEF SteadyInv, asked
<1>8. CASE run' = Cron!Null /\ cursor' = Cron!Null /\ UNCHANGED <<from, fired>>
  BY <1>1, <1>3, <1>8 DEF SteadyInv
<1> QED
  BY <1>6, <1>7, <1>8 DEF Cron!Try

LEMMA SlotStep ==
  ASSUME SearchAssumption
  PROVE  SlotInv /\ [Cron!Next]_(Cron!vars) => SlotInv'
<1> SUFFICES ASSUME SlotInv, [Cron!Next]_(Cron!vars) PROVE SlotInv'
  OBVIOUS
<1>1. UNCHANGED <<zone, host>>
  BY DEF Cron!Next, Cron!ParseSegment, Cron!BeginSearch, Cron!Try, Cron!vars
<1>2. SUFFICES ASSUME Cron!IsSteady(host) PROVE SteadyInv'
  BY <1>1 DEF SlotInv, Cron!IsSteady
<1>3. SteadyInv
  BY <1>2 DEF SlotInv
<1>4. CASE Cron!ParseSegment
  <2>1. outcome = "parsing" /\ UNCHANGED <<from, cursor, run, fired>>
    BY <1>4 DEF Cron!ParseSegment
  <2>2. fired = {} /\ run = Cron!Null /\ cursor = Cron!Null
    BY <1>3, <2>1 DEF SteadyInv
  <2> QED
    BY <1>3, <2>1, <2>2 DEF SteadyInv
<1>5. CASE Cron!BeginSearch
  BY <1>2, <1>3, <1>5, SearchBegins
<1>6. CASE Cron!Try
  BY <1>2, <1>3, <1>6, SearchTries
<1>7. CASE UNCHANGED Cron!vars
  <2>1. UNCHANGED <<parsed, outcome, zone, from, cursor, run, fired>>
    BY <1>7 DEF Cron!vars
  <2>2. /\ \A n : Due(n)' = Due(n)
        /\ \A m : Cron!MatchesCron(m)' <=> Cron!MatchesCron(m)
    BY <2>1 DEF Due, Cron!MatchesCron
  <2> QED
    BY <1>3, <2>1, <2>2 DEF SteadyInv
<1> QED
  BY <1>4, <1>5, <1>6, <1>7 DEF Cron!Next

\* However late in its minute each poll asks, in gaps and repeated hours of any
\* zone of the schedule's, its runs are all the matching minutes since it was saved,
\* in a process whose own clock repeats none.
LEMMA SlotsFire ==
  ASSUME SearchAssumption
  PROVE  Cron!Spec => []Cron!NoSlotSkipped
<1>1. SlotInv => Cron!NoSlotSkipped
  BY DEF SlotInv, SteadyInv, Due, Cron!NoSlotSkipped
<1> QED
  BY <1>1, SlotInit, SlotStep, PTL DEF Cron!Spec

-------------------------------------------------------------------------------
(***************************************************************************)
(* The conversions and the order.                                          *)
(***************************************************************************)
Key(c) == IF "sequence" \in DOMAIN c THEN c["sequence"] ELSE c["updatedAt"]

SameKind(c, d) == "sequence" \in DOMAIN c <=> "sequence" \in DOMAIN d

\* A partial function from the two keys.
LEMMA PartialShape ==
  ASSUME NEW S, NEW c \in Scan!Partial(S)
  PROVE  /\ DOMAIN c \subseteq Scan!CursorFields
         /\ \A f \in DOMAIN c : c[f] \in S
         /\ c = [f \in DOMAIN c |-> c[f]]
         /\ c # Scan!NoCursor <=> DOMAIN c # {}
<1>1. c = [f \in DOMAIN c |-> c[f]] /\ (c # Scan!NoCursor => DOMAIN c # {})
  BY DEF Scan!Partial, Scan!NoCursor, Scan!CursorFields
<1> QED
  BY <1>1 DEF Scan!Partial, Scan!NoCursor, Scan!CursorFields

\* Conversely, a function from some of the two keys is one.
LEMMA PartialFunction ==
  ASSUME NEW S, NEW D \in SUBSET Scan!CursorFields, NEW c \in [D -> S]
  PROVE  c \in Scan!Partial(S)
<1>1. D = {} \/ D = {"sequence"} \/ D = {"updatedAt"} \/ D = Scan!CursorFields
  BY DEF Scan!CursorFields
<1>2. CASE D = {}
  <2>1. c = Scan!NoCursor
    BY <1>2 DEF Scan!NoCursor
  <2> QED
    BY <2>1 DEF Scan!Partial
<1> QED
  BY <1>1, <1>2 DEF Scan!Partial

LEMMA NoCursorType == Scan!NoCursor \in Scan!Cursors
BY DEF Scan!Cursors, Scan!Partial

\* What is read from a record is a candidate.
LEMMA CandidateType ==
  ASSUME NEW raw \in Scan!Raws
  PROVE  Scan!Candidate(raw) \in Scan!Cursors
<1> DEFINE D == {f \in DOMAIN raw : raw[f].finite /\ raw[f].type \in Scan!ReadableInRecord[f]}
<1>1. DOMAIN raw \subseteq Scan!CursorFields /\ \A f \in DOMAIN raw : raw[f] \in Scan!JsonValues
  BY PartialShape DEF Scan!Raws
<1>2. D \in SUBSET Scan!CursorFields /\ \A f \in D : raw[f].value \in Int
  BY <1>1 DEF Scan!JsonValues
<1>3. Scan!Candidate(raw) = [f \in D |-> raw[f].value]
  BY DEF Scan!Candidate, Scan!ExtractCursorCandidate
<1> HIDE DEF D
<1>4. Scan!Candidate(raw) \in [D -> Int]
  BY <1>2, <1>3
<1> QED
  BY <1>2, <1>4, PartialFunction DEF Scan!Cursors

\* The stored cursor reads back as the candidate it was written from.
LEMMA RoundTrip ==
  ASSUME NEW c \in Scan!Cursors
  PROVE  Scan!NormalizeCursorState(Scan!CursorCandidateToJson(c)) = c
<1> DEFINE json == Scan!CursorCandidateToJson(c)
           D == {f \in DOMAIN json : json[f].finite /\ json[f].type \in Scan!ReadableInCursor[f]}
<1>1. DOMAIN c \subseteq Scan!CursorFields /\ c = [f \in DOMAIN c |-> c[f]]
  BY PartialShape DEF Scan!Cursors
<1>2. /\ DOMAIN json = DOMAIN c
      /\ \A f \in DOMAIN c : /\ json[f].finite /\ json[f].value = c[f]
                             /\ json[f].type = IF f = "sequence" THEN "number" ELSE "string"
  BY DEF Scan!CursorCandidateToJson
<1>3. \A f \in DOMAIN c : json[f].type \in Scan!ReadableInCursor[f]
  BY <1>1, <1>2 DEF Scan!ReadableInCursor, Scan!CursorFields
<1> HIDE DEF json
<1>4. D = DOMAIN c
  BY <1>2, <1>3
<1>5. Scan!NormalizeCursorState(json) = [f \in D |-> json[f].value]
  BY DEF Scan!NormalizeCursorState
<1> HIDE DEF D
<1>6. Scan!NormalizeCursorState(json) = [f \in DOMAIN c |-> c[f]]
  BY <1>2, <1>4, <1>5
<1> QED
  BY <1>1, <1>6 DEF json

\* Among candidates of one kind the order is that of the keys.
LEMMA NewerByKey ==
  ASSUME NEW c \in Scan!Cursors, NEW d \in Scan!Cursors, c # Scan!NoCursor, d # Scan!NoCursor, SameKind(c, d)
  PROVE  /\ Key(c) \in Int /\ Key(d) \in Int
         /\ Scan!IsCandidateNewer(c, d) <=> Key(c) > Key(d)
<1>1. /\ DOMAIN c \subseteq Scan!CursorFields /\ DOMAIN c # {}
      /\ DOMAIN d \subseteq Scan!CursorFields /\ DOMAIN d # {}
      /\ \A f \in DOMAIN c : c[f] \in Int
      /\ \A f \in DOMAIN d : d[f] \in Int
  BY PartialShape DEF Scan!Cursors
<1>2. CASE "sequence" \in DOMAIN c
  BY <1>1, <1>2 DEF SameKind, Key, Scan!IsCandidateNewer, Scan!BothHave
<1>3. CASE "sequence" \notin DOMAIN c
  <2>1. "updatedAt" \in DOMAIN c /\ "updatedAt" \in DOMAIN d
    BY <1>1, <1>3 DEF SameKind, Scan!CursorFields
  <2> QED
    BY <1>1, <1>3, <2>1 DEF SameKind, Key, Scan!IsCandidateNewer, Scan!BothHave
<1> QED
  BY <1>2, <1>3

\* The latest of two candidates of one kind is one of them, and neither is
\* newer than it.
LEMMA LatestDominates ==
  ASSUME NEW c \in Scan!Cursors, NEW d \in Scan!Cursors,
         c # Scan!NoCursor /\ d # Scan!NoCursor => SameKind(c, d)
  PROVE  LET p == Scan!PickLatestCursor(c, d) IN
         /\ p \in {c, d}
         /\ c # Scan!NoCursor \/ d # Scan!NoCursor => p # Scan!NoCursor
         /\ c # Scan!NoCursor => ~Scan!IsCandidateNewer(c, p)
         /\ d # Scan!NoCursor => ~Scan!IsCandidateNewer(d, p)
<1>1. ASSUME NEW a \in Scan!Cursors, a # Scan!NoCursor PROVE ~Scan!IsCandidateNewer(a, a)
  BY <1>1, NewerByKey DEF SameKind
<1>2. CASE c = Scan!NoCursor \/ d = Scan!NoCursor
  BY <1>1, <1>2 DEF Scan!PickLatestCursor
<1>3. CASE c # Scan!NoCursor /\ d # Scan!NoCursor
  <2>1. Scan!PickLatestCursor(c, d) = IF Key(d) > Key(c) THEN d ELSE c
    <3>1. /\ DOMAIN c \subseteq Scan!CursorFields /\ DOMAIN c # {}
          /\ DOMAIN d \subseteq Scan!CursorFields /\ DOMAIN d # {}
      BY <1>3, PartialShape DEF Scan!Cursors
    <3> QED
      BY <1>3, <3>1 DEF Scan!PickLatestCursor, Scan!BothHave, SameKind, Key, Scan!CursorFields
  <2>2. /\ Key(c) \in Int /\ Key(d) \in Int
        /\ Scan!IsCandidateNewer(c, d) <=> Key(c) > Key(d)
        /\ Scan!IsCandidateNewer(d, c) <=> Key(d) > Key(c)
    BY <1>3, NewerByKey DEF SameKind
  <2> QED
    BY <1>1, <1>3, <2>1, <2>2
<1> QED
  BY <1>2, <1>3

-------------------------------------------------------------------------------
(***************************************************************************)
(* The inductive invariant.  Between runs the stored cursor is the         *)
(* candidate of an ingested record and no ingested record is newer; during *)
(* a run the same holds of maxCursor and the records the run has stored,   *)
(* which all passed the filter of the cursor that is still stored.         *)
(***************************************************************************)
Stored == Scan!NormalizeCursorState(cursorJson)

CandidatesOf(s) == {Scan!NoCursor} \cup {Scan!Candidate(raw) : raw \in s}

Dominates(c, s) ==
  \A raw \in s : Scan!Candidate(raw) # Scan!NoCursor =>
    c # Scan!NoCursor /\ ~Scan!IsCandidateNewer(Scan!Candidate(raw), c)

ScanTypes ==
  /\ feed \subseteq Scan!Raws
  /\ batch \in Seq(feed) /\ place \in Nat \ {0}
  /\ fresh \subseteq feed /\ ingested \subseteq feed

BetweenRuns ==
  /\ Stored \in CandidatesOf(ingested)
  /\ Scan!OneKind(feed) => Dominates(Stored, ingested)
  /\ batch = <<>> => fresh = {}

DuringRun ==
  batch # <<>> =>
    /\ base = Stored
    /\ latest \in CandidatesOf(fresh)
    /\ Scan!OneKind(feed) => Dominates(latest, fresh)
    /\ \A raw \in fresh : Scan!ShouldProcessRecord(Scan!Candidate(raw), base)

ScanInv == ScanTypes /\ BetweenRuns /\ DuringRun

\* Candidates of a feed are cursors, and on a feed of one kind they compare.
LEMMA FeedCandidates ==
  ASSUME NEW s \in SUBSET Scan!Raws, NEW c \in CandidatesOf(s), NEW d \in CandidatesOf(s)
  PROVE  /\ c \in Scan!Cursors /\ d \in Scan!Cursors
         /\ Scan!OneKind(s) /\ c # Scan!NoCursor /\ d # Scan!NoCursor => SameKind(c, d)
<1>1. c \in Scan!Cursors /\ d \in Scan!Cursors
  BY CandidateType, NoCursorType DEF CandidatesOf
<1> QED
  BY <1>1 DEF CandidatesOf, Scan!OneKind, SameKind

LEMMA CandidatesGrow ==
  ASSUME NEW s, NEW t, s \subseteq t
  PROVE  CandidatesOf(s) \subseteq CandidatesOf(t)
BY DEF CandidatesOf

LEMMA ScanInit == Scan!Init => ScanInv
<1> SUFFICES ASSUME Scan!Init PROVE ScanInv
  OBVIOUS
<1>1. Stored = Scan!NoCursor
  <2>1. Scan!CursorCandidateToJson(Scan!NoCursor) = Scan!NoCursor
    BY DEF Scan!CursorCandidateToJson, Scan!NoCursor
  <2> QED
    BY <2>1, RoundTrip, NoCursorType DEF Scan!Init, Stored
<1>2. ScanTypes
  BY FeedsAssumption DEF Scan!Init, ScanTypes
<1> QED
  BY <1>1, <1>2 DEF Scan!Init, ScanInv, BetweenRuns, DuringRun, CandidatesOf, Dominates

\* A run begins: it reads the stored cursor and has stored nothing yet.
LEMMA BeginKeeps == ScanInv /\ Scan!BeginRun => ScanInv'
<1> SUFFICES ASSUME ScanInv, Scan!BeginRun PROVE ScanInv'
  OBVIOUS
<1> USE DEF ScanInv, Scan!BeginRun
<1>1. batch' \in Seq(feed)
  BY DEF ScanTypes
<1>2. fresh = {} /\ Stored' = Stored /\ base' = Stored /\ latest' = Scan!NoCursor
  BY DEF BetweenRuns, Stored
<1>3. ScanTypes'
  BY <1>1 DEF ScanTypes
<1>4. BetweenRuns'
  BY <1>2 DEF BetweenRuns
<1>5. DuringRun'
  BY <1>2 DEF DuringRun, CandidatesOf, Dominates
<1> QED
  BY <1>3, <1>4, <1>5

\* The loop: a skipped record changes nothing, a stored one is dominated by
\* the new maxCursor.
LEMMA LoopKeeps == ScanInv /\ (Scan!Skip \/ Scan!Store) => ScanInv'
<1> SUFFICES ASSUME ScanInv, Scan!Skip \/ Scan!Store PROVE ScanInv'
  OBVIOUS
<1> USE DEF ScanInv
<1>1. CASE Scan!Skip
  <2>1. Stored' = Stored
    BY <1>1 DEF Scan!Skip, Stored
  <2>2. ScanTypes'
    BY <1>1 DEF Scan!Skip, ScanTypes
  <2> QED
    BY <1>1, <2>1, <2>2 DEF Scan!Skip, BetweenRuns, DuringRun
<1>2. CASE Scan!Store
  <2> DEFINE raw == batch[place]
             c == Scan!Candidate(raw)
  <2>1. raw \in feed /\ batch # <<>>
    BY <1>2 DEF Scan!Store, ScanTypes
  <2>2. /\ Stored' = Stored /\ feed' = feed /\ batch' = batch /\ base' = base
        /\ ingested' = ingested /\ fresh' = fresh \cup {raw} /\ place' = place + 1
        /\ latest' = Scan!PickLatestCursor(latest, c)
        /\ Scan!ShouldProcessRecord(c, base)
    BY <1>2 DEF Scan!Store, Stored
  <2> HIDE DEF raw
  <2>3. ScanTypes'
    BY <2>1, <2>2 DEF ScanTypes
  <2>4. BetweenRuns'
    BY <2>1, <2>2 DEF BetweenRuns
  <2>5. /\ feed \in SUBSET Scan!Raws /\ fresh \subseteq feed
        /\ latest \in CandidatesOf(fresh) /\ latest \in CandidatesOf(feed)
        /\ c \in CandidatesOf(feed)
    BY <2>1, CandidatesGrow DEF DuringRun, ScanTypes, CandidatesOf
  <2>6. latest' \in CandidatesOf(fresh')
    BY <2>2, <2>5 DEF Scan!PickLatestCursor, CandidatesOf
  <2>7. ASSUME Scan!OneKind(feed) PROVE Dominates(latest', fresh')
    <3> DEFINE p == Scan!PickLatestCursor(latest, c)
    <3>1. /\ latest \in Scan!Cursors /\ c \in Scan!Cursors
          /\ latest # Scan!NoCursor /\ c # Scan!NoCursor => SameKind(latest, c)
      BY <2>5, <2>7, FeedCandidates
    <3>2. /\ p \in {latest, c}
          /\ latest # Scan!NoCursor \/ c # Scan!NoCursor => p # Scan!NoCursor
          /\ latest # Scan!NoCursor => ~Scan!IsCandidateNewer(latest, p)
          /\ c # Scan!NoCursor => ~Scan!IsCandidateNewer(c, p)
      BY <3>1, LatestDominates
    <3> HIDE DEF p, c
    <3>3. ASSUME NEW old \in fresh, Scan!Candidate(old) # Scan!NoCursor
          PROVE  p # Scan!NoCursor /\ ~Scan!IsCandidateNewer(Scan!Candidate(old), p)
      <4> DEFINE d == Scan!Candidate(old)
      <4>1. latest # Scan!NoCursor /\ ~Scan!IsCandidateNewer(d, latest)
        BY <2>1, <2>7, <3>3 DEF DuringRun, Dominates
      <4>2. d \in CandidatesOf(feed) /\ p \in CandidatesOf(feed)
        BY <2>5, <3>2 DEF CandidatesOf
      <4>3. /\ d \in Scan!Cursors /\ p \in Scan!Cursors /\ latest \in Scan!Cursors
            /\ p # Scan!NoCursor
            /\ SameKind(d, latest) /\ SameKind(latest, p) /\ SameKind(d, p)
        BY <2>5, <2>7, <3>2, <3>3, <4>1, <4>2, FeedCandidates
      <4> HIDE DEF d
      <4>4. d # Scan!NoCursor
        BY <3>3 DEF d
      <4>5. /\ Key(d) \in Int /\ Key(latest) \in Int /\ Key(p) \in Int
            /\ ~(Key(d) > Key(latest)) /\ ~(Key(latest) > Key(p))
            /\ Scan!IsCandidateNewer(d, p) <=> Key(d) > Key(p)
        BY <3>2, <4>1, <4>3, <4>4, NewerByKey
      <4> QED
        BY <4>3, <4>5 DEF d
    <3>4. \A old \in fresh' : old \in fresh \/ Scan!Candidate(old) = c
      BY <2>2 DEF c
    <3>5. latest' = p
      BY <2>2 DEF p
    <3> QED
      BY <3>2, <3>3, <3>4, <3>5 DEF Dominates
  <2>8. \A old \in fresh' : Scan!ShouldProcessRecord(Scan!Candidate(old), base')
    BY <2>1, <2>2 DEF DuringRun
  <2>9. DuringRun'
    BY <2>1, <2>2, <2>6, <2>7, <2>8 DEF DuringRun
  <2> QED
    BY <2>3, <2>4, <2>9
<1> QED
  BY <1>1, <1>2

\* A run ends: what it stored is newer than the old cursor, so the new one
\* dominates the ingested records too.
LEMMA EndKeeps == ScanInv /\ Scan!EndRun => ScanInv'
<1> SUFFICES ASSUME ScanInv, Scan!EndRun PROVE ScanInv'
  OBVIOUS
<1> USE DEF ScanInv
<1>1. /\ feed' = feed /\ place' = place /\ batch # <<>> /\ batch' = <<>> /\ fresh' = {}
      /\ ingested' = ingested \cup fresh
      /\ base = Stored /\ latest \in CandidatesOf(fresh)
  BY DEF Scan!EndRun, DuringRun
<1>2. ScanTypes'
  BY <1>1 DEF ScanTypes
<1>3. /\ feed \in SUBSET Scan!Raws
      /\ latest \in CandidatesOf(feed) /\ Stored \in CandidatesOf(feed)
      /\ \A raw \in ingested \cup fresh : Scan!Candidate(raw) \in CandidatesOf(feed)
  BY <1>1, CandidatesGrow DEF ScanTypes, BetweenRuns, CandidatesOf
<1>4. Stored' = IF latest = Scan!NoCursor THEN Stored ELSE latest
  <2>1. latest \in Scan!Cursors
    BY <1>3, FeedCandidates
  <2> QED
    BY <2>1, RoundTrip DEF Scan!EndRun, Stored
<1>5. Stored' \in CandidatesOf(ingested')
  BY <1>1, <1>4 DEF BetweenRuns, CandidatesOf
<1>6. ASSUME Scan!OneKind(feed) PROVE Dominates(Stored', ingested')
  <2>1. Dominates(Stored, ingested) /\ Dominates(latest, fresh)
    BY <1>1, <1>6 DEF BetweenRuns, DuringRun
  <2>2. CASE latest = Scan!NoCursor
    BY <1>1, <1>4, <2>1, <2>2 DEF Dominates
  <2>3. CASE latest # Scan!NoCursor
    <3>1. ASSUME NEW old \in ingested, Scan!Candidate(old) # Scan!NoCursor
          PROVE  ~Scan!IsCandidateNewer(Scan!Candidate(old), latest)
      <4> DEFINE d == Scan!Candidate(old)
                 b == Stored
      <4>1. b # Scan!NoCursor /\ ~Scan!IsCandidateNewer(d, b)
        BY <2>1, <3>1 DEF Dominates
      <4>2. Scan!IsCandidateNewer(latest, b)
        BY <1>1, <2>3, <4>1 DEF DuringRun, CandidatesOf, Scan!ShouldProcessRecord
      <4>3. /\ d \in Scan!Cursors /\ b \in Scan!Cursors /\ latest \in Scan!Cursors
            /\ SameKind(d, b) /\ SameKind(latest, b) /\ SameKind(d, latest)
        BY <1>3, <1>6, <2>3, <3>1, <4>1, FeedCandidates
      <4> HIDE DEF d, b
      <4>4. d # Scan!NoCursor
        BY <3>1 DEF d
      <4>5. /\ Key(d) \in Int /\ Key(b) \in Int /\ Key(latest) \in Int
            /\ ~(Key(d) > Key(b)) /\ Key(latest) > Key(b)
            /\ Scan!IsCandidateNewer(d, latest) <=> Key(d) > Key(latest)
        BY <2>3, <4>1, <4>2, <4>3, <4>4, NewerByKey
      <4> QED
        BY <4>5 DEF d
    <3> QED
      BY <1>1, <1>4, <2>1, <2>3, <3>1 DEF Dominates
  <2> QED
    BY <2>2, <2>3
<1> QED
  BY <1>1, <1>2, <1>5, <1>6 DEF BetweenRuns, DuringRun

LEMMA ScanInvariant == Scan!Spec => []ScanInv
<1>1. ScanInv /\ [Scan!Next]_(Scan!vars) => ScanInv'
  <2> SUFFICES ASSUME ScanInv, [Scan!Next]_(Scan!vars) PROVE ScanInv'
    OBVIOUS
  <2>1. CASE UNCHANGED Scan!vars
    BY <2>1 DEF Scan!vars, ScanInv, ScanTypes, BetweenRuns, DuringRun, Stored
  <2> QED
    BY <2>1, BeginKeeps, LoopKeeps, EndKeeps DEF Scan!Next
<1> QED
  BY <1>1, ScanInit, PTL DEF Scan!Spec

\* Replaying ingested records to processRunRecords stores nothing again: the
\* stored cursor dominates them and the run filters by it (NoReplay).
LEMMA ReplaysSkipped == Scan!Spec => []Scan!NoReplay
<1>1. ScanInv => Scan!NoReplay
  <2> SUFFICES ASSUME ScanInv, Scan!OneKind(feed), NEW raw \in fresh \cap ingested,
                      Scan!Candidate(raw) # Scan!NoCursor
               PROVE  FALSE
    BY DEF Scan!NoReplay
  <2>1. batch # <<>>
    BY DEF ScanInv, BetweenRuns
  <2>2. Stored # Scan!NoCursor /\ ~Scan!IsCandidateNewer(Scan!Candidate(raw), Stored)
    BY DEF ScanInv, BetweenRuns, Dominates
  <2>3. Scan!ShouldProcessRecord(Scan!Candidate(raw), Stored)
    BY <2>1 DEF ScanInv, DuringRun
  <2> QED
    BY <2>2, <2>3 DEF Scan!ShouldProcessRecord
<1> QED
  BY <1>1, ScanInvariant, PTL

\* What shouldProcessRecord drops under the stored cursor is not newer than a
\* record that was ingested (SkipsOnlyOld).
LEMMA OldSkipped == Scan!Spec => []Scan!SkipsOnlyOld
<1>1. ScanInv => Scan!SkipsOnlyOld
  <2> SUFFICES ASSUME ScanInv, NEW raw \in feed,
                      ~Scan!ShouldProcessRecord(Scan!Candidate(raw), Stored)
               PROVE  \E old \in ingested :
                        ~Scan!ShouldProcessRecord(Scan!Candidate(raw), Scan!Candidate(old))
    BY DEF Scan!SkipsOnlyOld, Stored
  <2>1. Stored # Scan!NoCursor
    BY DEF Scan!ShouldProcessRecord
  <2>2. PICK old \in ingested : Stored = Scan!Candidate(old)
    BY <2>1 DEF ScanInv, BetweenRuns, CandidatesOf
  <2> QED
    BY <2>2
<1> QED
  BY <1>1, ScanInvariant, PTL

-------------------------------------------------------------------------------
(***************************************************************************)
(* Parsers: a behaviour is one of Transform, of Cron or of CursorScan, and *)
(* what holds of theirs holds of it.                                       *)
(***************************************************************************)
LEMMA TransformBehaves == Spec => Transform!Spec \/ [](~(part = "transform"))
<1>1. Init => ~(part = "transform") \/ Transform!Init
  BY DEF Init
<1>2. ~(part = "transform") /\ [Next]_vars => (~(part = "transform"))'
  BY DEF Next, vars
<1>3. part = "transform" /\ [Next]_vars
        => (part = "transform")' /\ [Transform!Next]_(Transform!vars)
  BY DEF Next, vars, transformVars, Transform!vars
<1> QED
  BY <1>1, <1>2, <1>3, PTL DEF Spec, Transform!Spec

LEMMA CronBehaves == Spec => Cron!Spec \/ [](~(part = "cron"))
<1>1. Init => ~(part = "cron") \/ Cron!Init
  BY DEF Init
<1>2. ~(part = "cron") /\ [Next]_vars => (~(part = "cron"))'
  BY DEF Next, vars
<1>3. part = "cron" /\ [Next]_vars => (part = "cron")' /\ [Cron!Next]_(Cron!vars)
  BY DEF Next, vars, cronVars, Cron!vars
<1> QED
  BY <1>1, <1>2, <1>3, PTL DEF Spec, Cron!Spec

LEMMA ScanBehaves == Spec => Scan!Spec \/ [](~(part = "scan"))
<1>1. Init => ~(part = "scan") \/ Scan!Init
  BY DEF Init
<1>2. ~(part = "scan") /\ [Next]_vars => (~(part = "scan"))'
  BY DEF Next, vars
<1>3. part = "scan" /\ [Next]_vars => (part = "scan")' /\ [Scan!Next]_(Scan!vars)
  BY DEF Next, vars, scanVars, Scan!vars
<1> QED
  BY <1>1, <1>2, <1>3, PTL DEF Spec, Scan!Spec

\* Whatever the mapping and the record, and whichever output paths overlap, a
\* transformed record has at each field's path what the last written field there
\* has left, and a required field is in it or has an error.
THEOREM FieldsIndependent ==
  ASSUME NEW S, MappingsAssumption(S)
  PROVE  Spec => []FieldsAreIndependent
<1>1. /\ ~(part = "transform") => FieldsAreIndependent
      /\ Transform!FieldsAreIndependent => FieldsAreIndependent
  BY DEF FieldsAreIndependent
<1> QED
  BY <1>1, FieldsSettled, TransformBehaves, PTL

\* Every expression of well-formed segments is accepted and means, field by
\* field, what cron says of its segments, for all ranges, steps and lengths.
THEOREM CronIsRead ==
  ASSUME CronAssumption
  PROVE  Spec => []ReadsCron
<1>1. /\ ~(part = "cron") => ReadsCron
      /\ Cron!ReadsCron => ReadsCron
  BY DEF ReadsCron
<1> QED
  BY <1>1, ExpressionsRead, CronBehaves, PTL

\* However late in its minute each poll asks, in gaps and repeated hours of any
\* zone of the schedule's, its runs are all the matching minutes since it was saved,
\* in a process whose own clock repeats none.
THEOREM SlotsRunInOrder ==
  ASSUME SearchAssumption
  PROVE  Spec => []NoSlotSkipped
<1>1. /\ ~(part = "cron") => NoSlotSkipped
      /\ Cron!NoSlotSkipped => NoSlotSkipped
  BY DEF NoSlotSkipped
<1> QED
  BY <1>1, SlotsFire, CronBehaves, PTL

\* Replaying ingested records to processRunRecords stores nothing again, on a
\* feed of one kind: the stored cursor dominates them and the run filters by it.
THEOREM ReplayStoresNothing == Spec => []NoReplay
<1>1. (~(part = "scan") => NoReplay) /\ (Scan!NoReplay => NoReplay)
  BY DEF NoReplay
<1> QED
  BY <1>1, ReplaysSkipped, ScanBehaves, PTL

\* What shouldProcessRecord drops under the stored cursor is not newer than a
\* record that was ingested, on a feed of one kind.
THEOREM FilterLosesNothing == Spec => []SkipsOnlyOld
<1>1. (~(part = "scan") => SkipsOnlyOld) /\ (Scan!SkipsOnlyOld => SkipsOnlyOld)
  BY DEF SkipsOnlyOld
<1> QED
  BY <1>1, OldSkipped, ScanBehaves, PTL
================================================================================
