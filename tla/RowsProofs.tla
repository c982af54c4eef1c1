------------------------------- MODULE RowsProofs -------------------------------
(***************************************************************************)
(* Theorems of the modules about rows that are written after a check, read *)
(* in several queries and shown on a page: Resources, Listing and          *)
(* PipelinesPage, each for every value of its constants.                   *)
(***************************************************************************)
EXTENDS
  RowAccess, Integers, Sequences, FiniteSets, FiniteSetTheorems, SequenceTheorems, WellFoundedInduction, TLAPS

-------------------------------------------------------------------------------
(* Sets and sequences. *)

\* A set that gains or loses at most the element c.
LEMMA OneElement ==
  ASSUME NEW S, NEW T, NEW c, IsFiniteSet(S), S \ {c} = T \ {c}
  PROVE  /\ IsFiniteSet(T) /\ Cardinality(S) \in Nat /\ Cardinality(T) \in Nat
         /\ c \in S /\ c \notin T => Cardinality(T) = Cardinality(S) - 1
         /\ c \notin S /\ c \in T => Cardinality(T) = Cardinality(S) + 1
         /\ (c \in S <=> c \in T) => Cardinality(T) = Cardinality(S)
  <1>1. CASE c \in S /\ c \notin T
    <2>1. T = S \ {c}
      BY <1>1
    <2> QED
      BY <1>1, <2>1, FS_RemoveElement, FS_CardinalityType
  <1>2. CASE c \notin S /\ c \in T
    <2>1. T = S \cup {c}
      BY <1>2
    <2> QED
      BY <1>2, <2>1, FS_AddElement, FS_CardinalityType
  <1>3. CASE c \in S <=> c \in T
    <2>1. T = S
      BY <1>3
    <2> QED
      BY <1>3, <2>1, FS_CardinalityType
  <1> QED
    BY <1>1, <1>2, <1>3

LEMMA OneMore ==
  ASSUME NEW S, NEW e, IsFiniteSet(S)
  PROVE  /\ IsFiniteSet(S \cup {e}) /\ Cardinality(S \cup {e}) \in Nat
         /\ Cardinality(S \cup {e}) <= Cardinality(S) + 1
  <1>1. /\ IsFiniteSet(S \cup {e})
        /\ Cardinality(S \cup {e}) = IF e \in S THEN Cardinality(S) ELSE Cardinality(S) + 1
    BY FS_AddElement
  <1>2. Cardinality(S) \in Nat /\ Cardinality(S \cup {e}) \in Nat
    BY <1>1, FS_CardinalityType
  <1> QED
    BY <1>1, <1>2

\* The least of some natural numbers, and the greatest of some that are bounded.
LEMMA LeastNat ==
  ASSUME NEW S, S \subseteq Nat, S # {}
  PROVE  \E m \in S : \A k \in S : m <= k
  <1>1. PICK m \in S : \A k \in S : <<k, m>> \notin OpToRel(<, Nat)
    BY NatLessThanWellFounded, WFMin
  <1>2. ASSUME NEW k \in S PROVE m <= k
    <2>1. k \in Nat /\ m \in Nat
      OBVIOUS
    <2>2. ~(k < m)
      BY <1>1, <2>1 DEF OpToRel
    <2> QED
      BY <2>1, <2>2
  <1> QED
    BY <1>2

LEMMA GreatestNat ==
  ASSUME NEW S, S \subseteq Nat, S # {}, NEW n \in Nat, \A k \in S : k <= n
  PROVE  \E m \in S : \A k \in S : k <= m
  <1> DEFINE R == {n - k : k \in S}
  <1>0. \A k \in S : k \in Nat /\ n - k \in Nat
    OBVIOUS
  <1>1. R \subseteq Nat /\ R # {}
    BY <1>0
  <1>2. PICK r \in R : \A k \in R : r <= k
    BY <1>1, LeastNat
  <1>3. PICK m \in S : r = n - m
    OBVIOUS
  <1>4. ASSUME NEW k \in S PROVE k <= m
    <2>1. n - k \in R
      OBVIOUS
    <2>2. n - m <= n - k
      BY <1>2, <1>3, <2>1
    <2> QED
      BY <1>0, <2>2
  <1> QED
    BY <1>4

\* The place of i in a set of numbers, the greatest first.
Rank(S, i) == Cardinality({j \in S : j >= i})

LEMMA RankType ==
  ASSUME NEW S, IsFiniteSet(S), NEW i
  PROVE  /\ Rank(S, i) \in Nat /\ Rank(S, i) <= Cardinality(S)
         /\ i \in S /\ S \subseteq Nat => Rank(S, i) >= 1
  <1>1. {j \in S : j >= i} \subseteq S
    OBVIOUS
  <1>2. Rank(S, i) \in Nat /\ Rank(S, i) <= Cardinality(S)
    BY <1>1, FS_Subset, FS_CardinalityType DEF Rank
  <1>3. ASSUME i \in S, S \subseteq Nat PROVE Rank(S, i) >= 1
    <2>1. IsFiniteSet({j \in S : j >= i}) /\ i \in {j \in S : j >= i}
      BY <1>1, <1>3, FS_Subset
    <2>2. Cardinality({j \in S : j >= i}) # 0
      BY <2>1, FS_EmptySet
    <2> QED
      BY <1>2, <2>2 DEF Rank
  <1> QED
    BY <1>2, <1>3

LEMMA RankGrows ==
  ASSUME NEW S, NEW U, S \subseteq U, IsFiniteSet(U), NEW i
  PROVE  Rank(S, i) <= Rank(U, i)
  <1>1. {j \in S : j >= i} \subseteq {j \in U : j >= i} /\ {j \in U : j >= i} \subseteq U
    OBVIOUS
  <1> QED
    BY <1>1, FS_Subset DEF Rank

LEMMA RankStrict ==
  ASSUME NEW S, IsFiniteSet(S), S \subseteq Nat, NEW i \in S, NEW j \in S, i < j
  PROVE  Rank(S, j) < Rank(S, i)
  <1> DEFINE I == {k \in S : k >= i}
             J == {k \in S : k >= j}
  <1>0. \A k \in S : k \in Nat
    OBVIOUS
  <1>1. J \subseteq I /\ I \subseteq S /\ i \in I /\ i \notin J
    <2>1. i \in I /\ i \notin J
      BY <1>0
    <2>2. \A k \in S : k >= j => k >= i
      BY <1>0
    <2> QED
      BY <2>1, <2>2
  <1>2. IsFiniteSet(I) /\ IsFiniteSet(J)
    BY <1>1, FS_Subset
  <1> HIDE DEF I, J
  <1>3. Cardinality(J) <= Cardinality(I) /\ Cardinality(J) # Cardinality(I)
    BY <1>1, <1>2, FS_Subset
  <1>4. Cardinality(J) < Cardinality(I)
    BY <1>2, <1>3, FS_CardinalityType
  <1> QED
    BY <1>4 DEF Rank, I, J

\* One number less, and who stands behind it moves up.
LEMMA RankRemoved ==
  ASSUME NEW S, IsFiniteSet(S), S \subseteq Nat, NEW i, NEW j \in S
  PROVE  /\ Rank(S \ {i}, j) \in {Rank(S, j), Rank(S, j) - 1}
         /\ i \notin S \/ i < j => Rank(S \ {i}, j) = Rank(S, j)
  <1>1. IsFiniteSet({k \in S : k >= j})
    BY FS_Subset
  <1>2. {k \in S \ {i} : k >= j} = {k \in S : k >= j} \ {i}
    OBVIOUS
  <1>3. Rank(S \ {i}, j) \in {Rank(S, j), Rank(S, j) - 1}
    BY <1>1, <1>2, FS_RemoveElement DEF Rank
  <1>4. ASSUME i \notin S \/ i < j PROVE Rank(S \ {i}, j) = Rank(S, j)
    <2>1. i \notin {k \in S : k >= j}
      <3>1. i \in S => i \in Nat /\ j \in Nat
        OBVIOUS
      <3> QED
        BY <1>4, <3>1
    <2>2. {k \in S \ {i} : k >= j} = {k \in S : k >= j}
      BY <1>2, <2>1
    <2> QED
      BY <2>2 DEF Rank
  <1> QED
    BY <1>3, <1>4

\* The first n places of a set are taken, unless it has fewer numbers.
LEMMA TopRanks ==
  ASSUME NEW S, IsFiniteSet(S), S \subseteq Nat, NEW b \in Nat, \A k \in S : k <= b, NEW n \in Nat
  PROVE  LET Top == {i \in S : Rank(S, i) <= n}
         IN  Top = S \/ Cardinality(Top) >= n
  <1> DEFINE Top == {i \in S : Rank(S, i) <= n}
  <1> SUFFICES ASSUME Top # S PROVE Cardinality(Top) >= n
    OBVIOUS
  <1>0. IsFiniteSet(Top)
    BY FS_Subset
  <1>1. S \ Top \subseteq Nat /\ S \ Top # {} /\ \A k \in S \ Top : k <= b
    OBVIOUS
  <1>2. PICK m \in S \ Top : \A k \in S \ Top : k <= m
    BY <1>1, GreatestNat
  <1>3. \A k \in Top : k > m
    <2> SUFFICES ASSUME NEW k \in Top, k <= m PROVE FALSE
      OBVIOUS
    <2>1. k # m /\ k \in S /\ m \in S /\ k \in Nat /\ m \in Nat
      OBVIOUS
    <2>2. Rank(S, m) < Rank(S, k)
      <3>1. k < m
        BY <2>1
      <3> QED
        BY <2>1, <3>1, RankStrict
    <2>3. Rank(S, k) <= n /\ ~(Rank(S, m) <= n)
      OBVIOUS
    <2> QED
      BY <2>2, <2>3, RankType
  <1>4. {j \in S : j >= m} = Top \cup {m}
    <2>1. \A j \in S : j \in Nat
      OBVIOUS
    <2>2. \A j \in S : j >= m => j \in Top \/ j = m
      BY <1>2, <2>1
    <2>3. m \in S /\ m >= m /\ \A j \in Top : j \in S /\ j >= m
      BY <1>3, <2>1
    <2> HIDE DEF Top
    <2> QED
      BY <2>2, <2>3
  <1>5. m \notin Top /\ Rank(S, m) = Cardinality(Top) + 1 /\ Rank(S, m) > n
    <2>1. m \notin Top /\ ~(Rank(S, m) <= n)
      OBVIOUS
    <2>2. Rank(S, m) = Cardinality(Top) + 1
      BY <1>0, <1>4, <2>1, FS_AddElement DEF Rank
    <2> QED
      BY <2>1, <2>2, RankType
  <1> QED
    BY <1>0, <1>5, FS_CardinalityType

-------------------------------------------------------------------------------
(***************************************************************************)
(* Resources.                                                              *)
(***************************************************************************)

\* Ids are not shared between tables, None is no value of a column, and a new
\* row has a status.
ColumnsAreDisjoint ==
  /\ Connectors \cap Pipelines = {}
  /\ None \notin Users \cup Connectors \cup Pipelines
  /\ Active \in Statuses
  /\ IsFiniteSet(Requests)

Row == [owner : Users \cup {None}, status : Statuses \cup {None},
        source : Connectors \cup {None}]
Handler ==
  [pc : {"idle", "read", "readSource", "write", "audit"},
   op : {"create", "update", "updateStatus"},
   user : Users \cup {None}, row : Resources!Rows \cup {None},
   status : Statuses \cup {None}, source : Connectors \cup {None},
   previous : Statuses \cup {None}, changed : BOOLEAN]

ResourcesTypeOK ==
  /\ rows \in [Resources!Rows -> Row]
  /\ req \in [Requests -> Handler]
  /\ \A r \in Requests :
       req[r].pc # "idle" => req[r].row \in Resources!Rows /\ req[r].user \in Users
  /\ chosenBy \in [Pipelines -> Users \cup {None}]
  /\ silent \in [Resources!Rows -> Nat]
  /\ overlaps \in Nat /\ faults \in Nat

LEMMA ResourcesTypeInit ==
  ASSUME ColumnsAreDisjoint, Resources!Init
  PROVE  ResourcesTypeOK
  <1>1. Resources!NoRow \in Row
    BY DEF Resources!NoRow, Row
  <1>2. Resources!Idle \in Handler /\ Resources!Idle.pc = "idle"
    BY DEF Resources!Idle, Handler
  <1> QED
    BY <1>1, <1>2 DEF Resources!Init, ResourcesTypeOK

\* A step of a handler is one of these changes of its record.
LEMMA HandlerMoves ==
  ASSUME ResourcesTypeOK, NEW r \in Requests, NEW h \in Handler,
         h.pc # "idle" => h.row \in Resources!Rows /\ h.user \in Users,
         req' = [req EXCEPT ![r] = h]
  PROVE  /\ req' \in [Requests -> Handler]
         /\ \A q \in Requests :
              req'[q].pc # "idle" => req'[q].row \in Resources!Rows /\ req'[q].user \in Users
         /\ req'[r] = h
         /\ \A q \in Requests \ {r} : req'[q] = req[q]
  <1>1. /\ req' \in [Requests -> Handler] /\ req'[r] = h
        /\ \A q \in Requests \ {r} : req'[q] = req[q]
    BY DEF ResourcesTypeOK
  <1>2. ASSUME NEW q \in Requests, req'[q].pc # "idle"
        PROVE  req'[q].row \in Resources!Rows /\ req'[q].user \in Users
    <2>1. CASE q = r
      BY <1>1, <1>2, <2>1
    <2>2. CASE q # r
      BY <1>1, <1>2, <2>2 DEF ResourcesTypeOK
    <2> QED
      BY <2>1, <2>2
  <1> QED
    BY <1>1, <1>2

\* The record of the handler after each of its steps.
LEMMA BeginMoves ==
  ASSUME ColumnsAreDisjoint, ResourcesTypeOK, NEW r \in Requests, Resources!Begin(r)
  PROVE  \E h \in Handler :
           /\ req' = [req EXCEPT ![r] = h] /\ h.pc # "idle"
           /\ h.row \in Resources!Rows /\ h.user \in Users /\ ~h.changed
           /\ h.pc = IF h.op # "create" THEN "read"
                     ELSE IF h.row \in Pipelines THEN "readSource" ELSE "write"
           /\ h.op = "create" => /\ ~Resources!Exists(h.row)
                                 /\ \A q \in Requests : req[q].row # h.row
                                 /\ h.status = Active
           /\ h.op # "create" => Resources!Exists(h.row)
           /\ h.row \in Connectors => h.source = None
           /\ h.row \in Pipelines /\ h.op = "create" => h.source # None
  <1>0. PICK u \in Users, x \in Resources!Rows, op \in {"create", "update", "updateStatus"} :
          \E st \in Statuses \cup {None}, source \in Connectors \cup {None} :
            Resources!Begin(r)!4!(u, x, op)!(st, source)
    BY DEF Resources!Begin
  <1>1. PICK st \in Statuses \cup {None}, source \in Connectors \cup {None} :
          Resources!Begin(r)!4!(u, x, op)!(st, source)
    BY <1>0
  <1> DEFINE h == [pc |-> IF op # "create" THEN "read"
                          ELSE IF x \in Pipelines THEN "readSource" ELSE "write",
                   op |-> op, user |-> u, row |-> x, status |-> st, source |-> source,
                   previous |-> None, changed |-> FALSE]
  <1>2. h \in Handler
    BY DEF Handler
  <1> WITNESS h \in Handler
  <1> QED
    BY <1>1

LEMMA ReadMoves ==
  ASSUME ResourcesTypeOK, NEW r \in Requests, Resources!Read(r)
  PROVE  \/ req' = [req EXCEPT ![r] = Resources!Idle]
         \/ /\ Resources!CanAccess(req[r].user, req[r].row)
            /\ \E h \in Handler :
                 /\ req' = [req EXCEPT ![r] = h]
                 /\ h.pc = IF req[r].source = None THEN "write" ELSE "readSource"
                 /\ h.previous = rows[req[r].row].status
                 /\ h.op = req[r].op /\ h.user = req[r].user /\ h.row = req[r].row
                 /\ h.status = req[r].status /\ h.source = req[r].source
                 /\ h.changed = req[r].changed
  <1>1. CASE ~Resources!CanAccess(req[r].user, req[r].row)
    BY <1>1 DEF Resources!Read, Resources!End
  <1>2. CASE Resources!CanAccess(req[r].user, req[r].row)
    <2> DEFINE h == [req[r] EXCEPT !.pc = IF req[r].source = None THEN "write" ELSE "readSource",
                                   !.previous = rows[req[r].row].status]
    <2>1. req[r] \in Handler /\ req[r].pc = "read"
      BY DEF ResourcesTypeOK, Resources!Read, Resources!At
    <2>2. req[r].row \in Resources!Rows
      BY <2>1 DEF ResourcesTypeOK
    <2>3. rows[req[r].row].status \in Statuses \cup {None}
      BY <2>2 DEF ResourcesTypeOK, Row
    <2>4. h \in Handler
      BY <2>1, <2>3 DEF Handler
    <2>5. req' = [req EXCEPT ![r] = h]
      BY <1>2, <2>1 DEF Resources!Read, ResourcesTypeOK
    <2>6. /\ h.pc = IF req[r].source = None THEN "write" ELSE "readSource"
          /\ h.previous = rows[req[r].row].status
          /\ h.op = req[r].op /\ h.user = req[r].user /\ h.row = req[r].row
          /\ h.status = req[r].status /\ h.source = req[r].source
          /\ h.changed = req[r].changed
      BY <2>1 DEF Handler
    <2> QED
      BY <1>2, <2>4, <2>5, <2>6
  <1> QED
    BY <1>1, <1>2

\* The handler h is g with another program counter.
SameRequest(h, g) ==
  /\ h.op = g.op /\ h.user = g.user /\ h.row = g.row
  /\ h.status = g.status /\ h.source = g.source

LEMMA GoMoves ==
  ASSUME ResourcesTypeOK, NEW r \in Requests,
         NEW pc \in {"read", "readSource", "write", "audit"}, Resources!Go(r, pc)
  PROVE  \E h \in Handler :
           /\ req' = [req EXCEPT ![r] = h] /\ h.pc = pc
           /\ SameRequest(h, req[r])
           /\ h.previous = req[r].previous /\ h.changed = req[r].changed
  <1> DEFINE h == [req[r] EXCEPT !.pc = pc]
  <1>1. req[r] \in Handler
    BY DEF ResourcesTypeOK
  <1>2. h \in Handler /\ h.pc = pc /\ SameRequest(h, req[r])
        /\ h.previous = req[r].previous /\ h.changed = req[r].changed
    BY <1>1 DEF Handler, SameRequest
  <1>3. req' = [req EXCEPT ![r] = h]
    BY DEF Resources!Go, ResourcesTypeOK
  <1> HIDE DEF h
  <1> QED
    BY <1>2, <1>3

LEMMA IdleType == Resources!Idle \in Handler /\ Resources!Idle.pc = "idle"
  BY DEF Resources!Idle, Handler

LEMMA EndMoves ==
  ASSUME ResourcesTypeOK, NEW r \in Requests, Resources!End(r)
  PROVE  /\ req' = [req EXCEPT ![r] = Resources!Idle]
         /\ req'[r].pc = "idle" /\ \A q \in Requests \ {r} : req'[q] = req[q]
  BY IdleType DEF Resources!End, ResourcesTypeOK

\* Write and what it makes of the row and the handler.
LEMMA WriteMoves ==
  ASSUME ResourcesTypeOK, NEW r \in Requests, Resources!Write(r)
  PROVE  /\ req[r].pc = "write" /\ req[r].row \in Resources!Rows /\ req[r].user \in Users
         /\ rows' = [rows EXCEPT ![req[r].row] = Resources!Written(r)]
         /\ Resources!Written(r) \in Row
         /\ UNCHANGED <<overlaps, begun, faults>>
         /\ \/ /\ Resources!IsAudited(r)
               /\ \E h \in Handler :
                    /\ req' = [req EXCEPT ![r] = h] /\ h.pc = "audit"
                    /\ SameRequest(h, req[r])
               /\ UNCHANGED silent
            \/ /\ ~Resources!IsAudited(r)
               /\ Resources!End(r)
               /\ silent' = [silent EXCEPT ![req[r].row] =
                    IF Resources!Written(r).status # rows[req[r].row].status THEN @ + 1 ELSE @]
  <1>1. req[r] \in Handler /\ req[r].pc = "write"
    BY DEF ResourcesTypeOK, Resources!Write, Resources!At
  <1>2. req[r].row \in Resources!Rows /\ req[r].user \in Users
    BY <1>1 DEF ResourcesTypeOK
  <1>3. rows[req[r].row] \in Row
    BY <1>2 DEF ResourcesTypeOK
  <1>4. Resources!Written(r) \in Row
    BY <1>1, <1>2, <1>3 DEF Resources!Written, Row, Handler
  <1>5. /\ rows' = [rows EXCEPT ![req[r].row] = Resources!Written(r)]
        /\ UNCHANGED <<overlaps, begun, faults>>
    BY DEF Resources!Write
  <1>6. CASE Resources!IsAudited(r)
    <2> DEFINE differs == Resources!Written(r).status # rows[req[r].row].status
               h == [req[r] EXCEPT !.pc = "audit", !.changed = differs]
    <2>1. h \in Handler /\ h.pc = "audit" /\ SameRequest(h, req[r])
      BY <1>1 DEF Handler, SameRequest
    <2>2. req' = [req EXCEPT ![r] = h] /\ UNCHANGED silent
      BY <1>6 DEF Resources!Write, ResourcesTypeOK
    <2> HIDE DEF h
    <2> QED
      BY <1>1, <1>2, <1>4, <1>5, <1>6, <2>1, <2>2
  <1>7. CASE ~Resources!IsAudited(r)
    BY <1>1, <1>2, <1>4, <1>5, <1>7 DEF Resources!Write
  <1> QED
    BY <1>6, <1>7

LEMMA WriteType ==
  ASSUME ResourcesTypeOK, NEW r \in Requests, Resources!Write(r)
  PROVE  /\ rows' \in [Resources!Rows -> Row]
         /\ silent' \in [Resources!Rows -> Nat]
         /\ chosenBy' \in [Pipelines -> Users \cup {None}]
  <1>1. /\ req[r].row \in Resources!Rows /\ req[r].user \in Users
        /\ Resources!Written(r) \in Row
        /\ rows' = [rows EXCEPT ![req[r].row] = Resources!Written(r)]
    BY WriteMoves
  <1>2. rows' \in [Resources!Rows -> Row]
    BY <1>1 DEF ResourcesTypeOK
  <1>3. silent' \in [Resources!Rows -> Nat]
    BY <1>1 DEF Resources!Write, ResourcesTypeOK
  <1>4. chosenBy' \in [Pipelines -> Users \cup {None}]
    BY <1>1 DEF Resources!Write, ResourcesTypeOK
  <1> QED
    BY <1>2, <1>3, <1>4

LEMMA ResourcesTypeNext ==
  ASSUME ColumnsAreDisjoint, ResourcesTypeOK, [Resources!Next]_(Resources!vars)
  PROVE  ResourcesTypeOK'
  <1> DEFINE HandlersOK == /\ req' \in [Requests -> Handler]
                           /\ \A r \in Requests : req'[r].pc # "idle" =>
                                req'[r].row \in Resources!Rows /\ req'[r].user \in Users
  <1>1. ASSUME NEW r \in Requests, Resources!End(r) PROVE HandlersOK
    BY <1>1, IdleType, HandlerMoves DEF Resources!End
  <1>2. ASSUME NEW r \in Requests, Resources!Begin(r) PROVE ResourcesTypeOK'
    <2>1. HandlersOK
      BY <1>2, BeginMoves, HandlerMoves
    <2> QED
      BY <1>2, <2>1 DEF Resources!Begin, ResourcesTypeOK
  <1>3. ASSUME NEW r \in Requests, NEW pc \in {"read", "readSource", "write", "audit"},
               req[r].pc # "idle", Resources!Go(r, pc)
        PROVE  HandlersOK
    <2>1. req[r].row \in Resources!Rows /\ req[r].user \in Users
      BY <1>3 DEF ResourcesTypeOK
    <2> QED
      BY <1>3, <2>1, GoMoves, HandlerMoves DEF SameRequest
  <1>4. ASSUME NEW r \in Requests, Resources!Read(r) PROVE ResourcesTypeOK'
    <2>1. req[r].row \in Resources!Rows /\ req[r].user \in Users
      BY <1>4 DEF ResourcesTypeOK, Resources!Read, Resources!At
    <2>2. HandlersOK
      BY <1>4, <2>1, IdleType, ReadMoves, HandlerMoves
    <2> QED
      BY <1>4, <2>2 DEF Resources!Read, ResourcesTypeOK
  <1>5. ASSUME NEW r \in Requests, Resources!ReadSource(r) PROVE ResourcesTypeOK'
    <2>1. HandlersOK
      BY <1>1, <1>3, <1>5 DEF Resources!ReadSource, Resources!At
    <2> QED
      BY <1>5, <2>1 DEF Resources!ReadSource, ResourcesTypeOK
  <1>6. ASSUME NEW r \in Requests, Resources!Write(r) PROVE ResourcesTypeOK'
    <2>1. HandlersOK
      BY <1>1, <1>6, WriteMoves, HandlerMoves DEF SameRequest
    <2> QED
      BY <1>6, <2>1, WriteType, WriteMoves DEF ResourcesTypeOK
  <1>7. ASSUME NEW r \in Requests, Resources!Audit(r) PROVE ResourcesTypeOK'
    BY <1>1, <1>7 DEF Resources!Audit, ResourcesTypeOK
  <1>8. ASSUME NEW r \in Requests, Resources!Fails(r) PROVE ResourcesTypeOK'
    <2>1. req[r].row \in Resources!Rows
      BY <1>8 DEF ResourcesTypeOK, Resources!Fails, Resources!At
    <2>2. silent' \in [Resources!Rows -> Nat]
      BY <1>8, <2>1 DEF Resources!Fails, ResourcesTypeOK
    <2> QED
      BY <1>1, <1>8, <2>2 DEF Resources!Fails, ResourcesTypeOK
  <1>9. CASE UNCHANGED Resources!vars
    BY <1>9 DEF Resources!vars, ResourcesTypeOK
  <1> QED
    BY <1>2, <1>4, <1>5, <1>6, <1>7, <1>8, <1>9 DEF Resources!Next

(* Changes of a status without an audit entry. *)

\* The handlers that may still write.
Pending == {r \in Requests : req[r].pc \in {"read", "readSource", "write"}}

\* The status that the handler has read is no longer that of the row.
Outdated(r, x) ==
  /\ req[r].pc \in {"readSource", "write"} /\ req[r].op # "create" /\ req[r].row = x
  /\ req[r].previous # rows[x].status

\* Of the handlers that run together one began alone, and has cost no overlap;
\* once a status has been read and then changed, one of them has written, and
\* its change has an entry.
SilentInv ==
  \A x \in Resources!Rows :
    /\ silent[x] <= overlaps + faults
    /\ silent[x] + Cardinality(Pending) <= overlaps + faults + 1
    /\ (\E r \in Requests : Outdated(r, x)) =>
         silent[x] + Cardinality(Pending) <= overlaps + faults

LEMMA PendingCount ==
  ASSUME ColumnsAreDisjoint
  PROVE  /\ IsFiniteSet(Pending) /\ Cardinality(Pending) \in Nat
         /\ IsFiniteSet(Pending)' /\ Cardinality(Pending)' \in Nat
  <1>1. IsFiniteSet(Requests) /\ Pending \subseteq Requests /\ Pending' \subseteq Requests
    BY DEF ColumnsAreDisjoint, Pending
  <1> QED
    BY <1>1, FS_Subset, FS_CardinalityType

\* One handler moves.
LEMMA PendingMoves ==
  ASSUME ColumnsAreDisjoint, NEW r \in Requests, \A q \in Requests \ {r} : req'[q] = req[q]
  PROVE  /\ r \in Pending /\ r \notin Pending' => Cardinality(Pending)' = Cardinality(Pending) - 1
         /\ r \notin Pending /\ r \in Pending' => Cardinality(Pending)' = Cardinality(Pending) + 1
         /\ (r \in Pending <=> r \in Pending') => Cardinality(Pending)' = Cardinality(Pending)
  <1>1. CASE r \in Pending /\ r \notin Pending'
    <2>1. Pending' = Pending \ {r}
      BY <1>1 DEF Pending
    <2> QED
      BY <1>1, <2>1, PendingCount, FS_RemoveElement
  <1>2. CASE r \notin Pending /\ r \in Pending'
    <2>1. Pending' = Pending \cup {r}
      BY <1>2 DEF Pending
    <2> QED
      BY <1>2, <2>1, PendingCount, FS_AddElement
  <1>3. CASE r \in Pending <=> r \in Pending'
    <2>1. Pending' = Pending
      BY <1>3 DEF Pending
    <2> QED
      BY <1>3, <2>1
  <1> QED
    BY <1>1, <1>2, <1>3

LEMMA SilentInit ==
  ASSUME ColumnsAreDisjoint, Resources!Init
  PROVE  SilentInv
  <1>1. Pending = {} /\ \A r \in Requests : req[r].pc = "idle"
    BY DEF Resources!Init, Resources!Idle, Pending
  <1>2. Cardinality(Pending) = 0
    BY <1>1, FS_EmptySet
  <1> QED
    BY <1>1, <1>2 DEF Resources!Init, SilentInv, Outdated

\* A handler begins: the first of those that run together, or an overlap.
LEMMA SilentBegin ==
  ASSUME ColumnsAreDisjoint, ResourcesTypeOK, SilentInv,
         NEW r \in Requests, Resources!Begin(r)
  PROVE  SilentInv'
  <1>1. PICK h \in Handler : /\ req' = [req EXCEPT ![r] = h]
                             /\ h.pc \in {"read", "readSource", "write"}
                             /\ h.op # "create" => h.pc = "read"
    BY BeginMoves
  <1>2. /\ req'[r] = h /\ \A q \in Requests \ {r} : req'[q] = req[q]
        /\ req[r].pc = "idle"
        /\ rows' = rows /\ silent' = silent /\ faults' = faults
        /\ overlaps' = IF Resources!Quiet THEN overlaps ELSE overlaps + 1
    BY <1>1 DEF ResourcesTypeOK, Resources!Begin, Resources!At
  <1>3. Cardinality(Pending)' = Cardinality(Pending) + 1 /\ Cardinality(Pending) \in Nat
    BY <1>1, <1>2, PendingMoves, PendingCount DEF Pending
  <1>4. \A q \in Requests, x \in Resources!Rows : Outdated(q, x)' => Outdated(q, x)
    BY <1>1, <1>2 DEF Outdated
  <1>5. Resources!Quiet => Cardinality(Pending) = 0 /\ \A q \in Requests : \A x : ~Outdated(q, x)
    <2>1. Resources!Quiet => Pending = {}
      BY DEF Resources!Quiet, Resources!At, Pending
    <2> QED
      BY <2>1, FS_EmptySet DEF Resources!Quiet, Resources!At, Outdated
  <1> SUFFICES ASSUME NEW x \in Resources!Rows
               PROVE  /\ silent[x] <= overlaps' + faults
                      /\ silent[x] + Cardinality(Pending)' <= overlaps' + faults + 1
                      /\ (\E q \in Requests : Outdated(q, x)') =>
                           silent[x] + Cardinality(Pending)' <= overlaps' + faults
    BY <1>2 DEF SilentInv
  <1>6. silent[x] \in Nat /\ overlaps \in Nat /\ faults \in Nat
    BY DEF ResourcesTypeOK
  <1>7. /\ silent[x] <= overlaps + faults
        /\ silent[x] + Cardinality(Pending) <= overlaps + faults + 1
        /\ (\E q \in Requests : Outdated(q, x)) =>
             silent[x] + Cardinality(Pending) <= overlaps + faults
    BY DEF SilentInv
  <1>8. CASE Resources!Quiet
    BY <1>2, <1>3, <1>4, <1>5, <1>6, <1>7, <1>8
  <1>9. CASE ~Resources!Quiet
    BY <1>2, <1>3, <1>4, <1>6, <1>7, <1>9
  <1> QED
    BY <1>8, <1>9

\* A handler reads, is refused or ends without having written.
LEMMA SilentKept ==
  ASSUME ColumnsAreDisjoint, ResourcesTypeOK, SilentInv, NEW r \in Requests,
         \A q \in Requests \ {r} : req'[q] = req[q], r \in Pending' => r \in Pending,
         \A x \in Resources!Rows : Outdated(r, x)' => Outdated(r, x),
         UNCHANGED <<rows, silent, overlaps, faults>>
  PROVE  SilentInv'
  <1>1. /\ Cardinality(Pending)' <= Cardinality(Pending)
        /\ Cardinality(Pending) \in Nat /\ Cardinality(Pending)' \in Nat
    BY PendingMoves, PendingCount
  <1>2. \A q \in Requests, x \in Resources!Rows : Outdated(q, x)' => Outdated(q, x)
    BY DEF Outdated
  <1> SUFFICES ASSUME NEW x \in Resources!Rows
               PROVE  /\ silent[x] <= overlaps + faults
                      /\ silent[x] + Cardinality(Pending)' <= overlaps + faults + 1
                      /\ (\E q \in Requests : Outdated(q, x)') =>
                           silent[x] + Cardinality(Pending)' <= overlaps + faults
    BY DEF SilentInv
  <1>3. silent[x] \in Nat /\ overlaps \in Nat /\ faults \in Nat
    BY DEF ResourcesTypeOK
  <1>4. /\ silent[x] <= overlaps + faults
        /\ silent[x] + Cardinality(Pending) <= overlaps + faults + 1
        /\ (\E q \in Requests : Outdated(q, x)) =>
             silent[x] + Cardinality(Pending) <= overlaps + faults
    BY DEF SilentInv
  <1>5. (\E q \in Requests : Outdated(q, x)') => \E q \in Requests : Outdated(q, x)
    BY <1>2
  <1> QED
    BY <1>1, <1>3, <1>4, <1>5

\* A change that gets no entry is written by a handler whose status is outdated.
LEMMA SilentChangeIsOutdated ==
  ASSUME ResourcesTypeOK, NEW r \in Requests, req[r].pc = "write",
         ~Resources!IsAudited(r), Resources!Written(r).status # rows[req[r].row].status
  PROVE  Outdated(r, req[r].row)
  <1>1. req[r].op = "update" /\ (req[r].status = None \/ req[r].status = req[r].previous)
    BY DEF Resources!IsAudited
  <1>2. req[r].status # None /\ Resources!Written(r).status = req[r].status
    BY DEF Resources!Written
  <1> QED
    BY <1>1, <1>2 DEF Outdated

LEMMA SilentWrite ==
  ASSUME ColumnsAreDisjoint, ResourcesTypeOK, SilentInv,
         NEW r \in Requests, Resources!Write(r)
  PROVE  SilentInv'
  <1>1. /\ req[r].pc = "write" /\ req[r].row \in Resources!Rows
        /\ rows' = [rows EXCEPT ![req[r].row] = Resources!Written(r)]
        /\ overlaps' = overlaps /\ faults' = faults
    BY WriteMoves
  <1>2. req'[r].pc \in {"audit", "idle"} /\ \A q \in Requests \ {r} : req'[q] = req[q]
    <2>1. CASE Resources!IsAudited(r)
      BY <2>1, WriteMoves DEF ResourcesTypeOK
    <2>2. CASE ~Resources!IsAudited(r)
      BY <2>2, WriteMoves, EndMoves
    <2> QED
      BY <2>1, <2>2
  <1>3. /\ Cardinality(Pending)' = Cardinality(Pending) - 1
        /\ Cardinality(Pending) \in Nat /\ Cardinality(Pending)' \in Nat
    BY <1>1, <1>2, PendingMoves, PendingCount DEF Pending
  <1> SUFFICES ASSUME NEW x \in Resources!Rows
               PROVE  /\ silent'[x] <= overlaps + faults
                      /\ silent'[x] + Cardinality(Pending)' <= overlaps + faults
    <2> SUFFICES silent' \in [Resources!Rows -> Nat]
      BY <1>1, <1>3 DEF SilentInv, ResourcesTypeOK
    <2> QED
      BY WriteType
  <1>4. silent[x] \in Nat /\ overlaps \in Nat /\ faults \in Nat
    BY DEF ResourcesTypeOK
  <1>5. /\ silent[x] <= overlaps + faults
        /\ silent[x] + Cardinality(Pending) <= overlaps + faults + 1
        /\ (\E q \in Requests : Outdated(q, x)) =>
             silent[x] + Cardinality(Pending) <= overlaps + faults
    BY DEF SilentInv
  <1>6. CASE silent'[x] = silent[x]
    BY <1>3, <1>4, <1>5, <1>6
  <1>7. CASE silent'[x] # silent[x]
    <2>1. /\ ~Resources!IsAudited(r) /\ x = req[r].row
          /\ Resources!Written(r).status # rows[x].status
          /\ silent'[x] = silent[x] + 1
      BY <1>7, WriteMoves DEF ResourcesTypeOK
    <2>2. Outdated(r, x)
      BY <1>1, <2>1, SilentChangeIsOutdated
    <2>3. silent[x] + Cardinality(Pending) <= overlaps + faults
      BY <1>5, <2>2
    <2> QED
      BY <1>3, <1>4, <2>1, <2>3
  <1> QED
    BY <1>6, <1>7

\* A call that rejects costs a fault, whatever it leaves without an entry.
LEMMA SilentFails ==
  ASSUME ColumnsAreDisjoint, ResourcesTypeOK, SilentInv,
         NEW r \in Requests, Resources!Fails(r)
  PROVE  SilentInv'
  <1>1. /\ req'[r].pc = "idle" /\ \A q \in Requests \ {r} : req'[q] = req[q]
        /\ rows' = rows /\ overlaps' = overlaps /\ faults' = faults + 1
    BY EndMoves DEF Resources!Fails
  <1>2. \A x \in Resources!Rows : silent'[x] \in {silent[x], silent[x] + 1}
    BY DEF Resources!Fails, ResourcesTypeOK
  <1>3. /\ Cardinality(Pending)' <= Cardinality(Pending)
        /\ Cardinality(Pending) \in Nat /\ Cardinality(Pending)' \in Nat
    BY <1>1, PendingMoves, PendingCount DEF Pending
  <1>4. \A q \in Requests, x \in Resources!Rows : Outdated(q, x)' => Outdated(q, x)
    BY <1>1 DEF Outdated
  <1> SUFFICES ASSUME NEW x \in Resources!Rows
               PROVE  /\ silent'[x] <= overlaps + (faults + 1)
                      /\ silent'[x] + Cardinality(Pending)' <= overlaps + (faults + 1) + 1
                      /\ (\E q \in Requests : Outdated(q, x)') =>
                           silent'[x] + Cardinality(Pending)' <= overlaps + (faults + 1)
    BY <1>1 DEF SilentInv
  <1>5. silent[x] \in Nat /\ overlaps \in Nat /\ faults \in Nat
    BY DEF ResourcesTypeOK
  <1>6. /\ silent[x] <= overlaps + faults
        /\ silent[x] + Cardinality(Pending) <= overlaps + faults + 1
        /\ (\E q \in Requests : Outdated(q, x)) =>
             silent[x] + Cardinality(Pending) <= overlaps + faults
    BY DEF SilentInv
  <1>7. (\E q \in Requests : Outdated(q, x)') => \E q \in Requests : Outdated(q, x)
    BY <1>4
  <1> QED
    BY <1>2, <1>3, <1>5, <1>6, <1>7

LEMMA SilentNext ==
  ASSUME ColumnsAreDisjoint, ResourcesTypeOK, SilentInv, [Resources!Next]_(Resources!vars)
  PROVE  SilentInv'
  <1>1. ASSUME NEW r \in Requests, Resources!Read(r) PROVE SilentInv'
    <2>1. CASE req' = [req EXCEPT ![r] = Resources!Idle]
      <3>1. req'[r].pc = "idle" /\ \A q \in Requests \ {r} : req'[q] = req[q]
        BY <2>1, IdleType DEF ResourcesTypeOK
      <3> QED
        BY <1>1, <3>1, SilentKept DEF Resources!Read, Pending, Outdated
    <2>2. ASSUME NEW h \in Handler, req' = [req EXCEPT ![r] = h],
                 h.pc = IF req[r].source = None THEN "write" ELSE "readSource",
                 h.previous = rows[req[r].row].status, h.row = req[r].row
          PROVE  SilentInv'
      <3>1. req'[r] = h /\ \A q \in Requests \ {r} : req'[q] = req[q]
        BY <2>2 DEF ResourcesTypeOK
      <3>2. rows' = rows /\ req[r].pc = "read"
        BY <1>1 DEF Resources!Read, Resources!At
      <3>3. \A x \in Resources!Rows : ~Outdated(r, x)'
        BY <2>2, <3>1, <3>2 DEF Outdated
      <3> QED
        BY <1>1, <3>1, <3>2, <3>3, SilentKept DEF Resources!Read, Pending
    <2> QED
      BY <1>1, <2>1, <2>2, ReadMoves
  <1>2. ASSUME NEW r \in Requests, Resources!ReadSource(r) PROVE SilentInv'
    <2>0. req[r].pc = "readSource"
      BY <1>2 DEF Resources!ReadSource, Resources!At
    <2>1. CASE Resources!End(r)
      BY <1>2, <2>0, <2>1, EndMoves, SilentKept DEF Resources!ReadSource, Pending, Outdated
    <2>2. CASE Resources!Go(r, "write")
      <3>1. PICK h \in Handler : /\ req' = [req EXCEPT ![r] = h] /\ h.pc = "write"
                                 /\ SameRequest(h, req[r]) /\ h.previous = req[r].previous
        BY <2>2, GoMoves
      <3>2. req'[r] = h /\ \A q \in Requests \ {r} : req'[q] = req[q]
        BY <3>1 DEF ResourcesTypeOK
      <3>3. rows' = rows
        BY <1>2 DEF Resources!ReadSource
      <3>4. \A x \in Resources!Rows : Outdated(r, x)' => Outdated(r, x)
        BY <2>0, <3>1, <3>2, <3>3 DEF Outdated, SameRequest
      <3> QED
        BY <1>2, <2>0, <3>2, <3>4, SilentKept DEF Resources!ReadSource, Pending
    <2> QED
      BY <1>2, <2>1, <2>2 DEF Resources!ReadSource
  <1>3. ASSUME NEW r \in Requests, Resources!Audit(r) PROVE SilentInv'
    BY <1>3, EndMoves, SilentKept DEF Resources!Audit, Pending, Outdated
  <1>4. CASE UNCHANGED Resources!vars
    BY <1>4 DEF Resources!vars, SilentInv, Outdated, Pending
  <1> QED
    BY <1>1, <1>2, <1>3, <1>4, SilentBegin, SilentWrite, SilentFails DEF Resources!Next

\* For any users, rows and handlers: each change of a status that left no audit
\* entry has cost an overlap of two requests or a call that rejected.
LEMMA StatusChangesLogged ==
  ASSUME ColumnsAreDisjoint
  PROVE  Resources!Spec => []Resources!SilentChangesCostOverlaps
  <1>1. Resources!Init => ResourcesTypeOK /\ SilentInv
    BY ResourcesTypeInit, SilentInit
  <1>2. ResourcesTypeOK /\ SilentInv /\ [Resources!Next]_(Resources!vars)
          => ResourcesTypeOK' /\ SilentInv'
    BY ResourcesTypeNext, SilentNext
  <1>3. SilentInv => Resources!SilentChangesCostOverlaps
    BY DEF SilentInv, Resources!SilentChangesCostOverlaps
  <1> QED
    BY <1>1, <1>2, <1>3, PTL DEF Resources!Spec

(* The source of a pipeline. *)

\* A row that exists has an owner.
OwnersOK == \A x \in Resources!Rows : Resources!Exists(x) => rows[x].owner \in Users

\* A handler that creates a row is the only one that has its id.
CreateOK(r) ==
  req[r].pc \in {"readSource", "write"} /\ req[r].op = "create" =>
    /\ ~Resources!Exists(req[r].row)
    /\ req[r].row \in Pipelines => req[r].source # None
    /\ \A q \in Requests \ {r} : req[q].row # req[r].row

\* A handler that writes to a row has found it, and may write to it.
UpdateOK(r) ==
  /\ req[r].pc = "read" => req[r].op # "create"
  /\ req[r].pc \in {"read", "readSource", "write"} /\ req[r].op # "create" =>
       /\ Resources!Exists(req[r].row)
       /\ req[r].pc # "read" => Resources!CanAccess(req[r].user, req[r].row)

\* A source that is about to be written has been checked.
CheckOK(r) ==
  /\ req[r].pc = "readSource" => req[r].source # None
  /\ req[r].row \in Connectors => req[r].source = None
  /\ req[r].pc = "write" /\ req[r].source # None =>
       Resources!Exists(req[r].source) /\ Resources!CanAccess(req[r].user, req[r].source)

HandlersOK == \A r \in Requests : CreateOK(r) /\ UpdateOK(r) /\ CheckOK(r)

SourceInv == OwnersOK /\ HandlersOK /\ Resources!SourceIsUsable

\* No row is deleted and no owner changes.
RowsGrow ==
  \A x \in Resources!Rows :
    Resources!Exists(x) => Resources!Exists(x)' /\ rows'[x].owner = rows[x].owner

LEMMA NobodyIsNone ==
  ASSUME ColumnsAreDisjoint, NEW row, row.owner \in Users
  PROVE  row # Resources!NoRow
  BY DEF ColumnsAreDisjoint, Resources!NoRow

LEMMA SourceInit ==
  ASSUME ColumnsAreDisjoint, Resources!Init
  PROVE  SourceInv
  <1>1. \A x \in Resources!Rows : ~Resources!Exists(x)
    BY DEF Resources!Init, Resources!Exists
  <1>2. OwnersOK /\ Resources!SourceIsUsable
    BY <1>1 DEF OwnersOK, Resources!SourceIsUsable, Resources!Rows
  <1>3. \A r \in Requests : req[r].pc = "idle" /\ req[r].row = None
    BY DEF Resources!Init, Resources!Idle
  <1>4. HandlersOK
    BY <1>3 DEF HandlersOK, CreateOK, UpdateOK, CheckOK, ColumnsAreDisjoint
  <1> QED
    BY <1>2, <1>4 DEF SourceInv

\* What a row of a write is, when the handler was entitled to write it.
LEMMA WriteGrows ==
  ASSUME ColumnsAreDisjoint, ResourcesTypeOK, SourceInv,
         NEW r \in Requests, Resources!Write(r)
  PROVE  /\ RowsGrow
         /\ rows'[req[r].row] # Resources!NoRow /\ rows'[req[r].row] = Resources!Written(r)
         /\ rows'[req[r].row].owner \in Users
         /\ \A x \in Resources!Rows \ {req[r].row} : rows'[x] = rows[x]
  <1>1. /\ req[r].pc = "write" /\ req[r].row \in Resources!Rows /\ req[r].user \in Users
        /\ rows' = [rows EXCEPT ![req[r].row] = Resources!Written(r)] /\ req[r].row # None
    BY WriteMoves DEF ColumnsAreDisjoint, Resources!Rows
  <1>2. /\ rows'[req[r].row] = Resources!Written(r)
        /\ \A y \in Resources!Rows \ {req[r].row} : rows'[y] = rows[y]
    BY <1>1 DEF ResourcesTypeOK
  <1>3. /\ rows'[req[r].row].owner \in Users
        /\ Resources!Exists(req[r].row) => rows'[req[r].row].owner = rows[req[r].row].owner
    <2>1. CASE req[r].op = "create"
      <3>1. ~Resources!Exists(req[r].row)
        BY <1>1, <2>1 DEF SourceInv, HandlersOK, CreateOK
      <3>2. rows'[req[r].row].owner = req[r].user
        BY <1>2, <2>1 DEF Resources!Written
      <3> QED
        BY <1>1, <3>1, <3>2
    <2>2. CASE req[r].op # "create"
      <3>1. Resources!Exists(req[r].row) /\ rows[req[r].row].owner \in Users
        BY <1>1, <2>2 DEF SourceInv, HandlersOK, UpdateOK, OwnersOK
      <3>2. rows'[req[r].row].owner = rows[req[r].row].owner
        BY <1>2, <2>2 DEF Resources!Written
      <3> QED
        BY <3>1, <3>2
    <2> QED
      BY <2>1, <2>2
  <1>4. rows'[req[r].row] # Resources!NoRow
    BY <1>3, NobodyIsNone
  <1>5. ASSUME NEW y \in Resources!Rows, rows[y] # Resources!NoRow
        PROVE  rows'[y] # Resources!NoRow /\ rows'[y].owner = rows[y].owner
    BY <1>2, <1>3, <1>4, <1>5 DEF Resources!Exists
  <1>6. RowsGrow
    BY <1>5 DEF RowsGrow, Resources!Exists
  <1> QED
    BY <1>2, <1>3, <1>4, <1>6

\* What a handler has found stays true while another one, r, takes a step.
LEMMA OthersStay ==
  ASSUME ColumnsAreDisjoint, ResourcesTypeOK, HandlersOK, RowsGrow,
         NEW r \in Requests, NEW q \in Requests \ {r},
         \A s \in Requests \ {r} : req'[s] = req[s],
         \/ req'[r].row \in {req[r].row, None}
         \/ Resources!Exists(req'[r].row)
         \/ \A s \in Requests : req[s].row # req'[r].row,
         \A x \in Resources!Rows : rows'[x] = rows[x] \/ x = req[r].row
  PROVE  CreateOK(q)' /\ UpdateOK(q)' /\ CheckOK(q)'
  <1>1. CreateOK(q) /\ UpdateOK(q) /\ CheckOK(q) /\ req'[q] = req[q]
    BY DEF HandlersOK
  <1>2. req[q] \in Handler
    BY DEF ResourcesTypeOK
  <1>3. req[q].pc # "idle" => req[q].row \in Resources!Rows /\ req[q].row # None
    BY DEF ResourcesTypeOK, ColumnsAreDisjoint, Resources!Rows
  <1>4. req[q].source # None => req[q].source \in Resources!Rows
    BY <1>2 DEF Handler, Resources!Rows
  <1>5. CreateOK(q)'
    <2> SUFFICES ASSUME req[q].pc \in {"readSource", "write"}, req[q].op = "create"
                 PROVE  /\ ~Resources!Exists(req[q].row)'
                        /\ req[q].row \in Pipelines => req[q].source # None
                        /\ \A s \in Requests \ {q} : req'[s].row # req[q].row
      BY <1>1 DEF CreateOK, Resources!Exists
    <2>1. /\ ~Resources!Exists(req[q].row)
          /\ req[q].row \in Pipelines => req[q].source # None
          /\ \A s \in Requests \ {q} : req[s].row # req[q].row
          /\ req[q].row \in Resources!Rows /\ req[q].row # None
      BY <1>1, <1>3 DEF CreateOK
    <2>2. ~Resources!Exists(req[q].row)'
      <3>1. rows'[req[q].row] = rows[req[q].row]
        BY <2>1
      <3> QED
        BY <1>1, <2>1, <3>1 DEF Resources!Exists
    <2>3. \A s \in Requests \ {q} : req'[s].row # req[q].row
      BY <2>1
    <2> QED
      BY <2>1, <2>2, <2>3
  <1>6. UpdateOK(q)'
    BY <1>1, <1>3 DEF UpdateOK, RowsGrow, Resources!CanAccess, Resources!Exists
  <1>7. CheckOK(q)'
    BY <1>1, <1>4 DEF CheckOK, RowsGrow, Resources!CanAccess, Resources!Exists
  <1> QED
    BY <1>5, <1>6, <1>7

\* A step that writes no row: only the handler that takes it is to be looked at.
LEMMA SourceKept ==
  ASSUME ColumnsAreDisjoint, ResourcesTypeOK, SourceInv, NEW r \in Requests,
         \A s \in Requests \ {r} : req'[s] = req[s],
         \/ req'[r].row \in {req[r].row, None}
         \/ Resources!Exists(req'[r].row)
         \/ \A s \in Requests : req[s].row # req'[r].row,
         UNCHANGED <<rows, chosenBy>>, CreateOK(r)', UpdateOK(r)', CheckOK(r)'
  PROVE  SourceInv'
  <1>1. RowsGrow
    BY DEF RowsGrow, Resources!Exists
  <1>2. OwnersOK' /\ Resources!SourceIsUsable'
    BY DEF SourceInv, OwnersOK, Resources!SourceIsUsable, Resources!Exists
  <1>3. ASSUME NEW q \in Requests PROVE CreateOK(q)' /\ UpdateOK(q)' /\ CheckOK(q)'
    <2>1. CASE q # r
      BY <1>1, <2>1, OthersStay DEF SourceInv
    <2> QED
      BY <2>1
  <1> QED
    BY <1>2, <1>3 DEF SourceInv, HandlersOK

LEMMA SourceEnd ==
  ASSUME ColumnsAreDisjoint, ResourcesTypeOK, SourceInv, NEW r \in Requests,
         Resources!End(r), UNCHANGED <<rows, chosenBy>>
  PROVE  SourceInv'
  <1>1. req'[r] = Resources!Idle /\ \A s \in Requests \ {r} : req'[s] = req[s]
    BY EndMoves DEF ResourcesTypeOK
  <1>2. req'[r].pc = "idle" /\ req'[r].row = None /\ None \notin Connectors
    BY <1>1 DEF Resources!Idle, ColumnsAreDisjoint
  <1>3. CreateOK(r)' /\ UpdateOK(r)' /\ CheckOK(r)'
    BY <1>2 DEF CreateOK, UpdateOK, CheckOK
  <1> QED
    BY <1>1, <1>2, <1>3, SourceKept

LEMMA SourceBegin ==
  ASSUME ColumnsAreDisjoint, ResourcesTypeOK, SourceInv,
         NEW r \in Requests, Resources!Begin(r)
  PROVE  SourceInv'
  <1>1. PICK h \in Handler :
          /\ req' = [req EXCEPT ![r] = h]
          /\ h.row \in Resources!Rows
          /\ h.pc = IF h.op # "create" THEN "read"
                    ELSE IF h.row \in Pipelines THEN "readSource" ELSE "write"
          /\ h.op = "create" => /\ ~Resources!Exists(h.row)
                                /\ \A q \in Requests : req[q].row # h.row
          /\ h.op # "create" => Resources!Exists(h.row)
          /\ h.row \in Connectors => h.source = None
          /\ h.row \in Pipelines /\ h.op = "create" => h.source # None
    BY BeginMoves
  <1>2. /\ req'[r] = h /\ \A s \in Requests \ {r} : req'[s] = req[s]
        /\ rows' = rows /\ chosenBy' = chosenBy
    BY <1>1 DEF ResourcesTypeOK, Resources!Begin
  <1>3. CreateOK(r)'
    BY <1>1, <1>2 DEF CreateOK, Resources!Exists
  <1>4. UpdateOK(r)'
    BY <1>1, <1>2 DEF UpdateOK, Resources!Exists
  <1>5. CheckOK(r)'
    BY <1>1, <1>2 DEF CheckOK, Resources!Rows
  <1> QED
    BY <1>1, <1>2, <1>3, <1>4, <1>5, SourceKept

LEMMA SourceRead ==
  ASSUME ColumnsAreDisjoint, ResourcesTypeOK, SourceInv,
         NEW r \in Requests, Resources!Read(r)
  PROVE  SourceInv'
  <1>1. req[r].pc = "read" /\ rows' = rows /\ chosenBy' = chosenBy
    BY DEF Resources!Read, Resources!At
  <1>2. CASE req' = [req EXCEPT ![r] = Resources!Idle]
    BY <1>1, <1>2, SourceEnd DEF Resources!End
  <1>3. ASSUME NEW h \in Handler, req' = [req EXCEPT ![r] = h],
               h.pc = IF req[r].source = None THEN "write" ELSE "readSource",
               SameRequest(h, req[r]), Resources!CanAccess(req[r].user, req[r].row)
        PROVE  SourceInv'
    <2>1. req'[r] = h /\ \A s \in Requests \ {r} : req'[s] = req[s]
      BY <1>3 DEF ResourcesTypeOK
    <2>2. CreateOK(r) /\ UpdateOK(r) /\ CheckOK(r)
      BY DEF SourceInv, HandlersOK
    <2>3. UpdateOK(r)'
      BY <1>1, <1>3, <2>1, <2>2
      DEF UpdateOK, SameRequest, Resources!Exists, Resources!CanAccess
    <2>4. CheckOK(r)'
      BY <1>1, <1>3, <2>1, <2>2 DEF CheckOK, SameRequest
    <2>5. req[r].op # "create" => CreateOK(r)'
      BY <1>3, <2>1 DEF CreateOK, SameRequest
    <2>6. req[r].op # "create"
      BY <1>1, <2>2 DEF UpdateOK
    <2> QED
      BY <1>1, <1>3, <2>1, <2>3, <2>4, <2>5, <2>6, SourceKept DEF SameRequest
  <1> QED
    BY <1>2, <1>3, ReadMoves DEF SameRequest

LEMMA SourceReadSource ==
  ASSUME ColumnsAreDisjoint, ResourcesTypeOK, SourceInv,
         NEW r \in Requests, Resources!ReadSource(r)
  PROVE  SourceInv'
  <1>1. req[r].pc = "readSource" /\ rows' = rows /\ chosenBy' = chosenBy
    BY DEF Resources!ReadSource, Resources!At
  <1>2. CASE Resources!End(r)
    BY <1>1, <1>2, SourceEnd
  <1>3. CASE /\ Resources!Exists(req[r].source)
             /\ Resources!CanAccess(req[r].user, req[r].source)
             /\ Resources!Go(r, "write")
    <2>0. PICK h \in Handler : /\ req' = [req EXCEPT ![r] = h] /\ h.pc = "write"
                               /\ SameRequest(h, req[r])
      BY <1>3, GoMoves
    <2>1. req'[r] = h /\ \A s \in Requests \ {r} : req'[s] = req[s]
      BY <2>0 DEF ResourcesTypeOK
    <2>2. CreateOK(r) /\ UpdateOK(r) /\ CheckOK(r)
      BY DEF SourceInv, HandlersOK
    <2>3. UpdateOK(r)'
      BY <1>1, <2>0, <2>1, <2>2
      DEF UpdateOK, SameRequest, Resources!Exists, Resources!CanAccess
    <2>4. CheckOK(r)'
      BY <1>1, <1>3, <2>0, <2>1, <2>2
      DEF CheckOK, SameRequest, Resources!Exists, Resources!CanAccess
    <2>5. CreateOK(r)'
      BY <1>1, <2>0, <2>1, <2>2 DEF CreateOK, SameRequest, Resources!Exists
    <2> QED
      BY <1>1, <2>0, <2>1, <2>3, <2>4, <2>5, SourceKept DEF SameRequest
  <1> QED
    BY <1>2, <1>3 DEF Resources!ReadSource

\* The row that a pipeline has after a write, and who has chosen its source.
WritePipeline(r) ==
  LET p == req[r].row IN
  p \in Pipelines =>
    /\ rows'[p].source \in Connectors
    /\ rows'[rows'[p].source] # Resources!NoRow
    /\ \/ Resources!IsPrivileged(chosenBy'[p])
       \/ /\ rows'[rows'[p].source].owner = chosenBy'[p]
          /\ rows'[p].owner = chosenBy'[p]

LEMMA SourceWritten ==
  ASSUME ColumnsAreDisjoint, ResourcesTypeOK, SourceInv,
         NEW r \in Requests, Resources!Write(r)
  PROVE  WritePipeline(r)
  <1> SUFFICES ASSUME req[r].row \in Pipelines
               PROVE  /\ rows'[req[r].row].source \in Connectors
                      /\ rows'[rows'[req[r].row].source] # Resources!NoRow
                      /\ \/ Resources!IsPrivileged(chosenBy'[req[r].row])
                         \/ /\ rows'[rows'[req[r].row].source].owner = chosenBy'[req[r].row]
                            /\ rows'[req[r].row].owner = chosenBy'[req[r].row]
    BY DEF WritePipeline
  <1>1. /\ req[r] \in Handler /\ req[r].pc = "write"
        /\ CreateOK(r) /\ UpdateOK(r) /\ CheckOK(r)
    BY WriteMoves DEF ResourcesTypeOK, SourceInv, HandlersOK
  <1>2. rows'[req[r].row] = Resources!Written(r) /\ RowsGrow
    BY WriteGrows
  <1>3. chosenBy' = IF req[r].source = None THEN chosenBy
                    ELSE [chosenBy EXCEPT ![req[r].row] = req[r].user]
    BY DEF Resources!Write
  <1>4. \A c \in Connectors : Resources!Exists(c) =>
          rows'[c] # Resources!NoRow /\ rows'[c].owner = rows[c].owner
    BY <1>2 DEF RowsGrow, Resources!Exists, Resources!Rows
  <1>5. CASE req[r].source # None
    <2>1. req[r].source \in Connectors /\ rows'[req[r].row].source = req[r].source
      BY <1>1, <1>2, <1>5 DEF Handler, Resources!Written
    <2>2. Resources!Exists(req[r].source) /\ Resources!CanAccess(req[r].user, req[r].source)
      BY <1>1, <1>5 DEF CheckOK
    <2>3. chosenBy'[req[r].row] = req[r].user
      BY <1>3, <1>5 DEF ResourcesTypeOK
    <2>4. Resources!IsPrivileged(req[r].user) \/ rows'[req[r].row].owner = req[r].user
      BY <1>1, <1>2 DEF UpdateOK, Resources!CanAccess, Resources!Written
    <2> QED
      BY <1>4, <2>1, <2>2, <2>3, <2>4 DEF Resources!CanAccess
  <1>6. CASE req[r].source = None
    <2>1. req[r].op # "create" /\ Resources!Exists(req[r].row)
      BY <1>1, <1>6 DEF CreateOK, UpdateOK
    <2>2. /\ rows[req[r].row].source \in Connectors /\ Resources!Exists(rows[req[r].row].source)
          /\ \/ Resources!IsPrivileged(chosenBy[req[r].row])
             \/ /\ rows[rows[req[r].row].source].owner = chosenBy[req[r].row]
                /\ rows[req[r].row].owner = chosenBy[req[r].row]
      BY <2>1 DEF SourceInv, Resources!SourceIsUsable
    <2>3. /\ rows'[req[r].row].source = rows[req[r].row].source
          /\ rows'[req[r].row].owner = rows[req[r].row].owner
          /\ chosenBy'[req[r].row] = chosenBy[req[r].row]
      BY <1>2, <1>3, <1>6, <2>1 DEF Resources!Written
    <2> QED
      BY <1>4, <2>2, <2>3
  <1> QED
    BY <1>5, <1>6

LEMMA SourceWrite ==
  ASSUME ColumnsAreDisjoint, ResourcesTypeOK, SourceInv,
         NEW r \in Requests, Resources!Write(r)
  PROVE  SourceInv'
  <1>1. /\ RowsGrow /\ rows'[req[r].row].owner \in Users
        /\ \A x \in Resources!Rows \ {req[r].row} : rows'[x] = rows[x]
        /\ req[r] \in Handler
    BY WriteGrows DEF ResourcesTypeOK
  <1>2. OwnersOK'
    <2>1. \A x \in Resources!Rows : rows'[x] # Resources!NoRow => rows'[x].owner \in Users
      BY <1>1 DEF SourceInv, OwnersOK, Resources!Exists
    <2> QED
      BY <2>1 DEF OwnersOK, Resources!Exists
  <1>3. Resources!SourceIsUsable'
    <2>1. \A p \in Pipelines : p # req[r].row => chosenBy'[p] = chosenBy[p]
      BY DEF Resources!Write, ResourcesTypeOK
    <2>2. ASSUME NEW p \in Pipelines, p # req[r].row, rows'[p] # Resources!NoRow
          PROVE  /\ rows'[p].source \in Connectors /\ rows'[rows'[p].source] # Resources!NoRow
                 /\ \/ Resources!IsPrivileged(chosenBy'[p])
                    \/ /\ rows'[rows'[p].source].owner = chosenBy'[p]
                       /\ rows'[p].owner = chosenBy'[p]
      <3>1. p \in Resources!Rows /\ rows'[p] = rows[p] /\ chosenBy'[p] = chosenBy[p]
        BY <1>1, <2>1, <2>2 DEF Resources!Rows
      <3>2. /\ rows[p].source \in Connectors /\ Resources!Exists(rows[p].source)
            /\ \/ Resources!IsPrivileged(chosenBy[p])
               \/ /\ rows[rows[p].source].owner = chosenBy[p]
                  /\ rows[p].owner = chosenBy[p]
        BY <2>2, <3>1 DEF SourceInv, Resources!SourceIsUsable, Resources!Exists
      <3>3. /\ rows'[rows[p].source] # Resources!NoRow
            /\ rows'[rows[p].source].owner = rows[rows[p].source].owner
        BY <1>1, <3>2 DEF RowsGrow, Resources!Exists, Resources!Rows
      <3> QED
        BY <3>1, <3>2, <3>3
    <2> QED
      BY <2>2, SourceWritten DEF WritePipeline, Resources!SourceIsUsable, Resources!Exists
  <1>4. /\ \A s \in Requests \ {r} : req'[s] = req[s]
        /\ \/ req'[r].pc = "audit" /\ SameRequest(req'[r], req[r])
           \/ req'[r].pc = "idle" /\ req'[r].row = None
    <2>1. CASE Resources!IsAudited(r)
      BY <2>1, WriteMoves DEF ResourcesTypeOK
    <2>2. CASE ~Resources!IsAudited(r)
      BY <2>2, WriteMoves, EndMoves DEF ResourcesTypeOK, Resources!Idle
    <2> QED
      BY <2>1, <2>2
  <1>5. CreateOK(r)' /\ UpdateOK(r)' /\ CheckOK(r)'
    BY <1>4 DEF SourceInv, HandlersOK, CreateOK, UpdateOK, CheckOK, SameRequest, ColumnsAreDisjoint
  <1>6. ASSUME NEW q \in Requests PROVE CreateOK(q)' /\ UpdateOK(q)' /\ CheckOK(q)'
    <2>1. CASE q # r
      <3>1. req'[r].row \in {req[r].row, None}
        BY <1>4 DEF SameRequest
      <3> QED
        BY <1>1, <1>4, <2>1, <3>1, OthersStay DEF SourceInv
    <2> QED
      BY <1>5, <2>1
  <1> QED
    BY <1>2, <1>3, <1>6 DEF SourceInv, HandlersOK

LEMMA SourceNext ==
  ASSUME ColumnsAreDisjoint, ResourcesTypeOK, SourceInv, [Resources!Next]_(Resources!vars)
  PROVE  SourceInv'
  <1>1. ASSUME NEW r \in Requests, Resources!Audit(r) \/ Resources!Fails(r) PROVE SourceInv'
    BY <1>1, SourceEnd DEF Resources!Audit, Resources!Fails
  <1>2. CASE UNCHANGED Resources!vars
    BY <1>2 DEF Resources!vars, SourceInv, OwnersOK, HandlersOK, CreateOK, UpdateOK, CheckOK,
      Resources!SourceIsUsable, Resources!Exists, Resources!CanAccess
  <1> QED
    BY <1>1, <1>2, SourceBegin, SourceRead, SourceReadSource, SourceWrite DEF Resources!Next

\* For any users, rows and handlers: a pipeline's source exists and belongs to
\* who chose it, and so does the pipeline, unless that user is privileged.
LEMMA SourcesOwned ==
  ASSUME ColumnsAreDisjoint
  PROVE  Resources!Spec => []Resources!SourceIsUsable
  <1>1. Resources!Init => ResourcesTypeOK /\ SourceInv
    BY ResourcesTypeInit, SourceInit
  <1>2. ResourcesTypeOK /\ SourceInv /\ [Resources!Next]_(Resources!vars)
          => ResourcesTypeOK' /\ SourceInv'
    BY ResourcesTypeNext, SourceNext
  <1>3. SourceInv => Resources!SourceIsUsable
    BY DEF SourceInv
  <1> QED
    BY <1>1, <1>2, <1>3, PTL DEF Resources!Spec

-------------------------------------------------------------------------------
(***************************************************************************)
(* PipelinesPage.                                                          *)
(***************************************************************************)

\* No row is not a status, and no pipeline not a pipeline.
NoneIsNeither == None \notin Statuses \cup Listed

Shown == Statuses \cup {None}
Calls ==
  [kind : {"load", "start", "save"}, pc : Page!Steps, p : Listed \cup {None},
   answer : [Listed -> Shown], attempt : Nat]

\* The steps that a call of each kind takes, and the answers it holds.
CallOK(h) ==
  /\ h \in Calls
  /\ h.kind = "load" => h.pc \in {"load", "loaded", "done"}
  /\ h.kind = "start" => h.p \in Listed /\ h.pc \notin {"save", "saved"}
  /\ h.kind = "save" =>
       /\ h.p \in Listed /\ h.pc \in {"save", "saved", "done"}
       /\ h.answer[h.p] \in Statuses /\ pendingStatus[h.p] # None
       /\ \A q \in Listed \ {h.p} : h.answer[q] = None
  /\ h.pc = "loaded" => h.answer \in [Listed -> Statuses]

PageTypeOK ==
  /\ status \in [Listed -> Statuses]
  /\ calls \in Seq(Calls)
  /\ \A c \in DOMAIN calls : CallOK(calls[c])
  /\ pipelines \in [Listed -> Shown] /\ pendingStatus \in [Listed -> Shown]
  /\ \A p \in Listed : pipelines[p] # None => pendingStatus[p] # None
  /\ faults \in Nat

\* Of the calls only c changes, which may be a new one, and becomes h.
Moves(c, h) ==
  /\ calls' \in Seq(Calls)
  /\ DOMAIN calls' = DOMAIN calls \cup {c} /\ calls'[c] = h
  /\ \A d \in DOMAIN calls \ {c} : calls'[d] = calls[d]

LEMMA CallChanges ==
  ASSUME PageTypeOK, NEW c \in DOMAIN calls, NEW h \in Calls, calls' = [calls EXCEPT ![c] = h]
  PROVE  Moves(c, h)
  <1>1. calls \in Seq(Calls) /\ DOMAIN calls = 1..Len(calls)
    BY DEF PageTypeOK
  <1>2. /\ calls' \in Seq(Calls) /\ Len(calls') = Len(calls)
        /\ \A d \in 1..Len(calls) : calls'[d] = IF d = c THEN h ELSE calls[d]
    BY <1>1, ExceptSeq
  <1>3. DOMAIN calls' = 1..Len(calls')
    BY <1>2
  <1> QED
    BY <1>1, <1>2, <1>3 DEF Moves

LEMMA CallBegins ==
  ASSUME PageTypeOK, NEW h \in Calls, calls' = Append(calls, h)
  PROVE  Len(calls) + 1 \notin DOMAIN calls /\ Moves(Len(calls) + 1, h)
  <1>1. calls \in Seq(Calls) /\ DOMAIN calls = 1..Len(calls) /\ Len(calls) \in Nat
    BY DEF PageTypeOK
  <1>2. /\ calls' \in Seq(Calls) /\ Len(calls') = Len(calls) + 1
        /\ \A d \in 1..Len(calls) : calls'[d] = calls[d]
        /\ calls'[Len(calls) + 1] = h
    BY <1>1, AppendProperties
  <1>3. DOMAIN calls' = 1..(Len(calls) + 1)
    BY <1>2
  <1> QED
    BY <1>1, <1>2, <1>3 DEF Moves

\* What the steps of the calls do to one of them.
LEMMA CallGoes ==
  ASSUME PageTypeOK, NEW c \in DOMAIN calls, NEW pc \in Page!Steps, Page!Go(c, pc)
  PROVE  \E h \in Calls : /\ Moves(c, h) /\ h.pc = pc
                          /\ h.kind = calls[c].kind /\ h.p = calls[c].p
                          /\ h.answer = calls[c].answer
  <1> DEFINE h == [calls[c] EXCEPT !.pc = pc]
  <1>1. calls[c] \in Calls
    BY DEF PageTypeOK
  <1>2. h \in Calls /\ h.pc = pc /\ h.kind = calls[c].kind /\ h.p = calls[c].p
        /\ h.answer = calls[c].answer
    BY <1>1 DEF Calls
  <1>3. calls' = [calls EXCEPT ![c] = h]
    BY DEF Page!Go, PageTypeOK
  <1> HIDE DEF h
  <1>4. Moves(c, h)
    BY <1>2, <1>3, CallChanges
  <1> QED
    BY <1>2, <1>4

LEMMA CallWaited ==
  ASSUME PageTypeOK, NEW c \in DOMAIN calls, Page!Waited(c)
  PROVE  \E h \in Calls : /\ Moves(c, h) /\ h.pc \in {"poll", "done"}
                          /\ h.kind = calls[c].kind /\ h.p = calls[c].p
                          /\ h.answer = calls[c].answer
  <1> DEFINE pc == IF calls[c].attempt + 1 > MaxAttempt THEN "done" ELSE "poll"
             h == [calls[c] EXCEPT !.attempt = @ + 1, !.pc = pc]
  <1>0. calls' = [calls EXCEPT ![c].attempt = @ + 1, ![c].pc = pc] /\ pc \in {"poll", "done"}
    BY DEF Page!Waited
  <1> HIDE DEF pc
  <1>1. calls[c] \in Calls
    BY DEF PageTypeOK
  <1>2. /\ h \in Calls /\ h.pc \in {"poll", "done"} /\ h.kind = calls[c].kind
        /\ h.p = calls[c].p /\ h.answer = calls[c].answer
    BY <1>0, <1>1 DEF Calls, Page!Steps
  <1>3. calls' = [calls EXCEPT ![c] = h]
    BY <1>0 DEF PageTypeOK
  <1> HIDE DEF h
  <1>4. Moves(c, h)
    BY <1>2, <1>3, CallChanges
  <1> QED
    BY <1>2, <1>4

LEMMA CallListRead ==
  ASSUME PageTypeOK, NEW c \in DOMAIN calls, Page!ListRead(c)
  PROVE  \E h \in Calls : /\ Moves(c, h) /\ h.pc = "loaded" /\ h.answer = status
                          /\ h.kind = calls[c].kind /\ h.p = calls[c].p
  <1> DEFINE h == [calls[c] EXCEPT !.pc = "loaded", !.answer = status]
  <1>1. calls[c] \in Calls /\ status \in [Listed -> Shown]
    BY DEF PageTypeOK, Shown
  <1>2. /\ h \in Calls /\ h.pc = "loaded" /\ h.answer = status
        /\ h.kind = calls[c].kind /\ h.p = calls[c].p
    BY <1>1 DEF Calls, Page!Steps
  <1>3. calls' = [calls EXCEPT ![c] = h]
    BY DEF Page!ListRead, PageTypeOK
  <1> HIDE DEF h
  <1>4. Moves(c, h)
    BY <1>2, <1>3, CallChanges
  <1> QED
    BY <1>2, <1>4

\* The record of a call that begins.
LEMMA NewCall ==
  ASSUME PageTypeOK, NEW p \in Listed \cup {None}, NEW kind \in {"load", "start"}
  PROVE  /\ Page!Call(kind, p) \in Calls
         /\ Page!Call(kind, p).kind = kind /\ Page!Call(kind, p).pc = kind
         /\ Page!Call(kind, p).p = p
  BY DEF Page!Call, Calls, Page!Steps, Page!NoRows, Shown

LEMMA NewSave ==
  ASSUME PageTypeOK, NEW p \in Listed, NEW h, pendingStatus[p] # None,
         h = [Page!Call("save", p) EXCEPT !.answer[p] = pendingStatus[p]]
  PROVE  /\ h \in Calls /\ CallOK(h)
         /\ h.kind = "save" /\ h.pc = "save" /\ h.p = p
  <1>1. pendingStatus[p] \in Statuses
    BY DEF PageTypeOK, Shown
  <1>2. h = [kind |-> "save", pc |-> "save", p |-> p, attempt |-> 0,
             answer |-> [Page!NoRows EXCEPT ![p] = pendingStatus[p]]]
    BY DEF Page!Call
  <1>3. /\ [Page!NoRows EXCEPT ![p] = pendingStatus[p]] \in [Listed -> Shown]
        /\ [Page!NoRows EXCEPT ![p] = pendingStatus[p]][p] = pendingStatus[p]
        /\ \A q \in Listed \ {p} : [Page!NoRows EXCEPT ![p] = pendingStatus[p]][q] = None
    BY <1>1 DEF Page!NoRows, Shown
  <1>4. h \in Calls
    BY <1>2, <1>3 DEF Calls, Page!Steps
  <1> QED
    BY <1>1, <1>2, <1>3, <1>4 DEF CallOK

LEMMA PageTypeInit ==
  ASSUME NoneIsNeither, Page!Init
  PROVE  PageTypeOK
  <1>1. Page!NoRows \in [Listed -> Shown] /\ \A p \in Listed : Page!NoRows[p] = None
    BY DEF Page!NoRows, Shown
  <1>2. Page!Call("load", None) \in Calls
    BY <1>1 DEF Page!Call, Calls, Page!Steps
  <1>3. calls = <<Page!Call("load", None)>>
    BY DEF Page!Init
  <1>4. calls \in Seq(Calls) /\ \A c \in DOMAIN calls : calls[c] = Page!Call("load", None)
    BY <1>2, <1>3
  <1>5. CallOK(Page!Call("load", None))
    BY <1>2 DEF CallOK, Page!Call
  <1> QED
    BY <1>1, <1>4, <1>5 DEF Page!Init, PageTypeOK

\* The statuses chosen in the rows are never taken back.
LEMMA CallsStayOK ==
  ASSUME PageTypeOK, NEW c, NEW h, Moves(c, h),
         \A p \in Listed : pendingStatus[p] # None => pendingStatus'[p] # None,
         CallOK(h)'
  PROVE  \A d \in DOMAIN calls' : CallOK(calls[d])'
  <1>1. ASSUME NEW d \in DOMAIN calls \ {c} PROVE CallOK(calls[d])'
    <2>1. CallOK(calls[d]) /\ calls'[d] = calls[d]
      BY DEF PageTypeOK, Moves
    <2> QED
      BY <2>1 DEF CallOK
  <1>2. ASSUME NEW d \in DOMAIN calls' PROVE CallOK(calls[d])'
    <2>1. CASE d = c
      BY <2>1 DEF Moves, CallOK
    <2>2. CASE d # c
      BY <1>1, <1>2, <2>2 DEF Moves
    <2> QED
      BY <2>1, <2>2
  <1> QED
    BY <1>2

\* A step of the call c that takes it from one pc to another, with its answer.
Goes(c, from, to) ==
  /\ c \in DOMAIN calls /\ calls[c].pc = from
  /\ \E h \in Calls : /\ Moves(c, h) /\ h.pc = to
                      /\ h.kind = calls[c].kind /\ h.p = calls[c].p
                      /\ h.answer = calls[c].answer

\* What the steps do to the calls.
LEMMA PageSteps ==
  ASSUME PageTypeOK
  PROVE  /\ \A p \in Listed : Page!Start(p) => Moves(Len(calls) + 1, Page!Call("start", p))
         /\ \A p \in Listed : Page!Save(p) =>
              \E h \in Calls : /\ Moves(Len(calls) + 1, h) /\ CallOK(h)
                               /\ h.kind = "save" /\ h.pc = "save" /\ h.p = p
         /\ \A c : Page!Started(c) => \E to \in {"poll", "done"} : Goes(c, "start", to)
         /\ \A c : Page!JobRead(c) => \E to \in {"wait", "load"} : Goes(c, "poll", to)
         /\ \A c : Page!Waited(c) => \E to \in {"poll", "done"} : Goes(c, "wait", to)
         /\ \A c : Page!Loaded(c) => Goes(c, "loaded", "done")
         /\ \A c : Page!Written(c) => Goes(c, "save", "saved")
         /\ \A c : Page!Saved(c) => Goes(c, "saved", "done")
         /\ \A c \in DOMAIN calls : Page!Rejected(c) =>
              calls[c].pc \notin {"wait", "done"} /\ Goes(c, calls[c].pc, "done")
  <1>1. ASSUME NEW p \in Listed, Page!Start(p)
        PROVE  Moves(Len(calls) + 1, Page!Call("start", p))
    BY <1>1, NewCall, CallBegins DEF Page!Start
  <1>2. ASSUME NEW p \in Listed, Page!Save(p)
        PROVE  \E h \in Calls : /\ Moves(Len(calls) + 1, h) /\ CallOK(h)
                                /\ h.kind = "save" /\ h.pc = "save" /\ h.p = p
    <2>1. pendingStatus[p] # None
      BY <1>2 DEF Page!Save, Page!Visible, PageTypeOK
    <2> DEFINE h == [Page!Call("save", p) EXCEPT !.answer[p] = pendingStatus[p]]
    <2>2. h \in Calls /\ CallOK(h) /\ h.kind = "save" /\ h.pc = "save" /\ h.p = p
      BY <2>1, NewSave
    <2>3. calls' = Append(calls, h)
      BY <1>2 DEF Page!Save
    <2> HIDE DEF h
    <2>4. Moves(Len(calls) + 1, h)
      BY <2>2, <2>3, CallBegins
    <2> QED
      BY <2>2, <2>4
  <1>3. ASSUME NEW c, NEW pc \in Page!Steps, c \in DOMAIN calls, Page!Go(c, pc)
        PROVE  Goes(c, calls[c].pc, pc)
    BY <1>3, CallGoes DEF Goes
  <1>4. {"poll", "done", "wait", "load", "saved"} \subseteq Page!Steps
    BY DEF Page!Steps
  <1>5. \A c : Page!Started(c) => \E to \in {"poll", "done"} : Goes(c, "start", to)
    BY <1>3, <1>4 DEF Page!Started, Page!At
  <1>6. \A c : Page!JobRead(c) => \E to \in {"wait", "load"} : Goes(c, "poll", to)
    BY <1>3, <1>4 DEF Page!JobRead, Page!At
  <1>7. ASSUME NEW c, Page!Waited(c) PROVE \E to \in {"poll", "done"} : Goes(c, "wait", to)
    <2>1. c \in DOMAIN calls /\ calls[c].pc = "wait"
      BY <1>7 DEF Page!Waited, Page!At
    <2> QED
      BY <1>7, <2>1, CallWaited DEF Goes
  <1>8. /\ \A c : Page!Loaded(c) => Goes(c, "loaded", "done")
        /\ \A c : Page!Written(c) => Goes(c, "save", "saved")
        /\ \A c : Page!Saved(c) => Goes(c, "saved", "done")
    BY <1>3, <1>4 DEF Page!Loaded, Page!Written, Page!Saved, Page!At
  <1>9. \A c \in DOMAIN calls : Page!Rejected(c) =>
          calls[c].pc \notin {"wait", "done"} /\ Goes(c, calls[c].pc, "done")
    BY <1>3, <1>4 DEF Page!Rejected
  <1> QED
    BY <1>1, <1>2, <1>5, <1>6, <1>7, <1>8, <1>9

\* A step of a call within its kind leaves the calls as they have to be.
LEMMA GoesOK ==
  ASSUME PageTypeOK, NEW c, NEW from, NEW to, Goes(c, from, to),
         \A p \in Listed : pendingStatus[p] # None => pendingStatus'[p] # None,
         to \in {"poll", "wait", "load", "done", "saved"},
         to \in {"poll", "wait", "load"} => from \in {"start", "poll", "wait"},
         to = "saved" => from = "save"
  PROVE  /\ calls' \in Seq(Calls)
         /\ \A d \in DOMAIN calls' : CallOK(calls[d])'
  <1>1. PICK h \in Calls : /\ Moves(c, h) /\ h.pc = to
                           /\ h.kind = calls[c].kind /\ h.p = calls[c].p
                           /\ h.answer = calls[c].answer
    BY DEF Goes
  <1>2. CallOK(calls[c]) /\ calls[c].pc = from
    BY DEF Goes, PageTypeOK
  <1>3. CallOK(h)'
    BY <1>1, <1>2 DEF CallOK
  <1> QED
    BY <1>1, <1>3, CallsStayOK DEF Moves

LEMMA PageTypeNext ==
  ASSUME NoneIsNeither, PageTypeOK, [Page!Next]_(Page!vars)
  PROVE  PageTypeOK'
  <1> USE DEF Page!page
  <1>1. ASSUME NEW p \in Listed, Page!Start(p) PROVE PageTypeOK'
    <2>1. CallOK(Page!Call("start", p))' /\ Moves(Len(calls) + 1, Page!Call("start", p))
      BY <1>1, NewCall, PageSteps DEF CallOK
    <2> QED
      BY <1>1, <2>1, CallsStayOK DEF Page!Start, PageTypeOK, Moves
  <1>2. ASSUME NEW p \in Listed, Page!Choose(p) PROVE PageTypeOK'
    <2>1. /\ pendingStatus' \in [Listed -> Shown]
          /\ \A q \in Listed : pendingStatus[q] # None => pendingStatus'[q] # None
      BY <1>2 DEF Page!Choose, PageTypeOK, Shown, NoneIsNeither
    <2>2. calls' = calls
      BY <1>2 DEF Page!Choose
    <2>3. ASSUME NEW d \in DOMAIN calls PROVE CallOK(calls[d])'
      BY <2>1, <2>2 DEF PageTypeOK, CallOK
    <2> QED
      BY <1>2, <2>1, <2>2, <2>3 DEF Page!Choose, PageTypeOK
  <1>3. ASSUME NEW p \in Listed, Page!Save(p) PROVE PageTypeOK'
    <2>1. pendingStatus' = pendingStatus
      BY <1>3 DEF Page!Save
    <2>2. PICK h \in Calls : CallOK(h) /\ Moves(Len(calls) + 1, h)
      BY <1>3, PageSteps
    <2>3. CallOK(h)'
      BY <2>1, <2>2 DEF CallOK
    <2> QED
      BY <1>3, <2>1, <2>2, <2>3, CallsStayOK DEF Page!Save, PageTypeOK, Moves
  <1>4. ASSUME NEW c, Page!Started(c) \/ Page!JobRead(c) \/ Page!Waited(c)
        PROVE  PageTypeOK'
    <2>1. pendingStatus' = pendingStatus /\ pipelines' = pipelines /\ status' = status /\ faults' = faults
      BY <1>4 DEF Page!Started, Page!JobRead, Page!Waited
    <2>2. PICK to \in {"poll", "wait", "load", "done"}, from \in {"start", "poll", "wait"} :
            Goes(c, from, to)
      BY <1>4, PageSteps
    <2> QED
      BY <2>1, <2>2, GoesOK DEF PageTypeOK
  <1>5. ASSUME NEW c, Page!ListRead(c) PROVE PageTypeOK'
    <2>1. c \in DOMAIN calls /\ calls[c].pc = "load" /\ CallOK(calls[c])
      BY <1>5 DEF Page!ListRead, Page!At, PageTypeOK
    <2>2. PICK h \in Calls : /\ Moves(c, h) /\ h.pc = "loaded" /\ h.answer = status
                             /\ h.kind = calls[c].kind /\ h.p = calls[c].p
      BY <1>5, <2>1, CallListRead
    <2>3. CallOK(h)' /\ pendingStatus' = pendingStatus
      BY <1>5, <2>1, <2>2 DEF CallOK, PageTypeOK, Page!ListRead
    <2> QED
      BY <1>5, <2>2, <2>3, CallsStayOK DEF Page!ListRead, PageTypeOK, Moves
  <1>6. ASSUME NEW c, Page!Loaded(c) PROVE PageTypeOK'
    <2>1. Goes(c, "loaded", "done") /\ calls[c].answer \in [Listed -> Statuses]
      BY <1>6, PageSteps DEF Page!Loaded, Page!At, PageTypeOK, CallOK
    <2>2. /\ pendingStatus' \in [Listed -> Statuses] /\ pipelines' = pendingStatus'
          /\ status' = status /\ faults' = faults
      BY <1>6, <2>1 DEF Page!Loaded
    <2>3. \A p \in Listed : pendingStatus'[p] # None
      BY <2>2 DEF NoneIsNeither
    <2>4. pendingStatus' \in [Listed -> Shown]
      BY <2>2 DEF Shown
    <2>5. calls' \in Seq(Calls) /\ \A d \in DOMAIN calls' : CallOK(calls[d])'
      BY <2>1, <2>3, GoesOK
    <2> QED
      BY <2>2, <2>3, <2>4, <2>5 DEF PageTypeOK
  <1>7. ASSUME NEW c, Page!Written(c) PROVE PageTypeOK'
    <2>1. Goes(c, "save", "saved") /\ CallOK(calls[c]) /\ calls[c].pc = "save"
      BY <1>7, PageSteps DEF Page!Written, Page!At, PageTypeOK
    <2>2. calls[c].answer[calls[c].p] \in Statuses
      BY <2>1 DEF CallOK, Calls
    <2>3. /\ status' \in [Listed -> Statuses]
          /\ pendingStatus' = pendingStatus /\ pipelines' = pipelines /\ faults' = faults
      BY <1>7, <2>2 DEF Page!Written, PageTypeOK
    <2> QED
      BY <2>1, <2>3, GoesOK DEF PageTypeOK
  <1>8. ASSUME NEW c, Page!Saved(c) PROVE PageTypeOK'
    <2>1. Goes(c, "saved", "done") /\ CallOK(calls[c]) /\ calls[c].pc = "saved"
      BY <1>8, PageSteps DEF Page!Saved, Page!At, PageTypeOK
    <2>2. calls[c].answer[calls[c].p] \in Statuses /\ pendingStatus[calls[c].p] # None
      BY <2>1 DEF CallOK, Calls
    <2>3. /\ pipelines' \in [Listed -> Shown]
          /\ \A p \in Listed : p # calls[c].p => pipelines'[p] = pipelines[p]
          /\ pendingStatus' = pendingStatus /\ status' = status /\ faults' = faults
      BY <1>8, <2>2 DEF Page!Saved, PageTypeOK, Shown
    <2> QED
      BY <2>1, <2>2, <2>3, GoesOK DEF PageTypeOK
  <1>9. ASSUME NEW c \in DOMAIN calls, Page!Rejected(c) PROVE PageTypeOK'
    <2>1. Goes(c, calls[c].pc, "done")
      BY <1>9, PageSteps
    <2>2. /\ pendingStatus' = pendingStatus /\ pipelines' = pipelines /\ status' = status
          /\ faults' = faults + 1
      BY <1>9 DEF Page!Rejected
    <2> QED
      BY <2>1, <2>2, GoesOK DEF PageTypeOK
  <1>10. CASE UNCHANGED Page!vars
    BY <1>10 DEF Page!vars, PageTypeOK, CallOK
  <1> QED
    BY <1>1, <1>2, <1>3, <1>4, <1>5, <1>6, <1>7, <1>8, <1>9, <1>10 DEF Page!Next, Page!CallStep

(* The statuses on the page. *)

\* An answer with p's status is under way to the page.
UnderWay(c, p) == calls[c].pc \in {"loaded", "saved"} /\ calls[c].answer[p] # None

\* As long as a status was not written while an answer with it was under way, no
\* answer under way is out of date, and a row that is will be corrected by one.
StaleInv ==
  faults = 0 => \A p \in Listed \ outrun :
    /\ \A c \in DOMAIN calls : UnderWay(c, p) => calls[c].answer[p] = status[p]
    /\ pipelines[p] \in {None, status[p]} \/ \E c \in DOMAIN calls : UnderWay(c, p)

\* No answer is sent, and none but the one of c is taken in.
LEMMA StaleKept ==
  ASSUME PageTypeOK, StaleInv, NEW c, NEW h, Moves(c, h), h.pc \notin {"loaded", "saved"},
         faults' = 0 => faults = 0 /\ status' = status /\ outrun' = outrun,
         faults' = 0 => \A p \in Listed \ outrun :
           \/ pipelines'[p] = pipelines[p] /\ ~(c \in DOMAIN calls /\ UnderWay(c, p))
           \/ pipelines'[p] \in {None, status[p]}
  PROVE  StaleInv'
  <1> SUFFICES ASSUME faults' = 0, NEW p \in Listed \ outrun
               PROVE  /\ \A d \in DOMAIN calls' : UnderWay(d, p)' => calls'[d].answer[p] = status[p]
                      /\ \/ pipelines'[p] \in {None, status[p]}
                         \/ \E d \in DOMAIN calls' : UnderWay(d, p)'
    BY DEF StaleInv
  <1>1. /\ \A d \in DOMAIN calls : UnderWay(d, p) => calls[d].answer[p] = status[p]
        /\ pipelines[p] \in {None, status[p]} \/ \E d \in DOMAIN calls : UnderWay(d, p)
    BY DEF StaleInv
  <1>2. \A d \in DOMAIN calls' :
          UnderWay(d, p)' => d # c /\ d \in DOMAIN calls /\ calls'[d] = calls[d] /\ UnderWay(d, p)
    BY DEF Moves, UnderWay
  <1>3. \A d \in DOMAIN calls : UnderWay(d, p) /\ d # c => d \in DOMAIN calls' /\ UnderWay(d, p)'
    BY DEF Moves, UnderWay
  <1> QED
    BY <1>1, <1>2, <1>3

LEMMA StaleListRead ==
  ASSUME PageTypeOK, StaleInv, NEW c, Page!ListRead(c)
  PROVE  StaleInv'
  <1>1. /\ c \in DOMAIN calls /\ calls[c].pc = "load"
        /\ UNCHANGED <<status, pipelines, outrun, faults>>
    BY DEF Page!ListRead, Page!At, Page!page
  <1>2. PICK h \in Calls : Moves(c, h) /\ h.pc = "loaded" /\ h.answer = status
    BY <1>1, CallListRead
  <1> SUFFICES ASSUME faults = 0, NEW p \in Listed \ outrun
               PROVE  /\ \A d \in DOMAIN calls' : UnderWay(d, p)' => calls'[d].answer[p] = status[p]
                      /\ \/ pipelines[p] \in {None, status[p]}
                         \/ \E d \in DOMAIN calls' : UnderWay(d, p)'
    BY <1>1 DEF StaleInv
  <1>3. /\ \A d \in DOMAIN calls : UnderWay(d, p) => calls[d].answer[p] = status[p]
        /\ pipelines[p] \in {None, status[p]} \/ \E d \in DOMAIN calls : UnderWay(d, p)
    BY DEF StaleInv
  <1>4. \A d \in DOMAIN calls' \ {c} :
          d \in DOMAIN calls /\ calls'[d] = calls[d] /\ (UnderWay(d, p)' <=> UnderWay(d, p))
    BY <1>2 DEF Moves, UnderWay
  <1>5. ~UnderWay(c, p)
    BY <1>1 DEF UnderWay
  <1>6. DOMAIN calls' = DOMAIN calls /\ calls'[c].answer = status
    BY <1>1, <1>2 DEF Moves
  <1> QED
    BY <1>3, <1>4, <1>5, <1>6

\* The database changes: the answer of the write itself is the only one that
\* may be under way, or the pipeline is outrun.
LEMMA StaleWritten ==
  ASSUME NoneIsNeither, PageTypeOK, StaleInv, NEW c, Page!Written(c)
  PROVE  StaleInv'
  <1>1. /\ c \in DOMAIN calls /\ calls[c].pc = "save" /\ CallOK(calls[c]) /\ calls[c] \in Calls
        /\ status' = [status EXCEPT ![calls[c].p] = calls[c].answer[calls[c].p]]
        /\ UNCHANGED <<pipelines, faults>>
        /\ outrun' = IF Page!Outruns(calls[c].p, c) THEN outrun \cup {calls[c].p} ELSE outrun
    BY DEF Page!Written, Page!At, Page!page, PageTypeOK
  <1>2. /\ calls[c].p \in Listed /\ calls[c].answer[calls[c].p] \in Statuses
        /\ \A q \in Listed \ {calls[c].p} : calls[c].answer[q] = None
    BY <1>1 DEF CallOK, Calls
  <1>3. PICK h \in Calls : Moves(c, h) /\ h.pc = "saved" /\ h.answer = calls[c].answer
    BY PageSteps DEF Goes
  <1> SUFFICES ASSUME faults = 0, NEW p \in Listed \ outrun'
               PROVE  /\ \A d \in DOMAIN calls' : UnderWay(d, p)' => calls'[d].answer[p] = status'[p]
                      /\ \/ pipelines[p] \in {None, status'[p]}
                         \/ \E d \in DOMAIN calls' : UnderWay(d, p)'
    BY <1>1 DEF StaleInv
  <1>4. \A d \in DOMAIN calls' \ {c} :
          d \in DOMAIN calls /\ calls'[d] = calls[d] /\ (UnderWay(d, p)' <=> UnderWay(d, p))
    BY <1>3 DEF Moves, UnderWay
  <1>5. DOMAIN calls' = DOMAIN calls /\ calls'[c] = h /\ ~UnderWay(c, p)
    BY <1>1, <1>3 DEF Moves, UnderWay
  <1>6. p \notin outrun
    BY <1>1
  <1>7. /\ \A d \in DOMAIN calls : UnderWay(d, p) => calls[d].answer[p] = status[p]
        /\ pipelines[p] \in {None, status[p]} \/ \E d \in DOMAIN calls : UnderWay(d, p)
    BY <1>6 DEF StaleInv
  <1>8. CASE p = calls[c].p
    <2>1. ~Page!Outruns(p, c)
      BY <1>1, <1>8
    <2>2. \A d \in DOMAIN calls \ {c} : ~UnderWay(d, p)
      BY <2>1 DEF Page!Outruns, UnderWay
    <2>3. status'[p] = calls[c].answer[p]
      BY <1>1, <1>2, <1>8 DEF PageTypeOK
    <2>4. UnderWay(c, p)'
      BY <1>2, <1>3, <1>5, <1>8 DEF UnderWay, NoneIsNeither
    <2> QED
      BY <1>1, <1>3, <1>4, <1>5, <2>2, <2>3, <2>4
  <1>9. CASE p # calls[c].p
    <2>1. status'[p] = status[p] /\ h.answer[p] = None
      BY <1>1, <1>2, <1>3, <1>9 DEF PageTypeOK
    <2>2. ~UnderWay(c, p)'
      BY <1>5, <2>1 DEF UnderWay
    <2> QED
      BY <1>4, <1>5, <1>7, <2>1, <2>2
  <1> QED
    BY <1>8, <1>9

LEMMA StaleNext ==
  ASSUME NoneIsNeither, PageTypeOK, StaleInv, [Page!Next]_(Page!vars)
  PROVE  StaleInv'
  <1>1. ASSUME NEW p \in Listed, Page!Start(p) PROVE StaleInv'
    <2>1. /\ Moves(Len(calls) + 1, Page!Call("start", p)) /\ Page!Call("start", p).pc = "start"
          /\ Len(calls) + 1 \notin DOMAIN calls
      BY <1>1, PageSteps, NewCall DEF PageTypeOK
    <2> QED
      BY <1>1, <2>1, StaleKept DEF Page!Start
  <1>2. ASSUME NEW p \in Listed, Page!Choose(p) PROVE StaleInv'
    BY <1>2 DEF Page!Choose, StaleInv, UnderWay
  <1>3. ASSUME NEW p \in Listed, Page!Save(p) PROVE StaleInv'
    <2>1. PICK h \in Calls : Moves(Len(calls) + 1, h) /\ h.pc = "save"
      BY <1>3, PageSteps
    <2>2. Len(calls) + 1 \notin DOMAIN calls
      BY DEF PageTypeOK
    <2> QED
      BY <1>3, <2>1, <2>2, StaleKept DEF Page!Save
  <1>4. ASSUME NEW c, Page!Started(c) \/ Page!JobRead(c) \/ Page!Waited(c)
        PROVE  StaleInv'
    <2>1. UNCHANGED <<status, pipelines, outrun, faults>>
      BY <1>4 DEF Page!Started, Page!JobRead, Page!Waited, Page!page
    <2>2. PICK to \in {"poll", "wait", "load", "done"}, from \in {"start", "poll", "wait"} :
            Goes(c, from, to)
      BY <1>4, PageSteps
    <2>3. PICK h \in Calls : Moves(c, h) /\ h.pc = to
      BY <2>2 DEF Goes
    <2>4. \A p : ~UnderWay(c, p)
      BY <2>2 DEF Goes, UnderWay
    <2> QED
      BY <2>1, <2>3, <2>4, StaleKept
  <1>5. ASSUME NEW c, Page!Loaded(c) PROVE StaleInv'
    <2>1. /\ c \in DOMAIN calls /\ calls[c].pc = "loaded"
          /\ calls[c].answer \in [Listed -> Statuses] /\ pipelines' = calls[c].answer
          /\ UNCHANGED <<status, outrun, faults>>
      BY <1>5 DEF Page!Loaded, Page!At, PageTypeOK, CallOK
    <2>2. PICK h \in Calls : Moves(c, h) /\ h.pc = "done"
      BY <1>5, PageSteps DEF Goes
    <2>3. \A p \in Listed : UnderWay(c, p)
      BY <2>1 DEF UnderWay, NoneIsNeither
    <2>4. faults = 0 => \A p \in Listed \ outrun : pipelines'[p] = status[p]
      BY <2>1, <2>3 DEF StaleInv
    <2> QED
      BY <2>1, <2>2, <2>4, StaleKept
  <1>6. ASSUME NEW c, Page!Saved(c) PROVE StaleInv'
    <2>1. /\ c \in DOMAIN calls /\ calls[c].pc = "saved" /\ CallOK(calls[c])
          /\ pipelines' = [pipelines EXCEPT ![calls[c].p] = calls[c].answer[calls[c].p]]
          /\ UNCHANGED <<status, outrun, faults>>
      BY <1>6 DEF Page!Saved, Page!At, PageTypeOK
    <2>2. /\ calls[c].p \in Listed /\ calls[c].answer[calls[c].p] # None
          /\ \A q \in Listed \ {calls[c].p} : calls[c].answer[q] = None
      BY <2>1 DEF CallOK, Calls, NoneIsNeither
    <2>3. PICK h \in Calls : Moves(c, h) /\ h.pc = "done"
      BY <1>6, PageSteps DEF Goes
    <2>4. /\ UnderWay(c, calls[c].p)
          /\ \A q \in Listed \ {calls[c].p} : ~UnderWay(c, q) /\ pipelines'[q] = pipelines[q]
          /\ pipelines'[calls[c].p] = calls[c].answer[calls[c].p]
      BY <2>1, <2>2 DEF UnderWay, PageTypeOK
    <2>5. faults = 0 /\ calls[c].p \notin outrun => pipelines'[calls[c].p] = status[calls[c].p]
      BY <2>1, <2>2, <2>4 DEF StaleInv
    <2> QED
      BY <2>1, <2>3, <2>4, <2>5, StaleKept
  <1>7. ASSUME NEW c \in DOMAIN calls, Page!Rejected(c) PROVE StaleInv'
    <2>1. faults' = faults + 1 /\ faults \in Nat
      BY <1>7 DEF Page!Rejected, PageTypeOK
    <2> QED
      BY <2>1 DEF StaleInv
  <1>8. CASE UNCHANGED Page!vars
    BY <1>8 DEF Page!vars, Page!page, StaleInv, UnderWay
  <1> QED
    BY <1>1, <1>2, <1>3, <1>4, <1>5, <1>6, <1>7, <1>8, StaleListRead, StaleWritten
    DEF Page!Next, Page!CallStep

\* For any pipelines and any number of calls: without a load or a save under way the
\* page shows the status of the database, unless a call rejected or the status was
\* written while an older answer with it was under way.
LEMMA RowsFollow ==
  ASSUME NoneIsNeither
  PROVE  Page!Spec => []Page!StaleRowWasOutrun
  <1>1. Page!Init => PageTypeOK /\ StaleInv
    <2>1. Page!Init => StaleInv
      BY DEF Page!Init, Page!NoRows, StaleInv, Page!Call, UnderWay
    <2> QED
      BY <2>1, PageTypeInit
  <1>2. PageTypeOK /\ StaleInv /\ [Page!Next]_(Page!vars) => PageTypeOK' /\ StaleInv'
    BY PageTypeNext, StaleNext
  <1>3. StaleInv => Page!StaleRowWasOutrun
    BY DEF StaleInv, Page!StaleRowWasOutrun, UnderWay
  <1> QED
    BY <1>1, <1>2, <1>3, PTL DEF Page!Spec

(* The calls under way for one pipeline. *)

Id(kind) == IF kind = "start" THEN runningPipelineId ELSE updatingPipelineId

\* One call more than the steps of the others, while the id is the pipeline's own.
RepeatInv ==
  \A p \in Listed, kind \in {"start", "save"} :
    Cardinality(Page!Open(kind, p))
      <= (IF Id(kind) = p THEN 1 ELSE 0) + Cardinality(Page!BegunForOthers(kind, p))
         + Cardinality(Page!BegunForOthers(kind, p) \ Page!Unanswered)

LEMMA CountedFinite ==
  ASSUME PageTypeOK, NEW kind, NEW p
  PROVE  /\ IsFiniteSet(Page!Open(kind, p)) /\ IsFiniteSet(Page!BegunForOthers(kind, p))
         /\ IsFiniteSet(Page!BegunForOthers(kind, p) \ Page!Unanswered)
  <1>1. IsFiniteSet(DOMAIN calls)
    <2>1. DOMAIN calls = 1..Len(calls) /\ Len(calls) \in Nat
      BY DEF PageTypeOK
    <2> QED
      BY <2>1, FS_Interval
  <1>2. /\ Page!Open(kind, p) \subseteq DOMAIN calls
        /\ Page!BegunForOthers(kind, p) \subseteq DOMAIN calls
        /\ Page!BegunForOthers(kind, p) \ Page!Unanswered \subseteq DOMAIN calls
    BY DEF Page!Open, Page!BegunForOthers, Page!Begun
  <1> QED
    BY <1>1, <1>2, FS_Subset

\* Of the three sets only the membership of c may change.
LEMMA CountedMoves ==
  ASSUME PageTypeOK, NEW kind, NEW p, NEW c, NEW h, Moves(c, h)
  PROVE  /\ Page!Open(kind, p) \ {c} = Page!Open(kind, p)' \ {c}
         /\ Page!BegunForOthers(kind, p) \ {c} = Page!BegunForOthers(kind, p)' \ {c}
         /\ (Page!BegunForOthers(kind, p) \ Page!Unanswered) \ {c}
              = (Page!BegunForOthers(kind, p) \ Page!Unanswered)' \ {c}
  <1>1. \A d : d # c => (d \in DOMAIN calls <=> d \in DOMAIN calls')
    BY DEF Moves
  <1>2. \A d \in DOMAIN calls : d # c => calls'[d] = calls[d]
    BY DEF Moves
  <1>3. \A set : Page!Begun(kind, set) \ {c} = Page!Begun(kind, set)' \ {c}
    BY <1>1, <1>2 DEF Page!Begun
  <1>4. Page!Unanswered \ {c} = Page!Unanswered' \ {c}
    BY <1>1, <1>2 DEF Page!Unanswered
  <1>5. Page!BegunForOthers(kind, p) \ {c} = Page!BegunForOthers(kind, p)' \ {c}
    BY <1>3 DEF Page!BegunForOthers
  <1>6. Page!Open(kind, p) \ {c} = Page!Open(kind, p)' \ {c}
    BY <1>3, <1>4 DEF Page!Open
  <1>7. (Page!BegunForOthers(kind, p) \ Page!Unanswered) \ {c}
          = (Page!BegunForOthers(kind, p)' \ Page!Unanswered') \ {c}
    BY <1>4, <1>5
  <1> QED
    BY <1>5, <1>6, <1>7

\* A call begins for the pipeline p, whose button is enabled.
LEMMA RepeatBegins ==
  ASSUME NoneIsNeither, PageTypeOK, RepeatInv,
         NEW c, NEW h, Moves(c, h), c \notin DOMAIN calls,
         h.kind \in {"start", "save"}, h.pc = h.kind, h.p \in Listed,
         Id(h.kind) # h.p, Id(h.kind)' = h.p,
         \A kind \in {"start", "save"} : kind # h.kind => Id(kind)' = Id(kind)
  PROVE  RepeatInv'
  <1> SUFFICES ASSUME NEW p \in Listed, NEW kind \in {"start", "save"}
               PROVE  Cardinality(Page!Open(kind, p)')
                        <= (IF Id(kind)' = p THEN 1 ELSE 0)
                           + Cardinality(Page!BegunForOthers(kind, p)')
                           + Cardinality((Page!BegunForOthers(kind, p) \ Page!Unanswered)')
    BY DEF RepeatInv
  <1> DEFINE O == Page!Open(kind, p)
             B == Page!BegunForOthers(kind, p)
             E == Page!BegunForOthers(kind, p) \ Page!Unanswered
  <1>1. /\ IsFiniteSet(O) /\ IsFiniteSet(B) /\ IsFiniteSet(E)
        /\ O \ {c} = O' \ {c} /\ B \ {c} = B' \ {c} /\ E \ {c} = E' \ {c}
    BY CountedFinite, CountedMoves
  <1>2. Cardinality(O) <= (IF Id(kind) = p THEN 1 ELSE 0) + Cardinality(B) + Cardinality(E)
    BY DEF RepeatInv
  <1>3. c \notin O /\ c \notin B /\ c \notin E
    BY DEF Page!Open, Page!BegunForOthers, Page!Begun
  <1>4. c \in DOMAIN calls' /\ calls'[c] = h
    BY DEF Moves
  <1>5. /\ c \in O' <=> kind = h.kind /\ p = h.p
        /\ c \in B' <=> kind = h.kind /\ p # h.p
        /\ c \notin E'
    BY <1>4 DEF Page!Open, Page!BegunForOthers, Page!Begun, Page!Unanswered
  <1> HIDE DEF O, B, E
  <1>6. /\ Cardinality(O) \in Nat /\ Cardinality(B) \in Nat /\ Cardinality(E) \in Nat
        /\ Cardinality(O') = Cardinality(O) + (IF kind = h.kind /\ p = h.p THEN 1 ELSE 0)
        /\ Cardinality(B') = Cardinality(B) + (IF kind = h.kind /\ p # h.p THEN 1 ELSE 0)
        /\ Cardinality(E') = Cardinality(E)
    BY <1>1, <1>3, <1>5, OneElement
  <1>7. Cardinality(O') <= (IF Id(kind)' = p THEN 1 ELSE 0) + Cardinality(B') + Cardinality(E')
    <2>1. CASE kind # h.kind
      BY <1>2, <1>6, <2>1
    <2>2. CASE kind = h.kind /\ p = h.p
      BY <1>2, <1>6, <2>2
    <2>3. CASE kind = h.kind /\ p # h.p
      BY <1>2, <1>6, <2>3
    <2> QED
      BY <2>1, <2>2, <2>3
  <1> QED
    BY <1>7 DEF O, B, E

\* A call is answered or rejects, and clears the id, whosever it is.
LEMMA RepeatAnswered ==
  ASSUME NoneIsNeither, PageTypeOK, RepeatInv,
         NEW c \in DOMAIN calls, NEW h, Moves(c, h), c \in Page!Unanswered,
         h.kind = calls[c].kind, h.p = calls[c].p, h.p \in Listed,
         h.pc \notin {"start", "save", "saved"}, h.kind \in {"start", "save"},
         Id(h.kind)' = None,
         \A kind \in {"start", "save"} : kind # h.kind => Id(kind)' = Id(kind)
  PROVE  RepeatInv'
  <1> SUFFICES ASSUME NEW p \in Listed, NEW kind \in {"start", "save"}
               PROVE  Cardinality(Page!Open(kind, p)')
                        <= (IF Id(kind)' = p THEN 1 ELSE 0)
                           + Cardinality(Page!BegunForOthers(kind, p)')
                           + Cardinality((Page!BegunForOthers(kind, p) \ Page!Unanswered)')
    BY DEF RepeatInv
  <1> DEFINE O == Page!Open(kind, p)
             B == Page!BegunForOthers(kind, p)
             E == Page!BegunForOthers(kind, p) \ Page!Unanswered
  <1>1. /\ IsFiniteSet(O) /\ IsFiniteSet(B) /\ IsFiniteSet(E)
        /\ O \ {c} = O' \ {c} /\ B \ {c} = B' \ {c} /\ E \ {c} = E' \ {c}
    BY CountedFinite, CountedMoves
  <1>2. Cardinality(O) <= (IF Id(kind) = p THEN 1 ELSE 0) + Cardinality(B) + Cardinality(E)
    BY DEF RepeatInv
  <1>3. /\ c \in O <=> kind = h.kind /\ p = h.p
        /\ c \in B <=> kind = h.kind /\ p # h.p
        /\ c \notin E
    BY DEF Page!Open, Page!BegunForOthers, Page!Begun
  <1>4. c \in DOMAIN calls' /\ calls'[c] = h
    BY DEF Moves
  <1>5. /\ c \notin O'
        /\ c \in B' <=> kind = h.kind /\ p # h.p
        /\ c \in E' <=> kind = h.kind /\ p # h.p
    BY <1>4 DEF Page!Open, Page!BegunForOthers, Page!Begun, Page!Unanswered
  <1> HIDE DEF O, B, E
  <1>6. /\ Cardinality(O) \in Nat /\ Cardinality(B) \in Nat /\ Cardinality(E) \in Nat
        /\ Cardinality(O') = Cardinality(O) - (IF kind = h.kind /\ p = h.p THEN 1 ELSE 0)
        /\ Cardinality(B') = Cardinality(B)
        /\ Cardinality(E') = Cardinality(E) + (IF kind = h.kind /\ p # h.p THEN 1 ELSE 0)
    BY <1>1, <1>3, <1>5, OneElement
  <1>7. Cardinality(O') <= (IF Id(kind)' = p THEN 1 ELSE 0) + Cardinality(B') + Cardinality(E')
    <2>1. CASE kind # h.kind
      BY <1>2, <1>6, <2>1
    <2>2. CASE kind = h.kind /\ p = h.p
      BY <1>2, <1>6, <2>2 DEF NoneIsNeither
    <2>3. CASE kind = h.kind /\ p # h.p
      BY <1>2, <1>6, <2>3 DEF NoneIsNeither
    <2> QED
      BY <2>1, <2>2, <2>3
  <1> QED
    BY <1>7 DEF O, B, E

\* A step that answers no call leaves the three sets as they are.
LEMMA RepeatKept ==
  ASSUME PageTypeOK, RepeatInv, NEW c \in DOMAIN calls, NEW h, Moves(c, h),
         h.kind = calls[c].kind, h.p = calls[c].p,
         calls[c].pc \in {"start", "save", "saved"} <=> h.pc \in {"start", "save", "saved"},
         UNCHANGED <<runningPipelineId, updatingPipelineId>>
  PROVE  RepeatInv'
  <1>1. /\ DOMAIN calls' = DOMAIN calls
        /\ \A d \in DOMAIN calls : /\ calls'[d].kind = calls[d].kind /\ calls'[d].p = calls[d].p
                                   /\ calls[d].pc \in {"start", "save", "saved"}
                                        <=> calls'[d].pc \in {"start", "save", "saved"}
    BY DEF Moves
  <1>2. /\ Page!Unanswered' = Page!Unanswered
        /\ \A kind, set : Page!Begun(kind, set)' = Page!Begun(kind, set)
    BY <1>1 DEF Page!Unanswered, Page!Begun
  <1>3. \A p, kind : /\ Page!Open(kind, p)' = Page!Open(kind, p)
                     /\ Page!BegunForOthers(kind, p)' = Page!BegunForOthers(kind, p)
    BY <1>2 DEF Page!Open, Page!BegunForOthers
  <1> QED
    BY <1>2, <1>3 DEF RepeatInv, Id

LEMMA RepeatUnchanged ==
  ASSUME RepeatInv, UNCHANGED <<calls, runningPipelineId, updatingPipelineId>>
  PROVE  RepeatInv'
  <1>1. /\ Page!Unanswered' = Page!Unanswered
        /\ \A kind, set : Page!Begun(kind, set)' = Page!Begun(kind, set)
    BY DEF Page!Unanswered, Page!Begun
  <1>2. \A p, kind : /\ Page!Open(kind, p)' = Page!Open(kind, p)
                     /\ Page!BegunForOthers(kind, p)' = Page!BegunForOthers(kind, p)
    BY <1>1 DEF Page!Open, Page!BegunForOthers
  <1> QED
    BY <1>1, <1>2 DEF RepeatInv, Id

LEMMA RepeatNext ==
  ASSUME NoneIsNeither, PageTypeOK, RepeatInv, [Page!Next]_(Page!vars)
  PROVE  RepeatInv'
  <1> USE DEF Page!page
  <1>0. \A c \in DOMAIN calls :
          /\ CallOK(calls[c]) /\ calls[c].kind \in {"load", "start", "save"}
          /\ calls[c].kind # "load" => calls[c].p \in Listed
          /\ calls[c].pc = "start" => calls[c].kind = "start"
          /\ calls[c].pc \in {"save", "saved"} => calls[c].kind = "save"
    BY DEF PageTypeOK, CallOK, Calls
  <1>1. ASSUME NEW p \in Listed, Page!Start(p) PROVE RepeatInv'
    <2>1. /\ Moves(Len(calls) + 1, Page!Call("start", p)) /\ Page!Call("start", p).pc = "start"
          /\ Page!Call("start", p).kind = "start" /\ Page!Call("start", p).p = p
          /\ Len(calls) + 1 \notin DOMAIN calls
      BY <1>1, PageSteps, NewCall DEF PageTypeOK
    <2>2. Id("start") # p /\ Id("start")' = p /\ Id("save")' = Id("save")
      BY <1>1 DEF Page!Start, Page!CanStart, Id
    <2> QED
      BY <2>1, <2>2, RepeatBegins
  <1>2. ASSUME NEW p \in Listed, Page!Save(p) PROVE RepeatInv'
    <2>1. PICK h \in Calls : Moves(Len(calls) + 1, h) /\ h.kind = "save" /\ h.pc = "save" /\ h.p = p
      BY <1>2, PageSteps
    <2>2. Id("save") # p /\ Id("save")' = p /\ Id("start")' = Id("start")
      BY <1>2 DEF Page!Save, Id
    <2>3. Len(calls) + 1 \notin DOMAIN calls
      BY DEF PageTypeOK
    <2> QED
      BY <2>1, <2>2, <2>3, RepeatBegins
  <1>3. ASSUME NEW c, Page!Started(c) PROVE RepeatInv'
    <2>1. PICK h \in Calls : /\ Moves(c, h) /\ h.pc \in {"poll", "done"}
                             /\ h.kind = calls[c].kind /\ h.p = calls[c].p
      BY <1>3, PageSteps DEF Goes
    <2>2. c \in DOMAIN calls /\ calls[c].pc = "start"
      BY <1>3 DEF Page!Started, Page!At
    <2>3. Id("start")' = None /\ Id("save")' = Id("save")
      BY <1>3 DEF Page!Started, Id
    <2> QED
      BY <1>0, <2>1, <2>2, <2>3, RepeatAnswered DEF Page!Unanswered
  <1>4. ASSUME NEW c, Page!Saved(c) PROVE RepeatInv'
    <2>1. PICK h \in Calls : /\ Moves(c, h) /\ h.pc = "done"
                             /\ h.kind = calls[c].kind /\ h.p = calls[c].p
      BY <1>4, PageSteps DEF Goes
    <2>2. c \in DOMAIN calls /\ calls[c].pc = "saved"
      BY <1>4 DEF Page!Saved, Page!At
    <2>3. Id("save")' = None /\ Id("start")' = Id("start")
      BY <1>4 DEF Page!Saved, Id
    <2> QED
      BY <1>0, <2>1, <2>2, <2>3, RepeatAnswered DEF Page!Unanswered
  <1>5. ASSUME NEW c \in DOMAIN calls, Page!Rejected(c) PROVE RepeatInv'
    <2>1. PICK h \in Calls : /\ Moves(c, h) /\ h.pc = "done"
                             /\ h.kind = calls[c].kind /\ h.p = calls[c].p
      BY <1>5, PageSteps DEF Goes
    <2>2. CASE calls[c].pc = "start"
      <3>1. Id("start")' = None /\ Id("save")' = Id("save")
        BY <1>5, <2>2 DEF Page!Rejected, Page!Finally, Page!At, Id
      <3> QED
        BY <1>0, <2>1, <2>2, <3>1, RepeatAnswered DEF Page!Unanswered
    <2>3. CASE calls[c].pc \in {"save", "saved"}
      <3>1. Id("save")' = None /\ Id("start")' = Id("start")
        BY <1>5, <2>3 DEF Page!Rejected, Page!Finally, Page!At, Id
      <3> QED
        BY <1>0, <2>1, <2>3, <3>1, RepeatAnswered DEF Page!Unanswered
    <2>4. CASE calls[c].pc \notin {"start", "save", "saved"}
      <3>1. UNCHANGED <<runningPipelineId, updatingPipelineId>>
        BY <1>5, <2>4 DEF Page!Rejected, Page!Finally, Page!At
      <3> QED
        BY <2>1, <2>4, <3>1, RepeatKept
    <2> QED
      BY <2>2, <2>3, <2>4
  <1>6. ASSUME NEW c, \/ Page!JobRead(c) \/ Page!Waited(c) \/ Page!ListRead(c)
                      \/ Page!Loaded(c) \/ Page!Written(c)
        PROVE  RepeatInv'
    <2>1. UNCHANGED <<runningPipelineId, updatingPipelineId>> /\ c \in DOMAIN calls
      BY <1>6 DEF Page!JobRead, Page!Waited, Page!ListRead, Page!Loaded, Page!Written, Page!At
    <2>2. \E h \in Calls : /\ Moves(c, h) /\ h.kind = calls[c].kind /\ h.p = calls[c].p
                           /\ calls[c].pc \in {"start", "save", "saved"}
                                <=> h.pc \in {"start", "save", "saved"}
      <3>1. CASE Page!ListRead(c)
        BY <2>1, <3>1, CallListRead DEF Page!ListRead, Page!At
      <3>2. ASSUME NEW from, NEW to, Goes(c, from, to),
                   from \in {"start", "save", "saved"} <=> to \in {"start", "save", "saved"}
            PROVE  \E h \in Calls : /\ Moves(c, h) /\ h.kind = calls[c].kind /\ h.p = calls[c].p
                                    /\ calls[c].pc \in {"start", "save", "saved"}
                                         <=> h.pc \in {"start", "save", "saved"}
        BY <3>2 DEF Goes
      <3>3. \E from, to : /\ Goes(c, from, to) \/ Page!ListRead(c)
                          /\ from \in {"start", "save", "saved"} <=> to \in {"start", "save", "saved"}
        BY <1>6, PageSteps
      <3> QED
        BY <3>1, <3>2, <3>3
    <2> QED
      BY <2>1, <2>2, RepeatKept
  <1>7. ASSUME NEW p \in Listed, Page!Choose(p) PROVE RepeatInv'
    BY <1>7, RepeatUnchanged DEF Page!Choose
  <1>8. CASE UNCHANGED Page!vars
    BY <1>8, RepeatUnchanged DEF Page!vars
  <1> QED
    BY <1>1, <1>2, <1>3, <1>4, <1>5, <1>6, <1>7, <1>8 DEF Page!Next, Page!CallStep

\* The cardinality of the module is the one of the theorems about finite sets.
LEMMA PageCardinality == \A S : Page!Cardinality(S) = Cardinality(S)
  BY ZenonT(30) DEF Page!Cardinality, Cardinality

\* For any pipelines and any number of calls: the calls under way for one pipeline are
\* at most one more than the calls that have begun or ended for others.
LEMMA ButtonsHold ==
  ASSUME NoneIsNeither
  PROVE  Page!Spec => []Page!RepeatCostsAnother
  <1>1. Page!Init => PageTypeOK /\ RepeatInv
    <2>1. SUFFICES ASSUME Page!Init PROVE RepeatInv
      BY PageTypeInit
    <2>2. \A c \in DOMAIN calls : calls[c].kind = "load" /\ calls[c].pc = "load"
      BY <2>1 DEF Page!Init, Page!Call
    <2>3. \A kind \in {"start", "save"} : \A p :
            Page!Open(kind, p) = {} /\ Page!BegunForOthers(kind, p) = {}
      BY <2>2 DEF Page!Open, Page!BegunForOthers, Page!Begun
    <2>4. Cardinality({}) = 0 /\ \A S : {} \ S = {}
      BY FS_EmptySet
    <2>5. ASSUME NEW p \in Listed, NEW kind \in {"start", "save"}
          PROVE  Cardinality(Page!Open(kind, p))
                   <= (IF Id(kind) = p THEN 1 ELSE 0) + Cardinality(Page!BegunForOthers(kind, p))
                      + Cardinality(Page!BegunForOthers(kind, p) \ Page!Unanswered)
      BY <2>3, <2>4
    <2> QED
      BY <2>5 DEF RepeatInv
  <1>2. PageTypeOK /\ RepeatInv /\ [Page!Next]_(Page!vars) /\ NoneIsNeither
          => PageTypeOK' /\ RepeatInv'
    BY PageTypeNext, RepeatNext
  <1>3. PageTypeOK /\ RepeatInv => Page!RepeatCostsAnother
    <2> SUFFICES ASSUME PageTypeOK, RepeatInv PROVE Page!RepeatCostsAnother
      OBVIOUS
    <2>1. ASSUME NEW p \in Listed, NEW kind \in {"start", "save"}
          PROVE  Cardinality(Page!Open(kind, p))
                   <= 1 + Cardinality(Page!BegunForOthers(kind, p))
                      + Cardinality(Page!BegunForOthers(kind, p) \ Page!Unanswered)
      <3>1. Cardinality(Page!Open(kind, p))
              <= (IF Id(kind) = p THEN 1 ELSE 0) + Cardinality(Page!BegunForOthers(kind, p))
                 + Cardinality(Page!BegunForOthers(kind, p) \ Page!Unanswered)
        BY DEF RepeatInv
      <3>2. /\ Cardinality(Page!Open(kind, p)) \in Nat
            /\ Cardinality(Page!BegunForOthers(kind, p)) \in Nat
            /\ Cardinality(Page!BegunForOthers(kind, p) \ Page!Unanswered) \in Nat
        BY CountedFinite, FS_CardinalityType
      <3> QED
        BY <3>1, <3>2
    <2> QED
      BY <2>1, PageCardinality DEF Page!RepeatCostsAnother
  <1> QED
    BY <1>1, <1>2, <1>3, PTL DEF Page!Spec

-------------------------------------------------------------------------------
(***************************************************************************)
(* Listing.                                                                *)
(***************************************************************************)

\* The sizes of the pages and of the dashboard's list.
SizesAreNumbers == Limit \in Nat /\ Latest \in Nat

\* The cardinality of the module is the one of the theorems about finite sets.
LEMMA ListingCardinality == \A S : Listing!Cardinality(S) = Cardinality(S)
  BY ZenonT(30) DEF Listing!Cardinality, Cardinality

LEMMA PlaceIsRank == \A S, i : Listing!Place(S, i) = Rank(S, i)
  BY ListingCardinality DEF Listing!Place, Rank

Item == [container : Containers, status : ItemStatuses]
Reader ==
  [pc : {"idle", "owned", "query", "done"}, view : {"runs", "events", "dashboard"},
   user : Readers \cup {Listing!Idle.user}, filter : ItemStatuses \cup {None},
   owned : SUBSET Containers, page : Nat \ {0}, seen : SUBSET Nat,
   todo : SUBSET {"total", "failed", "items"}, total : Nat, failed : Nat]

ListingTypeOK ==
  /\ exists \subseteq Containers
  /\ items \in Seq(Item)
  /\ \A i \in 1..Len(items) : items[i].container \in exists
  /\ reader \in Reader
  /\ before \subseteq 1..Len(items) /\ reader.seen \subseteq 1..Len(items)
  /\ left \in Nat /\ late \in Nat

\* What the reader knows of the containers, and what it has left to ask.
ReaderOK ==
  /\ reader.owned \subseteq {c \in exists : OwnerOf[c] = reader.user}
  /\ \A i \in before : Listing!CanSee(reader.user, i)
  /\ Listing!ReadsOwned(reader.view, reader.user)
     /\ (reader.pc = "query" \/ (reader.pc = "owned" /\ reader.page # 1)) =>
       \A i \in before : items[i].container \in reader.owned
  /\ reader.pc = "owned" =>
       /\ Listing!ReadsOwned(reader.view, reader.user)
       /\ reader.todo = Listing!Queries(reader.view)
  /\ reader.todo \subseteq Listing!Queries(reader.view)
  /\ reader.view = "dashboard" => reader.filter = None

LEMMA ListingInit ==
  ASSUME Listing!Init
  PROVE  ListingTypeOK /\ ReaderOK /\ reader.pc = "idle"
  <1>1. /\ Listing!Idle \in Reader /\ Listing!Idle.pc = "idle" /\ Listing!Idle.view = "runs"
        /\ Listing!Idle.seen = {} /\ Listing!Idle.owned = {} /\ Listing!Idle.todo = {}
    BY DEF Listing!Idle, Reader
  <1>2. reader = Listing!Idle /\ exists = {} /\ items = <<>> /\ before = {} /\ left = 0 /\ late = 0
    BY DEF Listing!Init
  <1> QED
    BY <1>1, <1>2 DEF ListingTypeOK, ReaderOK

\* A writer adds a container or an item, or changes the status of one.
Writes ==
  /\ exists \subseteq exists' /\ exists' \subseteq Containers
  /\ items' \in Seq(Item) /\ Len(items) <= Len(items') /\ Len(items) \in Nat /\ Len(items') \in Nat
  /\ \A i \in 1..Len(items) : items'[i].container = items[i].container
  /\ \A i \in 1..Len(items') : items'[i].container \in exists'
  /\ reader' = reader /\ before' = before
  /\ left' \in Nat /\ left <= left' /\ late' \in Nat /\ late <= late'

LEMMA Writers ==
  ASSUME ListingTypeOK,
         Listing!CreateContainer \/ Listing!CreateItem \/ Listing!ChangeStatus
  PROVE  Writes
  <1>1. CASE Listing!CreateContainer
    BY <1>1 DEF Listing!CreateContainer, ListingTypeOK, Writes
  <1>2. CASE Listing!CreateItem
    <2>1. PICK c \in exists, s \in ItemStatuses :
            items' = Append(items, [container |-> c, status |-> s]) /\ late' = Listing!LateAfter(s)
      BY <1>2 DEF Listing!CreateItem
    <2> DEFINE it == [container |-> c, status |-> s]
    <2>2. it \in Item /\ it.container = c
      BY DEF Item, ListingTypeOK
    <2> HIDE DEF it
    <2>3. /\ items' \in Seq(Item) /\ Len(items') = Len(items) + 1 /\ Len(items) \in Nat
          /\ \A i \in 1..Len(items) : items'[i] = items[i]
          /\ items'[Len(items) + 1] = it
      BY <2>1, <2>2, AppendProperties DEF ListingTypeOK, it
    <2>4. late' \in Nat /\ late <= late'
      BY <2>1 DEF Listing!LateAfter, ListingTypeOK
    <2>5. exists' = exists /\ reader' = reader /\ before' = before /\ left' = left
      BY <1>2 DEF Listing!CreateItem
    <2>6. \A i \in 1..Len(items') : i \in 1..Len(items) \/ i = Len(items) + 1
      BY <2>3
    <2>7. \A i \in 1..Len(items') : items'[i].container \in exists'
      BY <2>2, <2>3, <2>5, <2>6 DEF ListingTypeOK
    <2> QED
      BY <2>3, <2>4, <2>5, <2>7 DEF Writes, ListingTypeOK
  <1>3. CASE Listing!ChangeStatus
    <2>1. PICK i \in 1..Len(items), s \in ItemStatuses :
            /\ items' = [items EXCEPT ![i].status = s]
            /\ left' = IF items[i].status = reader.filter THEN left + 1 ELSE left
            /\ late' = IF reader.filter = None THEN late ELSE Listing!LateAfter(s)
      BY <1>3 DEF Listing!ChangeStatus, Listing!Indexes
    <2> DEFINE it == [items[i] EXCEPT !.status = s]
    <2>2. items[i] \in Item
      BY DEF ListingTypeOK
    <2>3. it \in Item /\ it.container = items[i].container
      BY <2>2 DEF Item
    <2>4. items' = [items EXCEPT ![i] = it]
      BY <2>1 DEF ListingTypeOK
    <2> HIDE DEF it
    <2>5. /\ items' \in Seq(Item) /\ Len(items') = Len(items)
          /\ \A j \in 1..Len(items) : items'[j] = IF j = i THEN it ELSE items[j]
      BY <2>3, <2>4, ExceptSeq DEF ListingTypeOK
    <2>6. late' \in Nat /\ late <= late' /\ left' \in Nat /\ left <= left'
      BY <2>1 DEF Listing!LateAfter, ListingTypeOK
    <2>7. exists' = exists /\ reader' = reader /\ before' = before /\ Len(items) \in Nat
      BY <1>3 DEF Listing!ChangeStatus, ListingTypeOK
    <2>8. \A j \in 1..Len(items') : items'[j].container \in exists'
      BY <2>3, <2>5, <2>7 DEF ListingTypeOK
    <2> QED
      BY <2>3, <2>5, <2>6, <2>7, <2>8 DEF Writes, ListingTypeOK
  <1> QED
    BY <1>1, <1>2, <1>3

LEMMA WritesKeep ==
  ASSUME ListingTypeOK, ReaderOK, Writes
  PROVE  /\ ListingTypeOK' /\ ReaderOK'
         /\ \A u, i : i \in 1..Len(items) =>
              i \in 1..Len(items') /\ (Listing!CanSee(u, i)' <=> Listing!CanSee(u, i))
         /\ \A i \in 1..Len(items) : Listing!InScope(i)' <=> Listing!InScope(i)
  <1>1. \A i \in 1..Len(items) : i \in 1..Len(items')
    BY DEF Writes
  <1>2. \A u, i : i \in 1..Len(items) => (Listing!CanSee(u, i)' <=> Listing!CanSee(u, i))
    BY DEF Writes, Listing!CanSee
  <1>3. \A i \in 1..Len(items) : Listing!InScope(i)' <=> Listing!InScope(i)
    BY <1>2 DEF Writes, Listing!InScope
  <1>4. ListingTypeOK'
    BY <1>1 DEF Writes, ListingTypeOK
  <1>5. ReaderOK'
    <2>1. \A i \in before : i \in 1..Len(items)
      BY DEF ListingTypeOK
    <2>2. \A i \in before : items'[i].container = items[i].container
      BY <2>1 DEF Writes
    <2>3. \A i \in before : Listing!CanSee(reader.user, i)'
      BY <1>2, <2>1 DEF ReaderOK, Writes
    <2> QED
      BY <2>2, <2>3 DEF Writes, ReaderOK
  <1> QED
    BY <1>1, <1>2, <1>3, <1>4, <1>5

\* The steps of the reader leave the rows alone.
RowsKept == UNCHANGED <<exists, items>>

\* The request of a page goes on: its user, filter and page stay.
SamePage ==
  /\ reader'.view = reader.view /\ reader'.user = reader.user
  /\ reader'.filter = reader.filter /\ reader'.page = reader.page

LEMMA BeginFields ==
  ASSUME ListingTypeOK, Listing!Begin
  PROVE  /\ reader' \in Reader /\ RowsKept /\ left' = 0 /\ late' = 0
         /\ reader'.pc = Listing!Request(reader'.view, reader'.user)
         /\ reader'.todo = Listing!Queries(reader'.view)
         /\ reader'.owned = {} /\ reader'.seen = {} /\ reader'.page = 1
         /\ reader'.view = "dashboard" => reader'.filter = None
         /\ before' = {i \in 1..Len(items) :
              Listing!CanSee(reader'.user, i) /\ reader'.filter \in {None, items[i].status}}
  <1>1. PICK view \in {"runs", "events", "dashboard"}, u \in Readers, f \in ItemStatuses \cup {None} :
          /\ view # "dashboard" \/ f = None
          /\ reader' = [Listing!Idle EXCEPT !.pc = Listing!Request(view, u), !.view = view,
                                            !.user = u, !.filter = f, !.todo = Listing!Queries(view)]
          /\ before' = {i \in Listing!Indexes : Listing!CanSee(u, i) /\ f \in {None, items[i].status}}
    BY DEF Listing!Begin
  <1>2. RowsKept /\ left' = 0 /\ late' = 0
    BY DEF Listing!Begin, RowsKept
  <1>3. Listing!Request(view, u) \in {"owned", "query"}
        /\ Listing!Queries(view) \in SUBSET {"total", "failed", "items"}
    BY DEF Listing!Request, Listing!Queries
  <1>4. reader' = [pc |-> Listing!Request(view, u), view |-> view, user |-> u, filter |-> f,
                   owned |-> {}, page |-> 1, seen |-> {}, todo |-> Listing!Queries(view),
                   total |-> 0, failed |-> 0]
    BY <1>1 DEF Listing!Idle
  <1>5. reader' \in Reader
    BY <1>3, <1>4 DEF Reader
  <1>6. /\ reader'.pc = Listing!Request(view, u) /\ reader'.todo = Listing!Queries(view)
        /\ reader'.view = view /\ reader'.user = u /\ reader'.filter = f
        /\ reader'.owned = {} /\ reader'.seen = {} /\ reader'.page = 1
    BY <1>4
  <1>7. before' = {i \in 1..Len(items) :
          Listing!CanSee(reader'.user, i) /\ reader'.filter \in {None, items[i].status}}
    BY <1>1, <1>6 DEF Listing!Indexes
  <1>8. reader'.view = "dashboard" => reader'.filter = None
    BY <1>1, <1>6
  <1> QED
    BY <1>2, <1>5, <1>6, <1>7, <1>8

LEMMA OwnedFields ==
  ASSUME ListingTypeOK, Listing!ReadOwned
  PROVE  /\ reader' \in Reader /\ RowsKept /\ UNCHANGED <<before, left, late>> /\ SamePage
         /\ reader.pc = "owned" /\ reader'.owned = {c \in exists : OwnerOf[c] = reader.user}
         /\ reader'.pc = IF reader'.owned = {} /\ reader.view # "dashboard" THEN "done" ELSE "query"
         /\ reader'.seen = reader.seen /\ reader'.todo = reader.todo /\ reader'.total = reader.total
  <1> DEFINE owned == {c \in exists : OwnerOf[c] = reader.user}
             pc == IF owned = {} /\ reader.view # "dashboard" THEN "done" ELSE "query"
  <1>1. /\ reader' = [reader EXCEPT !.owned = owned, !.pc = pc]
        /\ reader.pc = "owned" /\ RowsKept /\ UNCHANGED <<before, left, late>>
    BY DEF Listing!ReadOwned, RowsKept
  <1>2. owned \in SUBSET Containers /\ pc \in {"done", "query"} /\ reader \in Reader
    BY DEF ListingTypeOK
  <1>3. pc = IF owned = {} /\ reader.view # "dashboard" THEN "done" ELSE "query"
    OBVIOUS
  <1> HIDE DEF pc
  <1>4. /\ reader' \in Reader /\ reader'.owned = owned /\ reader'.pc = pc /\ SamePage
        /\ reader'.seen = reader.seen /\ reader'.todo = reader.todo /\ reader'.total = reader.total
    BY <1>1, <1>2 DEF Reader, SamePage
  <1> QED
    BY <1>1, <1>3, <1>4

\* The items that a query returns.
Got == IF reader.view = "dashboard" THEN Listing!Cut(Listing!Where, 1, Latest)
       ELSE Listing!Page(Listing!Where, reader.page)

LEMMA ItemsFields ==
  ASSUME ListingTypeOK, Listing!ReadItems
  PROVE  /\ reader' \in Reader /\ RowsKept /\ UNCHANGED <<before, left, late>> /\ SamePage
         /\ reader.pc = "query" /\ "items" \in reader.todo
         /\ reader'.pc = "query" /\ reader'.owned = reader.owned /\ reader'.total = reader.total
         /\ reader'.todo = reader.todo \ {"items"} /\ reader'.seen = reader.seen \cup Got
         /\ Got \subseteq Listing!Where /\ Listing!Where \subseteq 1..Len(items)
  <1>1. /\ reader' = [reader EXCEPT !.todo = reader.todo \ {"items"}, !.seen = reader.seen \cup Got]
        /\ reader.pc = "query" /\ "items" \in reader.todo
        /\ RowsKept /\ UNCHANGED <<before, left, late>> /\ reader \in Reader
    BY DEF Listing!ReadItems, RowsKept, Got, ListingTypeOK, Reader
  <1>2. Got \subseteq Listing!Where /\ Listing!Where \subseteq 1..Len(items)
    BY DEF Got, Listing!Cut, Listing!Page, Listing!Where, Listing!Indexes
  <1>3. reader.seen \cup Got \in SUBSET Nat /\ reader.todo \ {"items"} \in SUBSET {"total", "failed", "items"}
    <2>1. 1..Len(items) \subseteq Nat
      BY DEF ListingTypeOK
    <2> QED
      BY <1>1, <1>2, <2>1 DEF Reader
  <1> HIDE DEF Got
  <1>4. /\ reader' \in Reader /\ SamePage
        /\ reader'.pc = "query" /\ reader'.owned = reader.owned /\ reader'.total = reader.total
        /\ reader'.todo = reader.todo \ {"items"} /\ reader'.seen = reader.seen \cup Got
    BY <1>1, <1>3 DEF Reader, SamePage
  <1> QED
    BY <1>1, <1>2, <1>4

LEMMA WhereFinite ==
  ASSUME ListingTypeOK
  PROVE  /\ IsFiniteSet(Listing!Where) /\ Listing!Where \subseteq Nat
         /\ Listing!Where \subseteq 1..Len(items) /\ Len(items) \in Nat
         /\ Cardinality(Listing!Where) \in Nat
  <1>1. Listing!Where \subseteq 1..Len(items) /\ Len(items) \in Nat
    BY DEF Listing!Where, Listing!Indexes, ListingTypeOK
  <1>2. IsFiniteSet(1..Len(items)) /\ 1..Len(items) \subseteq Nat
    BY <1>1, FS_Interval
  <1> QED
    BY <1>1, <1>2, FS_Subset, FS_CardinalityType

LEMMA TotalFields ==
  ASSUME ListingTypeOK, Listing!ReadTotal
  PROVE  /\ reader' \in Reader /\ RowsKept /\ UNCHANGED <<before, left>> /\ SamePage /\ late' = 0
         /\ reader.pc = "query" /\ "total" \in reader.todo
         /\ reader'.pc = "query" /\ reader'.owned = reader.owned
         /\ reader'.todo = reader.todo \ {"total"} /\ reader'.seen = reader.seen
         /\ reader'.total = Cardinality(Listing!Where)
  <1> DEFINE n == Cardinality(Listing!Where)
  <1>1. /\ reader' = [reader EXCEPT !.todo = reader.todo \ {"total"}, !.total = n]
        /\ reader.pc = "query" /\ "total" \in reader.todo /\ late' = 0
        /\ RowsKept /\ UNCHANGED <<before, left>> /\ reader \in Reader
    BY ListingCardinality DEF Listing!ReadTotal, RowsKept, ListingTypeOK, Reader
  <1>2. n \in Nat
    BY WhereFinite
  <1> HIDE DEF n
  <1>3. /\ reader' \in Reader /\ SamePage
        /\ reader'.pc = "query" /\ reader'.owned = reader.owned
        /\ reader'.todo = reader.todo \ {"total"} /\ reader'.seen = reader.seen
        /\ reader'.total = n
    BY <1>1, <1>2 DEF Reader, SamePage
  <1> QED
    BY <1>1, <1>3 DEF n

LEMMA FailedFields ==
  ASSUME ListingTypeOK, Listing!ReadFailed
  PROVE  /\ reader' \in Reader /\ RowsKept /\ UNCHANGED <<before, left, late>> /\ SamePage
         /\ reader.pc = "query" /\ "failed" \in reader.todo
         /\ reader'.pc = "query" /\ reader'.owned = reader.owned
         /\ reader'.todo = reader.todo \ {"failed"} /\ reader'.seen = reader.seen
         /\ reader'.total = reader.total
  <1> DEFINE F == {i \in Listing!Where : items[i].status = Failed}
             n == Cardinality(F)
  <1>1. /\ reader' = [reader EXCEPT !.todo = reader.todo \ {"failed"}, !.failed = n]
        /\ reader.pc = "query" /\ "failed" \in reader.todo
        /\ RowsKept /\ UNCHANGED <<before, left, late>> /\ reader \in Reader
    BY ListingCardinality DEF Listing!ReadFailed, RowsKept, ListingTypeOK, Reader
  <1>2. n \in Nat
    BY WhereFinite, FS_Subset, FS_CardinalityType
  <1> HIDE DEF n
  <1> QED
    BY <1>1, <1>2 DEF Reader, SamePage

LEMMA EndPageFields ==
  ASSUME ListingTypeOK, Listing!EndPage
  PROVE  /\ reader' \in Reader /\ RowsKept /\ UNCHANGED <<before, left, late>>
         /\ reader.pc = "query" /\ reader.todo = {}
         /\ reader'.view = reader.view /\ reader'.user = reader.user
         /\ reader'.filter = reader.filter /\ reader'.owned = reader.owned
         /\ reader'.seen = reader.seen /\ reader'.total = reader.total
         /\ \/ /\ reader.view = "dashboard" \/ reader.page * Limit >= reader.total
               /\ reader'.pc = "done" /\ reader'.page = reader.page /\ reader'.todo = {}
            \/ /\ reader.view # "dashboard"
               /\ reader'.pc = Listing!Request(reader.view, reader.user)
               /\ reader'.page = reader.page + 1 /\ reader'.todo = Listing!Queries(reader.view)
  <1>1. /\ reader.pc = "query" /\ reader.todo = {} /\ reader \in Reader
        /\ RowsKept /\ UNCHANGED <<before, left, late>>
    BY DEF Listing!EndPage, RowsKept, ListingTypeOK
  <1>2. CASE /\ reader.view = "dashboard" \/ reader.page * Limit >= reader.total
             /\ reader' = [reader EXCEPT !.pc = "done"]
    BY <1>1, <1>2 DEF Reader
  <1>3. CASE /\ reader.view # "dashboard"
             /\ reader' = [reader EXCEPT !.pc = Listing!Request(reader.view, reader.user),
                             !.page = reader.page + 1, !.todo = Listing!Queries(reader.view)]
    <2>1. /\ Listing!Request(reader.view, reader.user) \in {"owned", "query"}
          /\ Listing!Queries(reader.view) \in SUBSET {"total", "failed", "items"}
          /\ reader.page + 1 \in Nat \ {0}
      BY <1>1 DEF Listing!Request, Listing!Queries, Reader
    <2> QED
      BY <1>1, <1>3, <2>1 DEF Reader
  <1> QED
    BY <1>1, <1>2, <1>3 DEF Listing!EndPage, Reader

LEMMA ListingTypeNext ==
  ASSUME ListingTypeOK, ReaderOK, [Listing!Next]_(Listing!vars)
  PROVE  ListingTypeOK' /\ ReaderOK'
  <1>1. CASE Listing!CreateContainer \/ Listing!CreateItem \/ Listing!ChangeStatus
    BY <1>1, Writers, WritesKeep
  <1>2. CASE Listing!Begin
    <2>1. ListingTypeOK'
      BY <1>2, BeginFields DEF ListingTypeOK, RowsKept
    <2>2. (\A i \in before : Listing!CanSee(reader.user, i))'
      BY <1>2, BeginFields DEF Listing!CanSee, RowsKept
    <2>3. reader'.pc = "owned" <=> Listing!ReadsOwned(reader'.view, reader'.user)
      BY <1>2, BeginFields DEF Listing!Request
    <2> QED
      BY <1>2, <2>1, <2>2, <2>3, BeginFields DEF ReaderOK, Listing!Request
  <1>3. CASE Listing!ReadOwned
    <2>1. ListingTypeOK'
      BY <1>3, OwnedFields DEF ListingTypeOK, RowsKept
    <2>2. (\A i \in before : Listing!CanSee(reader.user, i))'
      BY <1>3, OwnedFields DEF ReaderOK, SamePage, Listing!CanSee, RowsKept
    <2>3. \A i \in before : ~Listing!IsPrivileged(reader.user) => items[i].container \in reader'.owned
      BY <1>3, OwnedFields DEF ListingTypeOK, ReaderOK, Listing!CanSee
    <2>4. /\ reader'.owned \subseteq {c \in exists : OwnerOf[c] = reader.user}
          /\ reader'.pc # "owned" /\ RowsKept /\ before' = before /\ SamePage
          /\ reader'.todo = reader.todo
      BY <1>3, OwnedFields
    <2> QED
      BY <2>1, <2>2, <2>3, <2>4 DEF ReaderOK, SamePage, RowsKept, Listing!ReadsOwned
  <1>4. CASE Listing!ReadItems \/ Listing!ReadTotal \/ Listing!ReadFailed
    <2>1. /\ reader' \in Reader /\ RowsKept /\ UNCHANGED <<before, left>> /\ SamePage
          /\ late' \in {late, 0}
          /\ reader.pc = "query" /\ reader'.pc = "query" /\ reader'.owned = reader.owned
          /\ reader'.todo \subseteq reader.todo /\ reader'.seen \subseteq 1..Len(items)
      BY <1>4, ItemsFields, TotalFields, FailedFields DEF ListingTypeOK
    <2>2. ListingTypeOK'
      BY <2>1 DEF ListingTypeOK, RowsKept
    <2>3. (\A i \in before : Listing!CanSee(reader.user, i))'
      BY <2>1 DEF ReaderOK, SamePage, Listing!CanSee, RowsKept
    <2> QED
      BY <2>1, <2>2, <2>3 DEF ReaderOK, SamePage, RowsKept
  <1>5. CASE Listing!EndPage
    <2>1. ListingTypeOK'
      BY <1>5, EndPageFields DEF ListingTypeOK, RowsKept
    <2>2. (\A i \in before : Listing!CanSee(reader.user, i))'
      BY <1>5, EndPageFields DEF ReaderOK, Listing!CanSee, RowsKept
    <2> QED
      BY <1>5, <2>1, <2>2, EndPageFields DEF ReaderOK, RowsKept, Listing!Request
  <1>6. CASE Listing!EndReader
    <2>1. /\ Listing!Idle \in Reader /\ Listing!Idle.pc = "idle" /\ Listing!Idle.view = "runs"
          /\ Listing!Idle.seen = {} /\ Listing!Idle.owned = {} /\ Listing!Idle.todo = {}
      BY DEF Listing!Idle, Reader
    <2>2. reader' = Listing!Idle /\ before' = {} /\ left' = 0 /\ late' = 0 /\ RowsKept
      BY <1>6 DEF Listing!EndReader, RowsKept
    <2> QED
      BY <2>1, <2>2 DEF ListingTypeOK, ReaderOK, RowsKept
  <1>7. CASE UNCHANGED Listing!vars
    BY <1>7 DEF Listing!vars, ListingTypeOK, ReaderOK, Listing!CanSee
  <1> QED
    BY <1>1, <1>2, <1>3, <1>4, <1>5, <1>6, <1>7 DEF Listing!Next

(* The pages of a list. *)

Matches(i) == reader.filter \in {None, items[i].status}
Unseen == before \ reader.seen

\* The places of the pages whose items have been read.
Past == (IF "items" \in reader.todo THEN reader.page - 1 ELSE reader.page) * Limit

\* What the reader could see when it began, has not got and will not: items that no
\* longer match, and items that have moved up to the places of a page already read.
Lost ==
  {i \in Unseen : ~Matches(i) \/ (i \in Listing!Where /\ Rank(Listing!Where, i) <= Past)}

\* Each lost item costs one that left the filter; and once the total of a page is
\* known, the list has grown beyond it by the late ones only.
PagesInv ==
  reader.view # "dashboard" =>
    /\ reader.pc \in {"owned", "query"} => Cardinality(Lost) <= left
    /\ reader.pc = "query" /\ "items" \in reader.todo /\ "total" \notin reader.todo =>
         Cardinality(Listing!Where) <= reader.total + late
    /\ \/ reader.pc = "done"
       \/ reader.pc = "query" /\ reader.todo = {} /\ reader.page * Limit >= reader.total
       => Cardinality(Unseen) <= left + late

LEMMA UnseenFinite ==
  ASSUME ListingTypeOK
  PROVE  /\ IsFiniteSet(Unseen) /\ Cardinality(Unseen) \in Nat
         /\ IsFiniteSet(Lost) /\ Cardinality(Lost) \in Nat
         /\ Lost \subseteq Unseen /\ Unseen \subseteq 1..Len(items)
  <1>0. Lost \subseteq Unseen
    BY DEF Lost
  <1>1. before \subseteq 1..Len(items) /\ Len(items) \in Nat /\ Unseen \subseteq before
    <2>1. Unseen \subseteq before
      BY DEF Unseen
    <2> QED
      BY <2>1 DEF ListingTypeOK
  <1>2. IsFiniteSet(1..Len(items))
    BY <1>1, FS_Interval
  <1> QED
    BY <1>0, <1>1, <1>2, FS_Subset, FS_CardinalityType

LEMMA UnseenFiniteNext ==
  ASSUME ListingTypeOK'
  PROVE  /\ IsFiniteSet(Unseen') /\ Cardinality(Unseen') \in Nat
         /\ IsFiniteSet(Lost') /\ Cardinality(Lost') \in Nat
         /\ IsFiniteSet(Listing!Where') /\ Cardinality(Listing!Where') \in Nat
  <1>0. Lost' \subseteq Unseen'
    BY DEF Lost
  <1>1. /\ before' \subseteq 1..Len(items') /\ Len(items') \in Nat
        /\ Unseen' \subseteq before' /\ Listing!Where' \subseteq 1..Len(items')
    <2>1. Unseen' \subseteq before'
      BY DEF Unseen
    <2>2. Listing!Where' \subseteq 1..Len(items')
      BY DEF Listing!Where, Listing!Indexes
    <2> QED
      BY <2>1, <2>2 DEF ListingTypeOK
  <1>2. IsFiniteSet(1..Len(items'))
    BY <1>1, FS_Interval
  <1> QED
    BY <1>0, <1>1, <1>2, FS_Subset, FS_CardinalityType

LEMMA PastType ==
  ASSUME SizesAreNumbers, ListingTypeOK
  PROVE  Past \in Nat
  <1>1. reader.page \in Nat /\ reader.page - 1 \in Nat
    BY DEF ListingTypeOK, Reader
  <1> QED
    BY <1>1 DEF Past, SizesAreNumbers

LEMMA MembersOfWhere ==
  \A i : i \in Listing!Where <=> i \in 1..Len(items) /\ Listing!InScope(i) /\ Matches(i)
  BY DEF Listing!Where, Listing!Indexes, Matches

LEMMA UnseenInWhere ==
  ASSUME ListingTypeOK, ReaderOK, reader.pc = "query", NEW i \in before, Matches(i)
  PROVE  i \in Listing!Where
  <1>1. Listing!InScope(i) /\ i \in 1..Len(items)
    BY DEF ListingTypeOK, ReaderOK, Listing!InScope
  <1> QED
    BY <1>1, MembersOfWhere

\* A list that grows moves no item to an earlier place.
LEMMA LostShrinks ==
  ASSUME SizesAreNumbers, ListingTypeOK, ListingTypeOK',
         Unseen' = Unseen, Past' = Past,
         Listing!Where \subseteq Listing!Where',
         \A i \in before : Matches(i) => Matches(i)',
         \A i \in before : i \in Listing!Where' /\ Matches(i) => i \in Listing!Where
  PROVE  Lost' \subseteq Lost
  <1> SUFFICES ASSUME NEW i \in Lost' PROVE i \in Lost
    OBVIOUS
  <1>1. i \in Unseen /\ i \in before
    BY DEF Lost, Unseen
  <1>2. CASE ~Matches(i)
    BY <1>1, <1>2 DEF Lost
  <1>3. CASE Matches(i)
    <2>1. i \in Listing!Where' /\ Rank(Listing!Where', i) <= Past
      BY <1>1, <1>3 DEF Lost
    <2>2. i \in Listing!Where
      BY <1>1, <1>3, <2>1
    <2>3. IsFiniteSet(Listing!Where') /\ IsFiniteSet(Listing!Where)
      BY WhereFinite, UnseenFiniteNext
    <2>4. Rank(Listing!Where, i) <= Rank(Listing!Where', i)
      BY <2>3, RankGrows
    <2>5. Rank(Listing!Where, i) \in Nat /\ Rank(Listing!Where', i) \in Nat /\ Past \in Nat
      BY <2>3, RankType, PastType
    <2>6. Rank(Listing!Where, i) <= Past
      BY <2>1, <2>4, <2>5
    <2> QED
      BY <1>1, <2>2, <2>6 DEF Lost
  <1> QED
    BY <1>2, <1>3

\* An item that drops out of the list is lost itself, or moves one other, the next
\* to be read, to a place already read.
LEMMA LostOne ==
  ASSUME SizesAreNumbers, ListingTypeOK,
         Unseen' = Unseen, Past' = Past, NEW i,
         Listing!Where' = Listing!Where \ {i},
         \A j \in before \ {i} : Matches(j)' <=> Matches(j)
  PROVE  \E e : Lost' \subseteq Lost \cup {e}
  <1> DEFINE W == Listing!Where
             New == Lost' \ Lost
  <1>1. IsFiniteSet(W) /\ W \subseteq Nat /\ Past \in Nat
    BY WhereFinite, PastType
  <1>2. ASSUME NEW j \in New, j # i
        PROVE  j \in W /\ i \in W /\ j < i /\ Rank(W, j) = Past + 1
    <2>1. j \in Unseen /\ j \in before /\ Matches(j)
      BY <1>2 DEF Lost, Unseen
    <2>2. j \in W \ {i} /\ Rank(W \ {i}, j) <= Past /\ ~(Rank(W, j) <= Past)
      BY <1>2, <2>1 DEF Lost
    <2>3. Rank(W, j) \in Nat /\ j \in W
      BY <1>1, <2>2, RankType
    <2>4. Rank(W \ {i}, j) \in {Rank(W, j), Rank(W, j) - 1}
          /\ (i \notin W \/ i < j => Rank(W \ {i}, j) = Rank(W, j))
      BY <1>1, <2>3, RankRemoved
    <2>5. Rank(W, j) = Past + 1 /\ i \in W /\ ~(i < j)
      BY <1>1, <2>2, <2>3, <2>4
    <2>6. i \in Nat /\ j \in Nat
      BY <1>1, <2>3, <2>5
    <2> QED
      BY <1>2, <2>3, <2>5, <2>6
  <1>3. CASE i \in New
    <2>1. ~(i \in W /\ Rank(W, i) <= Past)
      BY <1>3 DEF Lost
    <2>2. ASSUME NEW j \in New, j # i PROVE FALSE
      <3>1. j \in W /\ i \in W /\ j < i /\ Rank(W, j) = Past + 1
        BY <1>2, <2>2
      <3>2. Rank(W, i) < Rank(W, j)
        BY <1>1, <3>1, RankStrict
      <3>3. Rank(W, i) \in Nat
        BY <1>1, RankType
      <3> QED
        BY <1>1, <2>1, <3>1, <3>2, <3>3
    <2>3. Lost' \subseteq Lost \cup {i}
      BY <2>2
    <2> QED
      BY <2>3
  <1>4. ASSUME i \notin New, NEW e \in New PROVE Lost' \subseteq Lost \cup {e}
    <2>1. ASSUME NEW j \in New, j # e PROVE FALSE
      <3>1. /\ j \in W /\ Rank(W, j) = Past + 1
            /\ e \in W /\ Rank(W, e) = Past + 1
        BY <1>2, <1>4, <2>1
      <3>2. j \in Nat /\ e \in Nat
        BY <1>1, <3>1
      <3>3. j < e \/ e < j
        BY <2>1, <3>2
      <3>4. CASE j < e
        <4>1. Rank(W, e) < Rank(W, j)
          BY <1>1, <3>1, <3>4, RankStrict
        <4> QED
          BY <1>1, <3>1, <4>1
      <3>5. CASE e < j
        <4>1. Rank(W, j) < Rank(W, e)
          BY <1>1, <3>1, <3>5, RankStrict
        <4> QED
          BY <1>1, <3>1, <4>1
      <3> QED
        BY <3>3, <3>4, <3>5
    <2> QED
      BY <2>1
  <1>5. New = {} => Lost' \subseteq Lost \cup {i}
    OBVIOUS
  <1> QED
    BY <1>3, <1>4, <1>5

LEMMA CreateItemLate ==
  ASSUME ListingTypeOK, Listing!CreateItem
  PROVE  /\ \A i \in 1..Len(items) : items'[i] = items[i]
         /\ Listing!Where \subseteq Listing!Where'
         /\ Listing!Where' \subseteq Listing!Where \cup {Len(items) + 1}
         /\ reader.pc = "query" /\ "items" \in reader.todo /\ "total" \notin reader.todo =>
              late' = late + 1 \/ Len(items) + 1 \notin Listing!Where'
  <1>0. PICK c \in exists, s \in ItemStatuses :
          items' = Append(items, [container |-> c, status |-> s]) /\ late' = Listing!LateAfter(s)
    BY DEF Listing!CreateItem
  <1> DEFINE it == [container |-> c, status |-> s]
  <1>1. it \in Item /\ it.status = s
    BY DEF Item, ListingTypeOK
  <1> HIDE DEF it
  <1>2. /\ items' = Append(items, it) /\ Len(items') = Len(items) + 1 /\ Len(items) \in Nat
        /\ \A i \in 1..Len(items) : items'[i] = items[i]
        /\ items'[Len(items) + 1] = it
    BY <1>0, <1>1, AppendProperties DEF ListingTypeOK, it
  <1>3. reader' = reader
    BY DEF Listing!CreateItem
  <1>4. \A i : i \in 1..Len(items') <=> i \in 1..Len(items) \/ i = Len(items) + 1
    BY <1>2
  <1>5. \A i \in 1..Len(items) : Listing!InScope(i)' <=> Listing!InScope(i)
    BY <1>2, <1>3 DEF Listing!InScope, Listing!CanSee
  <1>6. \A i : i \in Listing!Where' <=> i \in 1..Len(items') /\ Listing!InScope(i)' /\ Matches(i)'
    BY DEF Listing!Where, Listing!Indexes, Matches
  <1>7. \A i \in 1..Len(items) : i \in Listing!Where' <=> i \in Listing!Where
    BY <1>2, <1>3, <1>4, <1>5, <1>6, MembersOfWhere DEF Matches
  <1>8. /\ Listing!Where \subseteq Listing!Where'
        /\ Listing!Where' \subseteq Listing!Where \cup {Len(items) + 1}
    BY <1>4, <1>6, <1>7, MembersOfWhere
  <1>9. Len(items) + 1 \in Listing!Where' => reader.filter \in {None, s}
    BY <1>1, <1>2, <1>3, <1>6 DEF Matches
  <1> QED
    BY <1>0, <1>2, <1>8, <1>9 DEF Listing!LateAfter

LEMMA ChangeStatusEffect ==
  ASSUME ListingTypeOK, Listing!ChangeStatus
  PROVE  \E i \in 1..Len(items), s \in ItemStatuses :
           /\ items[i].status # s /\ reader' = reader /\ before' = before /\ Len(items') = Len(items)
           /\ \A j \in 1..Len(items) \ {i} : Matches(j)' <=> Matches(j)
           /\ Matches(i)' <=> reader.filter \in {None, s}
           /\ Listing!Where \ {i} = Listing!Where' \ {i}
           /\ left' = IF items[i].status = reader.filter THEN left + 1 ELSE left
           /\ late' = IF reader.filter = None THEN late ELSE Listing!LateAfter(s)
           /\ Listing!InScope(i)' <=> Listing!InScope(i)
  <1>1. PICK i \in 1..Len(items), s \in ItemStatuses :
          /\ items[i].status # s
          /\ items' = [items EXCEPT ![i].status = s]
          /\ left' = IF items[i].status = reader.filter THEN left + 1 ELSE left
          /\ late' = IF reader.filter = None THEN late ELSE Listing!LateAfter(s)
    BY DEF Listing!ChangeStatus, Listing!Indexes
  <1> DEFINE it == [items[i] EXCEPT !.status = s]
  <1>2. items[i] \in Item
    BY DEF ListingTypeOK
  <1>3. it \in Item /\ it.container = items[i].container /\ it.status = s
    BY <1>2 DEF Item
  <1>4. items' = [items EXCEPT ![i] = it]
    BY <1>1 DEF ListingTypeOK
  <1> HIDE DEF it
  <1>5. /\ Len(items') = Len(items)
        /\ \A j \in 1..Len(items) : items'[j] = IF j = i THEN it ELSE items[j]
    BY <1>3, <1>4, ExceptSeq DEF ListingTypeOK
  <1>6. reader' = reader /\ before' = before
    BY DEF Listing!ChangeStatus
  <1>7. \A j \in 1..Len(items) : Listing!InScope(j)' <=> Listing!InScope(j)
    BY <1>3, <1>5, <1>6 DEF Listing!InScope, Listing!CanSee
  <1>8. \A j : j \in Listing!Where' <=> j \in 1..Len(items') /\ Listing!InScope(j)' /\ Matches(j)'
    BY DEF Listing!Where, Listing!Indexes, Matches
  <1>9. /\ \A j \in 1..Len(items) \ {i} : Matches(j)' <=> Matches(j)
        /\ Matches(i)' <=> reader.filter \in {None, s}
    BY <1>3, <1>5, <1>6 DEF Matches
  <1>10. Listing!Where \ {i} = Listing!Where' \ {i}
    BY <1>5, <1>7, <1>8, <1>9, MembersOfWhere
  <1> QED
    BY <1>1, <1>5, <1>6, <1>7, <1>9, <1>10

\* The writers: what left the filter is counted, and so is what came late.
LEMMA PagesWrites ==
  ASSUME SizesAreNumbers, ListingTypeOK, ReaderOK, PagesInv,
         Listing!CreateContainer \/ Listing!CreateItem \/ Listing!ChangeStatus
  PROVE  PagesInv'
  <1>0. /\ ListingTypeOK' /\ reader' = reader /\ before' = before
        /\ left \in Nat /\ left' \in Nat /\ left <= left'
        /\ late \in Nat /\ late' \in Nat /\ late <= late'
        /\ \A i \in before : i \in 1..Len(items)
    BY Writers, WritesKeep DEF Writes, ListingTypeOK
  <1>1. Unseen' = Unseen /\ Past' = Past
    BY <1>0 DEF Unseen, Past
  <1>2. /\ Cardinality(Lost) \in Nat /\ Cardinality(Lost') \in Nat /\ IsFiniteSet(Lost)
        /\ Cardinality(Listing!Where) \in Nat /\ Cardinality(Listing!Where') \in Nat
        /\ Cardinality(Unseen) \in Nat /\ IsFiniteSet(Listing!Where) /\ IsFiniteSet(Listing!Where')
    BY <1>0, UnseenFinite, UnseenFiniteNext, WhereFinite
  <1>3. SUFFICES ASSUME reader.view # "dashboard"
                 PROVE  /\ Cardinality(Lost) <= left => Cardinality(Lost') <= left'
                        /\ /\ reader.pc = "query" /\ "items" \in reader.todo /\ "total" \notin reader.todo
                           /\ Cardinality(Listing!Where) <= reader.total + late
                           => Cardinality(Listing!Where') <= reader.total + late'
    <2>1. reader.total \in Nat
      BY DEF ListingTypeOK, Reader
    <2> QED
      BY <1>0, <1>1, <1>2, <2>1 DEF PagesInv
  <1>4. reader.total \in Nat
    BY DEF ListingTypeOK, Reader
  <1>5. CASE Listing!CreateContainer
    <2>1. UNCHANGED <<items, reader, before, left, late>>
      BY <1>5 DEF Listing!CreateContainer
    <2>2. Listing!Where' = Listing!Where
      BY <2>1 DEF Listing!Where, Listing!Indexes, Listing!InScope, Listing!CanSee
    <2>3. Lost' = Lost
      BY <1>1, <2>1, <2>2 DEF Lost, Matches
    <2> QED
      BY <2>1, <2>2, <2>3
  <1>6. CASE Listing!CreateItem
    <2>1. /\ \A i \in 1..Len(items) : items'[i] = items[i]
          /\ Listing!Where \subseteq Listing!Where'
          /\ Listing!Where' \subseteq Listing!Where \cup {Len(items) + 1}
          /\ reader.pc = "query" /\ "items" \in reader.todo /\ "total" \notin reader.todo =>
               late' = late + 1 \/ Len(items) + 1 \notin Listing!Where'
      BY <1>6, CreateItemLate
    <2>2. Len(items) + 1 \notin before
      BY <1>0 DEF ListingTypeOK
    <2>3. \A i \in before : Matches(i) => Matches(i)'
      BY <1>0, <2>1 DEF Matches
    <2>4. Lost' \subseteq Lost
      BY <1>0, <1>1, <2>1, <2>2, <2>3, LostShrinks
    <2>5. Cardinality(Lost') <= Cardinality(Lost)
      BY <1>2, <2>4, FS_Subset
    <2>6. /\ Cardinality(Listing!Where') <= Cardinality(Listing!Where) + 1
          /\ Len(items) + 1 \notin Listing!Where' => Listing!Where' = Listing!Where
      <3>1. /\ IsFiniteSet(Listing!Where \cup {Len(items) + 1})
            /\ Cardinality(Listing!Where \cup {Len(items) + 1}) <= Cardinality(Listing!Where) + 1
            /\ Cardinality(Listing!Where \cup {Len(items) + 1}) \in Nat
        BY <1>2, OneMore
      <3>2. Cardinality(Listing!Where') <= Cardinality(Listing!Where \cup {Len(items) + 1})
        BY <2>1, <3>1, FS_Subset
      <3> QED
        BY <1>2, <2>1, <3>1, <3>2
    <2> QED
      BY <1>0, <1>2, <1>4, <2>1, <2>5, <2>6
  <1>7. CASE Listing!ChangeStatus
    <2>1. PICK i \in 1..Len(items), s \in ItemStatuses :
            /\ items[i].status # s
            /\ \A j \in 1..Len(items) \ {i} : Matches(j)' <=> Matches(j)
            /\ Matches(i)' <=> reader.filter \in {None, s}
            /\ Listing!Where \ {i} = Listing!Where' \ {i}
            /\ left' = IF items[i].status = reader.filter THEN left + 1 ELSE left
            /\ late' = IF reader.filter = None THEN late ELSE Listing!LateAfter(s)
            /\ Listing!InScope(i)' <=> Listing!InScope(i)
            /\ Len(items') = Len(items)
      BY <1>7, ChangeStatusEffect
    <2>2. i \in Listing!Where' <=> Listing!InScope(i) /\ reader.filter \in {None, s}
      BY <2>1 DEF Listing!Where, Listing!Indexes, Matches
    <2>3. i \in Listing!Where <=> Listing!InScope(i) /\ reader.filter \in {None, items[i].status}
      BY <2>1, MembersOfWhere DEF Matches
    <2>4. Matches(i) <=> reader.filter \in {None, items[i].status}
      BY DEF Matches
    <2>5. CASE reader.filter = None \/ reader.filter # items[i].status
      <3>1. \A j \in before : Matches(j) => Matches(j)'
        BY <1>0, <2>1, <2>4, <2>5
      <3>2. Listing!Where \subseteq Listing!Where'
        BY <2>1, <2>2, <2>3, <2>5
      <3>3. \A j \in before : j \in Listing!Where' /\ Matches(j) => j \in Listing!Where
        BY <2>1, <2>2, <2>3, <2>4, <2>5
      <3>4. Lost' \subseteq Lost
        BY <1>0, <1>1, <3>1, <3>2, <3>3, LostShrinks
      <3>5. Cardinality(Lost') <= Cardinality(Lost)
        BY <1>2, <3>4, FS_Subset
      <3>6. ASSUME reader.pc = "query", "items" \in reader.todo, "total" \notin reader.todo
            PROVE  Cardinality(Listing!Where') <= Cardinality(Listing!Where) + (late' - late)
        <4>1. CASE reader.filter = None \/ reader.filter # s
          <5>0. i \in Listing!Where' <=> i \in Listing!Where
            BY <2>2, <2>3, <2>5, <4>1
          <5>1. Cardinality(Listing!Where') = Cardinality(Listing!Where)
            <6>1. Listing!Where \ {i} = Listing!Where' \ {i}
              BY <2>1
            <6> QED
              BY <1>2, <5>0, <6>1, OneElement
          <5> QED
            BY <1>0, <1>2, <5>1
        <4>2. CASE reader.filter # None /\ reader.filter = s
          <5>1. late' = late + 1
            BY <2>1, <3>6, <4>2 DEF Listing!LateAfter
          <5>2. Cardinality(Listing!Where') <= Cardinality(Listing!Where) + 1
            <6>1. Listing!Where \ {i} = Listing!Where' \ {i}
              BY <2>1
            <6>2. Cardinality(Listing!Where') \in {Cardinality(Listing!Where) - 1,
                    Cardinality(Listing!Where), Cardinality(Listing!Where) + 1}
              BY <1>2, <6>1, OneElement
            <6> QED
              BY <1>2, <6>2
          <5> QED
            BY <1>0, <1>2, <5>1, <5>2
        <4> QED
          BY <4>1, <4>2
      <3> QED
        BY <1>0, <1>2, <1>4, <3>5, <3>6
    <2>6. CASE reader.filter # None /\ reader.filter = items[i].status
      <3>1. Listing!Where' = Listing!Where \ {i}
        BY <2>1, <2>2, <2>6
      <3>2. \A j \in before \ {i} : Matches(j)' <=> Matches(j)
        BY <1>0, <2>1
      <3>3. PICK e : Lost' \subseteq Lost \cup {e}
        BY <1>1, <3>1, <3>2, LostOne
      <3>4. Cardinality(Lost') <= Cardinality(Lost) + 1
        <4>1. /\ IsFiniteSet(Lost \cup {e}) /\ Cardinality(Lost \cup {e}) \in Nat
              /\ Cardinality(Lost \cup {e}) <= Cardinality(Lost) + 1
          BY <1>2, OneMore
        <4>2. Cardinality(Lost') <= Cardinality(Lost \cup {e})
          BY <3>3, <4>1, FS_Subset
        <4> QED
          BY <1>2, <4>1, <4>2
      <3>5. Cardinality(Listing!Where') <= Cardinality(Listing!Where)
        BY <1>2, <3>1, FS_Subset
      <3>6. left' = left + 1
        BY <2>1, <2>6
      <3> QED
        BY <1>0, <1>2, <1>4, <3>4, <3>5, <3>6
    <2> QED
      BY <2>5, <2>6
  <1> QED
    BY <1>5, <1>6, <1>7

\* The steps of the reader change neither the rows nor what they are matched with.
LEMMA RowsSame ==
  ASSUME RowsKept, before' = before, SamePage \/ reader'.filter = reader.filter
  PROVE  \A i : Matches(i)' <=> Matches(i)
  BY DEF RowsKept, Matches, SamePage

LEMMA WhereSame ==
  ASSUME RowsKept, reader'.view = reader.view, reader'.user = reader.user,
         reader'.filter = reader.filter, reader'.owned = reader.owned
  PROVE  Listing!Where' = Listing!Where
  <1>1. \A i : Listing!InScope(i)' <=> Listing!InScope(i)
    BY DEF RowsKept, Listing!InScope, Listing!CanSee
  <1> QED
    BY <1>1 DEF Listing!Where, Listing!Indexes, RowsKept

LEMMA PagesBegin ==
  ASSUME SizesAreNumbers, ListingTypeOK, ListingTypeOK', Listing!Begin
  PROVE  PagesInv'
  <1>1. /\ \A i \in before' : Matches(i)'
        /\ reader'.page = 1 /\ left' = 0 /\ reader'.pc \in {"owned", "query"}
        /\ "items" \in reader'.todo /\ "total" \in reader'.todo
    BY BeginFields DEF Matches, RowsKept, Listing!Request, Listing!Queries
  <1>2. Past' = 0
    BY <1>1 DEF Past, SizesAreNumbers
  <1>3. Lost' = {}
    <2> SUFFICES ASSUME NEW i \in Lost' PROVE FALSE
      OBVIOUS
    <2>1. i \in before'
      BY DEF Lost, Unseen
    <2>2. i \in Listing!Where' /\ Rank(Listing!Where', i) <= 0
      BY <1>1, <1>2, <2>1 DEF Lost
    <2>3. IsFiniteSet(Listing!Where') /\ Listing!Where' \subseteq Nat
      <3>1. Listing!Where' \subseteq 1..Len(items') /\ Len(items') \in Nat
        BY DEF Listing!Where, Listing!Indexes, ListingTypeOK
      <3> QED
        BY <3>1, UnseenFiniteNext
    <2>4. Rank(Listing!Where', i) \in Nat /\ Rank(Listing!Where', i) >= 1
      BY <2>2, <2>3, RankType
    <2> QED
      BY <2>2, <2>4
  <1>4. Cardinality(Lost') = 0
    BY <1>3, FS_EmptySet
  <1> QED
    BY <1>1, <1>4 DEF PagesInv

LEMMA PagesReadOwned ==
  ASSUME SizesAreNumbers, ListingTypeOK, ReaderOK, ListingTypeOK', ReaderOK', PagesInv, Listing!ReadOwned
  PROVE  PagesInv'
  <1>0. /\ RowsKept /\ UNCHANGED <<before, left, late>> /\ SamePage /\ reader.pc = "owned"
        /\ reader'.owned = {c \in exists : OwnerOf[c] = reader.user}
        /\ reader'.pc = IF reader'.owned = {} /\ reader.view # "dashboard" THEN "done" ELSE "query"
        /\ reader'.seen = reader.seen /\ reader'.todo = reader.todo
        /\ left \in Nat /\ late \in Nat
    BY OwnedFields DEF ListingTypeOK
  <1>1. SUFFICES ASSUME reader.view # "dashboard" PROVE PagesInv'
    BY <1>0 DEF PagesInv, SamePage
  <1>2. Listing!ReadsOwned(reader.view, reader.user) /\ reader.todo = {"total", "items"}
    BY <1>0, <1>1 DEF ReaderOK, Listing!Queries
  <1>3. Unseen' = Unseen /\ Past' = Past
    BY <1>0 DEF Unseen, Past, SamePage
  <1>4. \A i : Matches(i)' <=> Matches(i)
    BY <1>0, RowsSame
  <1>5. \A i \in before : items[i].container \in reader'.owned
    BY <1>0, <1>2 DEF ListingTypeOK, ReaderOK, Listing!CanSee, Listing!ReadsOwned
  <1>6. CASE reader'.pc = "done"
    <2>1. Unseen' = {}
      BY <1>0, <1>3, <1>5, <1>6 DEF Unseen
    <2>2. Cardinality(Unseen') = 0
      BY <2>1, FS_EmptySet
    <2> QED
      BY <1>0, <1>6, <2>2 DEF PagesInv
  <1>7. CASE reader'.pc = "query"
    <2>1. Listing!Where \subseteq Listing!Where'
      <3>1. \A i \in 1..Len(items) : Listing!InScope(i) => Listing!InScope(i)'
        BY <1>0, <1>2 DEF ReaderOK, Listing!InScope, RowsKept, SamePage, Listing!ReadsOwned, Listing!IsPrivileged
      <3>2. \A i : i \in Listing!Where' <=> i \in 1..Len(items') /\ Listing!InScope(i)' /\ Matches(i)'
        BY DEF Listing!Where, Listing!Indexes, Matches
      <3> QED
        BY <1>0, <1>4, <3>1, <3>2, MembersOfWhere DEF RowsKept
    <2>2. Cardinality(Lost) \in Nat /\ Cardinality(Lost') \in Nat /\ IsFiniteSet(Lost)
      BY UnseenFinite, UnseenFiniteNext
    <2>3. ASSUME reader.page = 1 PROVE Lost' \subseteq Lost
      <3>1. Past = 0
        BY <1>2, <2>3 DEF Past, SizesAreNumbers
      <3>2. ASSUME NEW i \in Lost' PROVE i \in Lost
        <4>1. i \in Unseen /\ i \in before
          BY <1>3 DEF Lost, Unseen
        <4>2. IsFiniteSet(Listing!Where') /\ Listing!Where' \subseteq Nat
          <5>1. Listing!Where' \subseteq 1..Len(items') /\ Len(items') \in Nat
            BY DEF Listing!Where, Listing!Indexes, ListingTypeOK
          <5> QED
            BY <5>1, UnseenFiniteNext
        <4>3. ~(i \in Listing!Where' /\ Rank(Listing!Where', i) <= 0)
          <5> SUFFICES ASSUME i \in Listing!Where' PROVE ~(Rank(Listing!Where', i) <= 0)
            OBVIOUS
          <5>1. Rank(Listing!Where', i) \in Nat /\ Rank(Listing!Where', i) >= 1
            BY <4>2, RankType
          <5> QED
            BY <5>1
        <4>4. ~Matches(i)
          BY <1>3, <1>4, <3>1, <4>3 DEF Lost
        <4> QED
          BY <4>1, <4>4 DEF Lost
      <3> QED
        BY <3>2
    <2>4. ASSUME reader.page # 1 PROVE Lost' \subseteq Lost
      <3>1. \A i \in before : items[i].container \in reader.owned
        BY <1>0, <1>2, <2>4 DEF ReaderOK
      <3>2. \A i \in before : Matches(i) => i \in Listing!Where
        <4>1. \A i \in before : i \in 1..Len(items)
          BY DEF ListingTypeOK
        <4> QED
          BY <1>2, <3>1, <4>1, MembersOfWhere DEF Listing!InScope
      <3> QED
        BY <1>0, <1>3, <1>4, <2>1, <3>2, LostShrinks
    <2>5. Lost' \subseteq Lost
      BY <2>3, <2>4
    <2>6. Cardinality(Lost') <= Cardinality(Lost)
      BY <2>2, <2>5, FS_Subset
    <2> QED
      BY <1>0, <1>1, <1>2, <1>7, <2>2, <2>6 DEF PagesInv, SamePage
  <1> QED
    BY <1>0, <1>6, <1>7

LEMMA PagesReadItems ==
  ASSUME SizesAreNumbers, ListingTypeOK, ReaderOK, ListingTypeOK', ReaderOK', PagesInv, Listing!ReadItems
  PROVE  PagesInv'
  <1>0. /\ RowsKept /\ UNCHANGED <<before, left, late>> /\ SamePage
        /\ reader.pc = "query" /\ "items" \in reader.todo
        /\ reader'.pc = "query" /\ reader'.owned = reader.owned /\ reader'.total = reader.total
        /\ reader'.todo = reader.todo \ {"items"} /\ reader'.seen = reader.seen \cup Got
        /\ left \in Nat /\ late \in Nat /\ reader.total \in Nat /\ reader.page \in Nat \ {0}
    BY ItemsFields DEF ListingTypeOK, Reader
  <1>1. SUFFICES ASSUME reader.view # "dashboard" PROVE PagesInv'
    BY <1>0 DEF PagesInv, SamePage
  <1> DEFINE W == Listing!Where
             P == reader.page * Limit
             O == (reader.page - 1) * Limit
  <1>2. P \in Nat /\ O \in Nat
    BY <1>0 DEF SizesAreNumbers
  <1>3. Past = O /\ Past' = P
    BY <1>0 DEF Past, SamePage
  <1>4. Got = {i \in W : Rank(W, i) \in O + 1..P}
    BY <1>1, PlaceIsRank DEF Got, Listing!Page, Listing!Cut
  <1>5. W' = W
    BY <1>0, WhereSame DEF SamePage
  <1>6. \A i : Matches(i)' <=> Matches(i)
    BY <1>0, RowsSame
  <1>7. /\ IsFiniteSet(W) /\ W \subseteq Nat /\ Cardinality(W) \in Nat /\ W \subseteq 1..Len(items)
        /\ Len(items) \in Nat
    BY WhereFinite
  <1>8. /\ IsFiniteSet(Lost) /\ Cardinality(Lost) \in Nat /\ IsFiniteSet(Lost') /\ Cardinality(Lost') \in Nat
        /\ IsFiniteSet(Unseen') /\ Cardinality(Unseen') \in Nat
    BY UnseenFinite, UnseenFiniteNext
  <1> HIDE DEF P, O, W
  <1>9. \A i \in Unseen' : i \in Unseen /\ i \in before /\ i \notin Got
    BY <1>0 DEF Unseen
  <1>10. ASSUME NEW i \in Lost' PROVE i \in Lost
    <2>1. i \in Unseen /\ i \in before /\ i \notin Got
      BY <1>9 DEF Lost
    <2>2. CASE ~Matches(i)
      BY <2>1, <2>2 DEF Lost
    <2>3. CASE i \in W /\ Rank(W, i) <= P
      <3>1. Rank(W, i) \in Nat
        BY <1>7, RankType
      <3>2. Rank(W, i) <= O
        BY <1>2, <1>4, <2>1, <2>3, <3>1
      <3> QED
        BY <1>3, <2>1, <2>3, <3>2 DEF Lost, W
    <2>4. ~Matches(i)' \/ (i \in W' /\ Rank(W', i) <= Past')
      BY DEF Lost, W
    <2> QED
      BY <1>3, <1>5, <1>6, <2>2, <2>3, <2>4
  <1>11. Cardinality(Lost') <= Cardinality(Lost)
    <2>1. Lost' \subseteq Lost
      BY <1>10
    <2> QED
      BY <1>8, <2>1, FS_Subset
  <1>12. Cardinality(Lost) <= left
    BY <1>0, <1>1 DEF PagesInv
  <1>13. ASSUME reader.todo \ {"items"} = {}, P >= reader.total
         PROVE  Cardinality(Unseen') <= left + late
    <2> DEFINE Top == {i \in W : Rank(W, i) <= P}
    <2>1. Cardinality(W) <= reader.total + late
      BY <1>0, <1>1, <1>13 DEF PagesInv, W
    <2>2. Unseen' \subseteq Lost' \cup (W \ Top)
      <3> SUFFICES ASSUME NEW i \in Unseen', i \notin Lost' PROVE i \in W \ Top
        OBVIOUS
      <3>1. i \in before
        BY <1>9
      <3>2. Matches(i)' /\ ~(i \in W' /\ Rank(W', i) <= Past')
        BY DEF Lost, W
      <3>3. i \in W
        BY <1>0, <1>6, <3>1, <3>2, UnseenInWhere DEF W
      <3> QED
        BY <1>3, <1>5, <3>2, <3>3
    <2>3. IsFiniteSet(Top) /\ Cardinality(Top) \in Nat /\ IsFiniteSet(W \ Top) /\ Cardinality(W \ Top) \in Nat
      BY <1>7, FS_Subset, FS_CardinalityType
    <2>4. Top = W \/ Cardinality(Top) >= P
      <3>1. \A k \in W : k <= Len(items)
        BY <1>7
      <3> QED
        BY <1>2, <1>7, <3>1, TopRanks
    <2>5. Cardinality(W \ Top) = Cardinality(W) - Cardinality(Top)
      <3>1. W \cap Top = Top
        OBVIOUS
      <3> HIDE DEF Top
      <3> QED
        BY <1>7, <3>1, FS_Difference
    <2>6. Cardinality(W \ Top) <= late
      <3>1. CASE Top = W
        <4> HIDE DEF Top
        <4>1. Cardinality(W \ Top) = 0
          BY <2>3, <2>5, <3>1
        <4> QED
          BY <1>0, <4>1
      <3>2. CASE Cardinality(Top) >= P
        <4> HIDE DEF Top
        <4> QED
          BY <1>0, <1>2, <1>7, <1>13, <2>1, <2>3, <2>5, <3>2
      <3> QED
        BY <2>4, <3>1, <3>2
    <2> HIDE DEF Top
    <2>7. /\ IsFiniteSet(Lost' \cup (W \ Top))
          /\ Cardinality(Lost' \cup (W \ Top)) <= Cardinality(Lost') + Cardinality(W \ Top)
      <3>1. /\ IsFiniteSet(Lost' \cup (W \ Top)) /\ IsFiniteSet(Lost' \cap (W \ Top))
            /\ Cardinality(Lost' \cup (W \ Top)) =
                 Cardinality(Lost') + Cardinality(W \ Top) - Cardinality(Lost' \cap (W \ Top))
        BY <1>8, <2>3, FS_Union, FS_Intersection
      <3>2. Cardinality(Lost' \cap (W \ Top)) \in Nat
        BY <3>1, FS_CardinalityType
      <3> QED
        BY <1>8, <2>3, <3>1, <3>2
    <2>8. Cardinality(Unseen') <= Cardinality(Lost' \cup (W \ Top))
      BY <2>2, <2>7, FS_Subset
    <2>9. Cardinality(Lost' \cup (W \ Top)) \in Nat
      BY <2>7, FS_CardinalityType
    <2> QED
      BY <1>0, <1>8, <1>11, <1>12, <2>3, <2>6, <2>7, <2>8, <2>9
  <1>14. reader'.page * Limit = P /\ reader'.view = reader.view
    BY <1>0 DEF P, SamePage
  <1>15. Cardinality(Lost') <= left'
    BY <1>0, <1>8, <1>11, <1>12
  <1> QED
    BY <1>0, <1>13, <1>14, <1>15 DEF PagesInv

LEMMA PagesReadTotal ==
  ASSUME SizesAreNumbers, ListingTypeOK, ReaderOK, ListingTypeOK', ReaderOK', PagesInv, Listing!ReadTotal
  PROVE  PagesInv'
  <1>0. /\ RowsKept /\ UNCHANGED <<before, left>> /\ SamePage /\ late' = 0
        /\ reader.pc = "query" /\ reader'.pc = "query" /\ reader'.owned = reader.owned
        /\ reader'.todo = reader.todo \ {"total"} /\ reader'.seen = reader.seen
        /\ reader'.total = Cardinality(Listing!Where) /\ left \in Nat
        /\ reader.page \in Nat \ {0}
    BY TotalFields DEF ListingTypeOK, Reader
  <1>1. SUFFICES ASSUME reader.view # "dashboard" PROVE PagesInv'
    BY <1>0 DEF PagesInv, SamePage
  <1>2. Unseen' = Unseen /\ Past' = Past
    BY <1>0 DEF Unseen, Past, SamePage
  <1>3. Listing!Where' = Listing!Where
    BY <1>0, WhereSame DEF SamePage
  <1>4. \A i : Matches(i)' <=> Matches(i)
    BY <1>0, RowsSame
  <1>5. Lost' = Lost
    BY <1>2, <1>3, <1>4 DEF Lost
  <1>6. Cardinality(Lost) <= left
    BY <1>0, <1>1 DEF PagesInv
  <1>7. /\ IsFiniteSet(Listing!Where) /\ Cardinality(Listing!Where) \in Nat
        /\ Cardinality(Lost) \in Nat /\ Cardinality(Unseen) \in Nat /\ Past \in Nat
    BY WhereFinite, UnseenFinite, PastType
  <1>8. ASSUME reader'.todo = {}, reader'.page * Limit >= reader'.total
        PROVE  Cardinality(Unseen') <= left' + late'
    <2>1. Past >= Cardinality(Listing!Where)
      BY <1>0, <1>2, <1>8 DEF Past
    <2>2. ASSUME NEW i \in Unseen PROVE i \in Lost
      <3>1. i \in before
        BY DEF Unseen
      <3>2. CASE Matches(i)
        <4>1. i \in Listing!Where
          BY <1>0, <3>1, <3>2, UnseenInWhere
        <4>2. Rank(Listing!Where, i) <= Cardinality(Listing!Where) /\ Rank(Listing!Where, i) \in Nat
          BY <1>7, RankType
        <4>3. Rank(Listing!Where, i) <= Past
          BY <1>7, <2>1, <4>2
        <4> QED
          BY <4>1, <4>3 DEF Lost
      <3> QED
        BY <3>2 DEF Lost
    <2>3. Unseen = Lost
      BY <2>2 DEF Lost
    <2> QED
      BY <1>0, <1>2, <1>6, <1>7, <2>3
  <1> QED
    BY <1>0, <1>3, <1>5, <1>6, <1>7, <1>8 DEF PagesInv

LEMMA PagesEnd ==
  ASSUME SizesAreNumbers, ListingTypeOK, ReaderOK, ListingTypeOK', ReaderOK', PagesInv, Listing!EndPage
  PROVE  PagesInv'
  <1>0. /\ RowsKept /\ UNCHANGED <<before, left, late>>
        /\ reader.pc = "query" /\ reader.todo = {}
        /\ reader'.view = reader.view /\ reader'.user = reader.user
        /\ reader'.filter = reader.filter /\ reader'.owned = reader.owned
        /\ reader'.seen = reader.seen /\ reader'.total = reader.total
        /\ \/ /\ reader.view = "dashboard" \/ reader.page * Limit >= reader.total
              /\ reader'.pc = "done" /\ reader'.page = reader.page /\ reader'.todo = {}
           \/ /\ reader.view # "dashboard"
              /\ reader'.pc = Listing!Request(reader.view, reader.user)
              /\ reader'.page = reader.page + 1 /\ reader'.todo = Listing!Queries(reader.view)
    BY EndPageFields
  <1>1. SUFFICES ASSUME reader.view # "dashboard" PROVE PagesInv'
    BY <1>0 DEF PagesInv
  <1>2. Unseen' = Unseen
    BY <1>0 DEF Unseen
  <1>3. CASE reader.page * Limit >= reader.total /\ reader'.pc = "done" /\ reader'.todo = {}
    <2>1. Cardinality(Unseen) <= left + late
      BY <1>0, <1>1, <1>3 DEF PagesInv
    <2> QED
      BY <1>0, <1>2, <1>3, <2>1 DEF PagesInv
  <1>4. CASE /\ reader'.pc = Listing!Request(reader.view, reader.user)
             /\ reader'.page = reader.page + 1 /\ reader'.todo = Listing!Queries(reader.view)
    <2>1. reader'.pc \in {"owned", "query"} /\ "total" \in reader'.todo /\ "items" \in reader'.todo
      BY <1>4 DEF Listing!Request, Listing!Queries
    <2>2. reader'.page - 1 = reader.page
      BY <1>4 DEF ListingTypeOK, Reader
    <2>3. Past' = Past
      BY <1>0, <2>1, <2>2 DEF Past
    <2>4. Listing!Where' = Listing!Where
      BY <1>0, WhereSame
    <2>5. \A i : Matches(i)' <=> Matches(i)
      BY <1>0, RowsSame
    <2>6. Lost' = Lost
      BY <1>2, <2>3, <2>4, <2>5 DEF Lost
    <2>7. Cardinality(Lost) <= left
      BY <1>0, <1>1 DEF PagesInv
    <2> QED
      BY <1>0, <2>1, <2>6, <2>7 DEF PagesInv
  <1> QED
    BY <1>0, <1>1, <1>3, <1>4

LEMMA PagesNext ==
  ASSUME SizesAreNumbers, ListingTypeOK, ReaderOK, PagesInv, [Listing!Next]_(Listing!vars)
  PROVE  PagesInv'
  <1>0. ListingTypeOK' /\ ReaderOK'
    BY ListingTypeNext
  <1>1. CASE Listing!ReadFailed
    <2>1. reader.view = "dashboard" /\ reader'.view = reader.view
      BY <1>1, FailedFields DEF ReaderOK, Listing!Queries, SamePage
    <2> QED
      BY <2>1 DEF PagesInv
  <1>2. CASE Listing!EndReader
    <2>1. reader' = Listing!Idle /\ Listing!Idle.pc = "idle"
      BY <1>2 DEF Listing!EndReader, Listing!Idle
    <2> QED
      BY <2>1 DEF PagesInv
  <1>3. CASE UNCHANGED Listing!vars
    <2>1. UNCHANGED <<items, reader, before, left, late>>
      BY <1>3 DEF Listing!vars
    <2>2. Listing!Where' = Listing!Where
      BY <2>1 DEF Listing!Where, Listing!Indexes, Listing!InScope, Listing!CanSee
    <2>3. Unseen' = Unseen /\ Lost' = Lost
      BY <2>1, <2>2 DEF Lost, Unseen, Past, Matches
    <2> QED
      BY <2>1, <2>2, <2>3 DEF PagesInv
  <1> QED
    BY <1>0, <1>1, <1>2, <1>3, PagesBegin, PagesReadOwned, PagesReadItems, PagesReadTotal, PagesEnd,
       PagesWrites DEF Listing!Next

\* A reader of all pages misses no more than left its filter, or came between the two
\* queries of its last page (sync-runs.service.ts listAll, webhooks.service.ts
\* listEvents), however many items, users and pages there are.
LEMMA PagesComplete ==
  ASSUME SizesAreNumbers
  PROVE  Listing!Spec => []Listing!MissedCostLeft
  <1>1. Listing!Init => ListingTypeOK /\ ReaderOK /\ PagesInv
    BY ListingInit DEF PagesInv
  <1>2. ListingTypeOK /\ ReaderOK /\ PagesInv /\ [Listing!Next]_(Listing!vars)
          => ListingTypeOK' /\ ReaderOK' /\ PagesInv'
    BY ListingTypeNext, PagesNext
  <1>3. PagesInv => Listing!MissedCostLeft
    BY ListingCardinality DEF PagesInv, Listing!MissedCostLeft, Unseen
  <1> QED
    BY <1>1, <1>2, <1>3, PTL DEF Listing!Spec

(* The dashboard. *)

Visible == {i \in 1..Len(items) : Listing!CanSee(reader.user, i)}

\* What each query has answered, whatever its turn.
DashboardInv ==
  reader.view = "dashboard" =>
    /\ "total" \notin reader.todo =>
         Cardinality(before) <= reader.total /\ reader.total <= Cardinality(Visible)
    /\ "items" \notin reader.todo =>
         Cardinality(reader.seen) >= Latest \/ Cardinality(reader.seen) >= Cardinality(before)
    /\ reader.pc = "done" => reader.todo = {}

LEMMA VisibleFinite ==
  ASSUME ListingTypeOK
  PROVE  /\ IsFiniteSet(Visible) /\ Cardinality(Visible) \in Nat
         /\ IsFiniteSet(before) /\ Cardinality(before) \in Nat
         /\ IsFiniteSet(reader.seen) /\ Cardinality(reader.seen) \in Nat
  <1>1. /\ Visible \subseteq 1..Len(items) /\ before \subseteq 1..Len(items)
        /\ reader.seen \subseteq 1..Len(items) /\ Len(items) \in Nat
    BY DEF Visible, ListingTypeOK
  <1>2. IsFiniteSet(1..Len(items))
    BY <1>1, FS_Interval
  <1> QED
    BY <1>1, <1>2, FS_Subset, FS_CardinalityType

LEMMA VisibleFiniteNext ==
  ASSUME ListingTypeOK'
  PROVE  /\ IsFiniteSet(Visible') /\ Cardinality(Visible') \in Nat
         /\ IsFiniteSet(reader'.seen) /\ Cardinality(reader'.seen) \in Nat
  <1>0. Visible' \subseteq 1..Len(items')
    BY DEF Visible
  <1>1. Visible' \subseteq 1..Len(items') /\ reader'.seen \subseteq 1..Len(items') /\ Len(items') \in Nat
    BY <1>0 DEF ListingTypeOK
  <1>2. IsFiniteSet(1..Len(items'))
    BY <1>1, FS_Interval
  <1> QED
    BY <1>1, <1>2, FS_Subset, FS_CardinalityType

\* A query of the dashboard sees all that the user could see when it began, and
\* nothing that the user cannot see.
LEMMA DashboardScope ==
  ASSUME ListingTypeOK, ReaderOK, reader.view = "dashboard", reader.pc = "query"
  PROVE  before \subseteq Listing!Where /\ Listing!Where \subseteq Visible
  <1>1. \A i : Matches(i)
    BY DEF ReaderOK, Matches
  <1>2. before \subseteq Listing!Where
    BY <1>1, UnseenInWhere
  <1>3. ASSUME NEW i \in Listing!Where PROVE i \in Visible
    <2>1. i \in 1..Len(items) /\ Listing!InScope(i)
      BY <1>3, MembersOfWhere
    <2>2. Listing!CanSee(reader.user, i)
      BY <2>1 DEF Listing!InScope, Listing!CanSee, ReaderOK
    <2> QED
      BY <2>1, <2>2 DEF Visible
  <1> QED
    BY <1>2, <1>3

\* A step that answers none of the two queries.
LEMMA DashboardKept ==
  ASSUME ListingTypeOK, ListingTypeOK', DashboardInv, before' = before,
         reader'.view = reader.view, Visible \subseteq Visible',
         reader'.total = reader.total, reader'.seen = reader.seen,
         "total" \in reader'.todo <=> "total" \in reader.todo,
         "items" \in reader'.todo <=> "items" \in reader.todo,
         reader.view = "dashboard" /\ reader'.pc = "done" => reader'.todo = {}
  PROVE  DashboardInv'
  <1>1. Cardinality(Visible) <= Cardinality(Visible')
    BY VisibleFiniteNext, FS_Subset
  <1>2. Cardinality(Visible) \in Nat /\ Cardinality(Visible') \in Nat /\ reader.total \in Nat
    BY VisibleFinite, VisibleFiniteNext DEF ListingTypeOK, Reader
  <1>3. reader.total <= Cardinality(Visible) => reader.total <= Cardinality(Visible')
    BY <1>1, <1>2
  <1> QED
    BY <1>3 DEF DashboardInv

LEMMA DashboardReadItems ==
  ASSUME SizesAreNumbers, ListingTypeOK, ReaderOK, ListingTypeOK', DashboardInv, Listing!ReadItems
  PROVE  DashboardInv'
  <1>0. /\ RowsKept /\ UNCHANGED <<before, left, late>> /\ SamePage
        /\ reader.pc = "query" /\ reader'.pc = "query" /\ reader'.total = reader.total
        /\ reader'.todo = reader.todo \ {"items"} /\ reader'.seen = reader.seen \cup Got
    BY ItemsFields
  <1>1. SUFFICES ASSUME reader.view = "dashboard" PROVE DashboardInv'
    BY <1>0 DEF DashboardInv, SamePage
  <1> DEFINE W == Listing!Where
             Top == {i \in W : Rank(W, i) <= Latest}
  <1>2. /\ IsFiniteSet(W) /\ W \subseteq Nat /\ W \subseteq 1..Len(items)
        /\ Len(items) \in Nat /\ Cardinality(W) \in Nat
    BY WhereFinite
  <1>3. Got = Top
    <2> HIDE DEF W
    <2>1. \A i \in W : Rank(W, i) \in Nat /\ Rank(W, i) >= 1
      BY <1>2, RankType
    <2>2. Got = {i \in W : Rank(W, i) \in 1..Latest}
      BY <1>1, PlaceIsRank DEF Got, Listing!Cut, W
    <2> QED
      BY <2>1, <2>2 DEF SizesAreNumbers
  <1>4. before \subseteq W
    BY <1>0, <1>1, DashboardScope
  <1>5. Top = W \/ Cardinality(Top) >= Latest
    <2> HIDE DEF W
    <2>1. \A k \in W : k <= Len(items)
      BY <1>2
    <2> QED
      BY <1>2, <2>1, TopRanks DEF SizesAreNumbers
  <1>6. Cardinality(Top) <= Cardinality(reader'.seen)
    BY <1>0, <1>3, VisibleFiniteNext, FS_Subset
  <1>7. IsFiniteSet(Top) /\ Cardinality(Top) \in Nat
    BY <1>2, FS_Subset, FS_CardinalityType
  <1>8. Cardinality(before) <= Cardinality(W)
    BY <1>2, <1>4, FS_Subset
  <1> HIDE DEF Top, W
  <1>9. Cardinality(reader'.seen) >= Latest \/ Cardinality(reader'.seen) >= Cardinality(before)
    BY <1>2, <1>5, <1>6, <1>7, <1>8, VisibleFinite, VisibleFiniteNext DEF SizesAreNumbers
  <1>10. Visible' = Visible
    BY <1>0 DEF Visible, RowsKept, SamePage, Listing!CanSee
  <1> QED
    BY <1>0, <1>9, <1>10 DEF DashboardInv, SamePage

LEMMA DashboardReadTotal ==
  ASSUME ListingTypeOK, ReaderOK, ListingTypeOK', DashboardInv, Listing!ReadTotal
  PROVE  DashboardInv'
  <1>0. /\ RowsKept /\ UNCHANGED <<before, left>> /\ SamePage
        /\ reader.pc = "query" /\ reader'.pc = "query" /\ reader'.seen = reader.seen
        /\ reader'.todo = reader.todo \ {"total"}
        /\ reader'.total = Cardinality(Listing!Where)
    BY TotalFields
  <1>1. SUFFICES ASSUME reader.view = "dashboard" PROVE DashboardInv'
    BY <1>0 DEF DashboardInv, SamePage
  <1>2. Visible' = Visible
    BY <1>0 DEF Visible, RowsKept, SamePage, Listing!CanSee
  <1>3. Cardinality(before) <= Cardinality(Listing!Where)
        /\ Cardinality(Listing!Where) <= Cardinality(Visible)
    BY <1>0, <1>1, DashboardScope, WhereFinite, VisibleFinite, FS_Subset
  <1> QED
    BY <1>0, <1>2, <1>3 DEF DashboardInv, SamePage

LEMMA DashboardNext ==
  ASSUME SizesAreNumbers, ListingTypeOK, ReaderOK, DashboardInv, [Listing!Next]_(Listing!vars)
  PROVE  DashboardInv'
  <1>0. ListingTypeOK' /\ ReaderOK'
    BY ListingTypeNext
  <1>1. CASE Listing!CreateContainer \/ Listing!CreateItem \/ Listing!ChangeStatus
    <2>1. Writes
      BY <1>1, Writers
    <2>2. reader' = reader /\ before' = before
      BY <2>1 DEF Writes
    <2>3. \A u, i : i \in 1..Len(items) =>
            i \in 1..Len(items') /\ (Listing!CanSee(u, i)' <=> Listing!CanSee(u, i))
      BY <2>1, WritesKeep
    <2>4. ASSUME NEW i \in Visible PROVE i \in Visible'
      BY <2>2, <2>3, <2>4 DEF Visible, Listing!CanSee
    <2> QED
      BY <1>0, <2>2, <2>4, DashboardKept DEF DashboardInv
  <1>2. CASE Listing!Begin
    <2>1. "total" \in reader'.todo /\ "items" \in reader'.todo /\ reader'.pc # "done"
      BY <1>2, BeginFields DEF Listing!Queries, Listing!Request
    <2> QED
      BY <2>1 DEF DashboardInv
  <1>3. CASE Listing!ReadOwned
    <2>1. Visible' = Visible
      BY <1>3, OwnedFields DEF Visible, RowsKept, SamePage, Listing!CanSee
    <2> QED
      BY <1>0, <1>3, <2>1, OwnedFields, DashboardKept DEF SamePage
  <1>4. CASE Listing!ReadFailed
    <2>1. Visible' = Visible
      BY <1>4, FailedFields DEF Visible, RowsKept, SamePage, Listing!CanSee
    <2> QED
      BY <1>0, <1>4, <2>1, FailedFields, DashboardKept DEF SamePage
  <1>5. CASE Listing!EndPage
    <2>1. Visible' = Visible
      BY <1>5, EndPageFields DEF Visible, RowsKept, Listing!CanSee
    <2>2. CASE reader.view = "dashboard"
      BY <1>0, <1>5, <2>1, <2>2, EndPageFields, DashboardKept
    <2>3. CASE reader.view # "dashboard"
      BY <1>5, <2>3, EndPageFields DEF DashboardInv
    <2> QED
      BY <2>2, <2>3
  <1>6. CASE Listing!EndReader
    <2>1. reader' = Listing!Idle /\ Listing!Idle.view = "runs"
      BY <1>6 DEF Listing!EndReader, Listing!Idle
    <2> QED
      BY <2>1 DEF DashboardInv
  <1>7. CASE UNCHANGED Listing!vars
    <2>1. UNCHANGED <<items, reader, before>>
      BY <1>7 DEF Listing!vars
    <2> QED
      BY <2>1 DEF DashboardInv, Visible, Listing!CanSee
  <1> QED
    BY <1>0, <1>1, <1>2, <1>3, <1>4, <1>5, <1>6, <1>7, DashboardReadItems, DashboardReadTotal
       DEF Listing!Next

\* The dashboard counts what its user could see at some moment while it was being read,
\* and its list is as long as the counts allow (dashboard.service.ts getSummary).
LEMMA SummaryTimely ==
  ASSUME SizesAreNumbers
  PROVE  Listing!Spec => []Listing!DashboardIsTimely
  <1>1. Listing!Init => ListingTypeOK /\ ReaderOK /\ DashboardInv
    <2> SUFFICES ASSUME Listing!Init PROVE ListingTypeOK /\ ReaderOK /\ DashboardInv
      OBVIOUS
    <2>1. reader.view = "runs"
      BY DEF Listing!Init, Listing!Idle
    <2> QED
      BY <2>1, ListingInit DEF DashboardInv
  <1>2. ListingTypeOK /\ ReaderOK /\ DashboardInv /\ [Listing!Next]_(Listing!vars)
          => ListingTypeOK' /\ ReaderOK' /\ DashboardInv'
    BY ListingTypeNext, DashboardNext
  <1>3. ListingTypeOK /\ DashboardInv => Listing!DashboardIsTimely
    <2> SUFFICES ASSUME ListingTypeOK, DashboardInv, reader.pc = "done", reader.view = "dashboard"
                 PROVE  /\ reader.total >= Cardinality(before)
                        /\ reader.total <= Cardinality(Visible)
                        /\ Cardinality(reader.seen) >= Latest \/ Cardinality(reader.seen) >= Cardinality(before)
      BY ListingCardinality DEF Listing!DashboardIsTimely, Visible, Listing!Indexes
    <2>1. "total" \notin reader.todo /\ "items" \notin reader.todo
      BY DEF DashboardInv
    <2>2. Cardinality(before) \in Nat /\ reader.total \in Nat
      BY VisibleFinite DEF ListingTypeOK, Reader
    <2> QED
      BY <2>1, <2>2 DEF DashboardInv
  <1> QED
    BY <1>1, <1>2, <1>3, PTL DEF Listing!Spec

-------------------------------------------------------------------------------
(***************************************************************************)
(* RowAccess: a behaviour is one of Resources, of Listing or of            *)
(* PipelinesPage, and what holds of theirs holds of it.                    *)
(***************************************************************************)
LEMMA ResourcesBehave == Spec => Resources!Spec \/ [](~(part = "resources"))
  <1>1. Init => ~(part = "resources") \/ Resources!Init
    BY DEF Init
  <1>2. ~(part = "resources") /\ [Next]_vars => (~(part = "resources"))'
    BY DEF Next, PageStep, vars
  <1>3. part = "resources" /\ [Next]_vars => (part = "resources")' /\ [Resources!Next]_(Resources!vars)
    BY DEF Next, PageStep, vars, resourcesVars, Resources!vars
  <1> QED
    BY <1>1, <1>2, <1>3, PTL DEF Spec, Resources!Spec

LEMMA ListingBehaves == Spec => Listing!Spec \/ [](~(part = "listing"))
  <1>1. Init => ~(part = "listing") \/ Listing!Init
    BY DEF Init
  <1>2. ~(part = "listing") /\ [Next]_vars => (~(part = "listing"))'
    BY DEF Next, PageStep, vars
  <1>3. part = "listing" /\ [Next]_vars => (part = "listing")' /\ [Listing!Next]_(Listing!vars)
    BY DEF Next, PageStep, vars, listingVars, Listing!vars
  <1> QED
    BY <1>1, <1>2, <1>3, PTL DEF Spec, Listing!Spec

LEMMA PageBehaves == Spec => Page!Spec \/ [](~(part = "page"))
  <1>1. Init => ~(part = "page") \/ Page!Init
    BY DEF Init
  <1>2. ~(part = "page") /\ [Next]_vars => (~(part = "page"))'
    BY DEF Next, PageStep, vars
  <1>3. part = "page" /\ [Next]_vars => (part = "page")' /\ [Page!Next]_(Page!vars)
    BY DEF Next, PageStep, vars, pageVars, Page!vars, Page!page
  <1> QED
    BY <1>1, <1>2, <1>3, PTL DEF Spec, Page!Spec

\* For any users, rows and handlers: each change of a status that left no audit
\* entry has cost an overlap of two requests or a call that rejected.
THEOREM SilentChangesBounded ==
  ASSUME ColumnsAreDisjoint
  PROVE  Spec => []SilentChangesCostOverlaps
  <1>1. /\ ~(part = "resources") => SilentChangesCostOverlaps
        /\ Resources!SilentChangesCostOverlaps => SilentChangesCostOverlaps
    BY DEF SilentChangesCostOverlaps
  <1> QED
    BY <1>1, StatusChangesLogged, ResourcesBehave, PTL

\* For any users, rows and handlers: a pipeline's source exists and belongs to
\* who chose it, and so does the pipeline, unless that user is privileged.
THEOREM SourceUsable ==
  ASSUME ColumnsAreDisjoint
  PROVE  Spec => []SourceIsUsable
  <1>1. /\ ~(part = "resources") => SourceIsUsable
        /\ Resources!SourceIsUsable => SourceIsUsable
    BY DEF SourceIsUsable
  <1> QED
    BY <1>1, SourcesOwned, ResourcesBehave, PTL

\* For any pipelines and any number of calls: without a load or a save under way the
\* page shows the status of the database, unless a call rejected or the status was
\* written while an older answer with it was under way.
THEOREM StaleRowsWereOutrun ==
  ASSUME NoneIsNeither
  PROVE  Spec => []StaleRowWasOutrun
  <1>1. /\ ~(part = "page") => StaleRowWasOutrun
        /\ Page!StaleRowWasOutrun => StaleRowWasOutrun
    BY DEF StaleRowWasOutrun
  <1> QED
    BY <1>1, RowsFollow, PageBehaves, PTL

\* For any pipelines and any number of calls: the calls under way for one pipeline are
\* at most one more than the calls that have begun or ended for others.
THEOREM RepeatsCostAnother ==
  ASSUME NoneIsNeither
  PROVE  Spec => []RepeatCostsAnother
  <1>1. /\ ~(part = "page") => RepeatCostsAnother
        /\ Page!RepeatCostsAnother => RepeatCostsAnother
    BY DEF RepeatCostsAnother
  <1> QED
    BY <1>1, ButtonsHold, PageBehaves, PTL

\* A reader of all pages misses no more than left its filter, or came between the two
\* queries of its last page (sync-runs.service.ts listAll, webhooks.service.ts
\* listEvents), however many items, users and pages there are.
THEOREM MissedItemsLeft ==
  ASSUME SizesAreNumbers
  PROVE  Spec => []MissedCostLeft
  <1>1. /\ ~(part = "listing") => MissedCostLeft
        /\ Listing!MissedCostLeft => MissedCostLeft
    BY DEF MissedCostLeft
  <1> QED
    BY <1>1, PagesComplete, ListingBehaves, PTL

\* The dashboard counts what its user could see at some moment while it was being read,
\* and its list is as long as the counts allow (dashboard.service.ts getSummary).
THEOREM DashboardsAreTimely ==
  ASSUME SizesAreNumbers
  PROVE  Spec => []DashboardIsTimely
  <1>1. /\ ~(part = "listing") => DashboardIsTimely
        /\ Listing!DashboardIsTimely => DashboardIsTimely
    BY DEF DashboardIsTimely
  <1> QED
    BY <1>1, SummaryTimely, ListingBehaves, PTL
================================================================================
