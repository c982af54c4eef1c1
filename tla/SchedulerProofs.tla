-------------------------- MODULE SchedulerProofs --------------------------
(***************************************************************************)
(* Theorems of Scheduler, for any number of pipelines, pollers and users.  *)
(***************************************************************************)
EXTENDS Scheduler, FiniteSetTheorems, TLAPS

USE DEF runVars

\* The type of a poller's record, with what its row in hand satisfies.
SeenType == UNION {[S -> Rows] : S \in SUBSET Pipelines}
PollerType == [pc : PollSteps, began : Times, due : SUBSET Pipelines,
               seen : SeenType, p : Pipelines \cup {NoPipeline}]
SeenOK(x) ==
  /\ x.pc \in {"create", "enqueue", "reschedule"} => x.p \in DOMAIN x.seen
  /\ x.due \subseteq DOMAIN x.seen
  /\ \A p \in DOMAIN x.seen : x.seen[p].next <= x.began

LEMMA AtRestType == AtRest \in PollerType /\ SeenOK(AtRest)
  <1>1. [p \in {} |-> 0] \in [{} -> Rows]
    OBVIOUS
  <1>2. 0 \in Times
    BY SchedulerAssumption DEF Times
  <1> QED
    BY <1>1, <1>2 DEF AtRest, PollerType, SeenType, SeenOK, PollSteps

LEMMA TypeInit == Init => TypeOK
  <1> SUFFICES ASSUME Init PROVE TypeOK
    OBVIOUS
  <1>1. 0 \in Times
    BY SchedulerAssumption DEF Times
  <1>2. poller \in [Pollers -> PollerType] /\ \A w \in Pollers : SeenOK(poller[w])
    BY AtRestType DEF Init
  <1> QED
    BY <1>1, <1>2, SchedulerAssumption DEF Init, TypeOK, PollerType, SeenType, SeenOK

\* A step that changes at most the record of one poller to a well-typed one.
LEMMA TypePoller ==
  ASSUME TypeOK, NEW w \in Pollers, NEW x \in PollerType, SeenOK(x),
         poller' = [poller EXCEPT ![w] = x]
  PROVE  /\ poller' \in [Pollers -> PollerType]
         /\ \A v \in Pollers : SeenOK(poller'[v])
  BY DEF TypeOK, PollerType, SeenType, SeenOK

\* The same for a record given by its fields.
LEMMA PollerOf ==
  ASSUME TypeOK, NEW w \in Pollers
  PROVE  poller[w] \in PollerType /\ SeenOK(poller[w])
  BY DEF TypeOK, PollerType, SeenType, SeenOK

LEMMA TypePollStep ==
  ASSUME TypeOK, NEW w \in Pollers, PollStep(w) \/ PollFails(w)
  PROVE  /\ poller' \in [Pollers -> PollerType]
         /\ \A v \in Pollers : SeenOK(poller'[v])
  <1> DEFINE x == poller'[w]
  <1>1. poller[w] \in PollerType /\ SeenOK(poller[w])
    BY PollerOf
  <1>2. x \in PollerType /\ SeenOK(x) /\ poller' = [poller EXCEPT ![w] = x]
    <2>1. CASE BeginPoll(w)
      <3>1. x = [AtRest EXCEPT !.pc = "reading", !.began = now]
        BY <2>1 DEF BeginPoll, TypeOK
      <3>2. now \in Times
        BY DEF TypeOK
      <3>3. x.pc = "reading" /\ x.seen = AtRest.seen /\ x.due = {}
        BY <3>1 DEF AtRest
      <3>4. DOMAIN AtRest.seen = {}
        BY DEF AtRest
      <3>5. x \in PollerType
        <4>1. x = [pc |-> "reading", began |-> now, due |-> {}, seen |-> AtRest.seen,
                   p |-> NoPipeline]
          BY <3>1 DEF AtRest
        <4>2. AtRest.seen \in SeenType
          BY AtRestType DEF PollerType
        <4> QED
          BY <4>1, <4>2, <3>2 DEF PollerType, PollSteps
      <3>6. SeenOK(x)
        BY <3>3, <3>4 DEF SeenOK
      <3> QED
        BY <2>1, <3>1, <3>5, <3>6 DEF BeginPoll, TypeOK
    <2>2. CASE ReadDue(w)
      <3> DEFINE due == {p \in Pipelines : IsDue(row[p], poller[w].began)}
      <3>1. x = [poller[w] EXCEPT !.pc = "loop", !.due = due, !.seen = [p \in due |-> row[p]]]
        BY <2>2 DEF ReadDue, TypeOK
      <3>2. [p \in due |-> row[p]] \in [due -> Rows]
        BY DEF TypeOK
      <3>3. x \in PollerType
        <4>1. [p \in due |-> row[p]] \in SeenType
          BY <3>2 DEF SeenType
        <4> HIDE DEF due
        <4>2. due \in SUBSET Pipelines
          BY DEF due
        <4> QED
          BY <1>1, <3>1, <4>1, <4>2 DEF PollerType, PollSteps
      <3>4. /\ x.pc = "loop" /\ x.due = due /\ DOMAIN x.seen = due
            /\ x.began = poller[w].began /\ \A p \in due : x.seen[p] = row[p]
        BY <1>1, <3>1 DEF PollerType
      <3>5. \A p \in due : row[p].next <= poller[w].began
        BY DEF IsDue
      <3>6. SeenOK(x)
        BY <3>4, <3>5 DEF SeenOK
      <3> QED
        BY <2>2, <3>1, <3>3, <3>6 DEF ReadDue, TypeOK
    <2>3. CASE CheckDue(w)
      <3>1. PICK p \in Pipelines : CheckDue(w)!2!(p)
        BY <2>3 DEF CheckDue
      <3> DEFINE step == IF HasActiveRun(p) THEN "loop" ELSE "create"
      <3>2. x = [poller[w] EXCEPT !.due = poller[w].due \ {p}, !.p = p, !.pc = step]
        BY <3>1 DEF TypeOK
      <3>3. p \in poller[w].due
        BY <3>1 DEF IsFirstDue
      <3>4. x \in PollerType
        BY <1>1, <3>2 DEF PollerType, PollSteps
      <3>5. /\ x.seen = poller[w].seen /\ x.began = poller[w].began /\ x.p = p
            /\ x.due = poller[w].due \ {p}
        BY <1>1, <3>2 DEF PollerType
      <3>6. SeenOK(x)
        BY <1>1, <3>3, <3>5 DEF SeenOK
      <3> QED
        BY <3>1, <3>2, <3>4, <3>6 DEF TypeOK
    <2>4. CASE CreateDue(w)
      <3>1. x = [poller[w] EXCEPT !.pc = "enqueue"]
        BY <2>4 DEF CreateDue, TypeOK
      <3> QED
        BY <1>1, <2>4, <3>1 DEF CreateDue, TypeOK, PollerType, SeenOK, PollSteps
    <2>8. CASE EnqueueDue(w)
      <3>1. x = [poller[w] EXCEPT !.pc = "reschedule"]
        BY <2>8 DEF EnqueueDue, TypeOK
      <3> QED
        BY <1>1, <2>8, <3>1 DEF EnqueueDue, TypeOK, PollerType, SeenOK, PollSteps
    <2>5. CASE Reschedule(w)
      <3>1. x = [poller[w] EXCEPT !.pc = "loop"]
        BY <2>5 DEF Reschedule, TypeOK
      <3> QED
        BY <1>1, <2>5, <3>1 DEF Reschedule, TypeOK, PollerType, SeenOK, PollSteps
    <2>6. CASE EndPoll(w)
      BY <2>6, AtRestType DEF EndPoll, TypeOK
    <2>7. CASE PollFails(w)
      BY <2>7, AtRestType DEF PollFails, AfterFailure, TypeOK
    <2> QED
      BY <2>1, <2>2, <2>3, <2>4, <2>5, <2>6, <2>7, <2>8 DEF PollStep
  <1> QED
    BY <1>2, TypePoller

\* Requests and runs do not change pollers; their types, one action at a time.
LEMMA TypeNext == TypeOK /\ [Next]_vars => TypeOK'
  <1> SUFFICES ASSUME TypeOK, [Next]_vars PROVE TypeOK'
    OBVIOUS
  <1> DEFINE Rest == /\ now' \in Times /\ row' \in [Pipelines -> Rows]
                     /\ active' \in [Pipelines -> Nat] /\ others' \in [Pipelines -> Nat]
                     /\ waiting' \in [Pipelines -> Nat] /\ left' \in [Pipelines -> Nat]
                     /\ retried' \in [Pipelines -> 0..MaxRetries]
                     /\ faults' \in 0..MaxFaults /\ requests' \in 0..MaxRequests
                     /\ fired' \in [Pipelines -> [Times -> Nat]]
                     /\ late' \in [Pipelines -> Nat]
             UserType == {NoRequest} \cup [pc : {"check", "create", "enqueue"}, p : Pipelines]
                \cup [pc : {"write"}, p : Pipelines, enabled : BOOLEAN, cron : Crons,
                      next : Times \cup {Never}]
  <1> USE SchedulerAssumption
  <1>1. CASE Tick
    <2>1. now' \in Times
      BY <1>1 DEF Tick, TypeOK, Times
    <2>2. UNCHANGED <<row, active, others, left, waiting, retried, poller, user,
                      faults, requests, fired, late>>
      BY <1>1 DEF Tick, runVars
    <2> QED
      BY <2>1, <2>2 DEF TypeOK
  <1>2. ASSUME NEW w \in Pollers, PollStep(w) \/ PollFails(w) PROVE TypeOK'
    <2>1. poller' \in [Pollers -> PollerType] /\ \A v \in Pollers : SeenOK(poller'[v])
      BY <1>2, TypePollStep
    <2>2. Rest /\ user' = user
      <3>1. poller[w] \in PollerType /\ SeenOK(poller[w])
        BY PollerOf
      <3>2. CASE CreateDue(w)
        <4>1. poller[w].p \in DOMAIN poller[w].seen /\ poller[w].seen \in SeenType
          BY <3>1, <3>2 DEF CreateDue, PollerType, SeenOK
        <4>2. PICK S \in SUBSET Pipelines : poller[w].seen \in [S -> Rows]
          BY <4>1 DEF SeenType
        <4> DEFINE p == poller[w].p
                   d == poller[w].seen[p].next
        <4>3. p \in Pipelines /\ poller[w].seen[p] \in Rows
          BY <4>1, <4>2
        <4>4. d <= poller[w].began /\ poller[w].began \in Times
          BY <3>1, <4>1 DEF PollerType, SeenOK
        <4>5. d \in Times
          BY <4>3, <4>4 DEF Rows, Times, Never
        <4> QED
          BY <3>2, <4>3, <4>5 DEF CreateDue, TypeOK
      <3>3. CASE Reschedule(w)
        <4> DEFINE q == poller[w].p
        <4>1. PICK n \in Times \cup {Never} : row' = [row EXCEPT ![q].next = n]
          BY <3>3 DEF Reschedule
        <4>2. q \in Pipelines
          BY <3>1, <3>3 DEF Reschedule, SeenOK, PollerType, SeenType
        <4>3. row[q] \in Rows
          BY <4>2 DEF TypeOK
        <4>4. [row[q] EXCEPT !.next = n] \in Rows
          BY <4>3 DEF Rows
        <4>5. row' = [row EXCEPT ![q] = [row[q] EXCEPT !.next = n]]
          BY <4>1
        <4>6. row' \in [Pipelines -> Rows]
          BY <4>2, <4>4, <4>5 DEF TypeOK
        <4> QED
          BY <3>3, <4>6 DEF Reschedule, TypeOK
      <3>4. CASE PollFails(w)
        <4>1. poller[w].pc = "enqueue" => poller[w].p \in Pipelines
          BY <3>1 DEF PollerType, SeenOK, SeenType
        <4>2. left' \in [Pipelines -> Nat]
          BY <3>4, <4>1 DEF PollFails, LeftBy, TypeOK
        <4> QED
          BY <3>4, <4>2 DEF PollFails, TypeOK
      <3>6. CASE EnqueueDue(w)
        <4>1. poller[w].p \in Pipelines
          BY <3>1, <3>6 DEF EnqueueDue, PollerType, SeenOK, SeenType
        <4> QED
          BY <3>6, <4>1 DEF EnqueueDue, TypeOK
      <3>5. CASE BeginPoll(w) \/ ReadDue(w) \/ CheckDue(w) \/ EndPoll(w)
        <4>1. UNCHANGED <<now, row, runVars, user, faults, requests, fired, late>>
          BY <3>5 DEF BeginPoll, ReadDue, CheckDue, EndPoll
        <4> QED
          BY <4>1 DEF TypeOK
      <3> QED
        BY <1>2, <3>2, <3>3, <3>4, <3>5, <3>6 DEF PollStep
    <2> QED
      BY <2>1, <2>2 DEF TypeOK, PollerType, SeenType, SeenOK
  <1>3. ASSUME NEW u \in Users,
               UserStep(u) \/ RequestFails(u) \/ \E p \in Pipelines : Request(u, p)
        PROVE  TypeOK'
    <2> DEFINE Goal == Rest /\ poller' = poller /\ user' \in [Users -> UserType]
    <2>1. Goal
      <3>1. CASE WriteSchedule(u)
        <4>1. user[u] \in UserType /\ user[u].pc = "write"
          BY <3>1 DEF WriteSchedule, TypeOK
        <4>2. user[u] \in [pc : {"write"}, p : Pipelines, enabled : BOOLEAN, cron : Crons,
                           next : Times \cup {Never}]
          BY <4>1 DEF NoRequest
        <4> DEFINE r == [status |-> row[user[u].p].status, enabled |-> user[u].enabled,
                         cron |-> user[u].cron, next |-> user[u].next]
        <4>3. r \in Rows /\ user[u].p \in Pipelines
          BY <4>2 DEF TypeOK, Rows
        <4>4. /\ row' = [row EXCEPT ![user[u].p] = r] /\ late' = LateAfter(user[u].p, r)
              /\ user' = [user EXCEPT ![u] = NoRequest]
              /\ UNCHANGED <<now, runVars, poller, faults, requests, fired>>
          BY <3>1 DEF WriteSchedule
        <4> QED
          BY <4>3, <4>4 DEF TypeOK, LateAfter
      <3>2. CASE CheckTrigger(u)
        <4>1. user[u] \in [pc : {"check", "create", "enqueue"}, p : Pipelines]
          BY <3>2 DEF CheckTrigger, TypeOK, NoRequest
        <4> QED
          BY <3>2, <4>1 DEF CheckTrigger, TypeOK
      <3>3. CASE CreateTriggered(u)
        <4>1. user[u] \in [pc : {"check", "create", "enqueue"}, p : Pipelines]
          BY <3>3 DEF CreateTriggered, TypeOK, NoRequest
        <4> QED
          BY <3>3, <4>1 DEF CreateTriggered, TypeOK
      <3>6. CASE EnqueueTriggered(u)
        <4>1. user[u] \in [pc : {"check", "create", "enqueue"}, p : Pipelines]
          BY <3>6 DEF EnqueueTriggered, TypeOK, NoRequest
        <4> QED
          BY <3>6, <4>1 DEF EnqueueTriggered, TypeOK
      <3>7. CASE RequestFails(u)
        <4>1. user[u].pc = "enqueue" => user[u].p \in Pipelines
          <5>1. user[u] \in UserType
            BY DEF TypeOK
          <5> QED
            BY <5>1 DEF NoRequest
        <4>2. left' \in [Pipelines -> Nat]
          BY <3>7, <4>1 DEF RequestFails, LeftBy, TypeOK
        <4> QED
          BY <3>7, <4>2 DEF RequestFails, TypeOK
      <3>4. ASSUME NEW p \in Pipelines, BeginTrigger(u, p) PROVE Goal
        BY <3>4 DEF BeginTrigger, TypeOK
      <3>5. ASSUME NEW p \in Pipelines, NEW e \in BOOLEAN, NEW c \in Crons,
                   BeginScheduleUpdate(u, p, e, c)
            PROVE  Goal
        <4>1. row[p].cron \in Crons
          BY DEF TypeOK, Rows
        <4> QED
          BY <3>5, <4>1 DEF BeginScheduleUpdate, TypeOK
      <3> QED
        BY <1>3, <3>1, <3>2, <3>3, <3>4, <3>5, <3>6, <3>7 DEF UserStep, Request
    <2> QED
      BY <2>1 DEF TypeOK
  <1>4. ASSUME NEW p \in Pipelines, NEW s \in PipelineStatus, SetStatus(p, s) PROVE TypeOK'
    <2> DEFINE r == [row[p] EXCEPT !.status = s]
    <2>1. r \in Rows
      <3>1. row[p] \in Rows
        BY DEF TypeOK
      <3> QED
        BY <3>1 DEF Rows
    <2>2. late' \in [Pipelines -> Nat] /\ row' \in [Pipelines -> Rows] /\ requests' \in 0..MaxRequests
      BY <1>4, <2>1 DEF SetStatus, TypeOK, LateAfter
    <2> QED
      BY <1>4, <2>2 DEF SetStatus, TypeOK
  <1>5. ASSUME NEW p \in Pipelines, RunEnds(p) \/ RunFailsForNow(p) \/ RunRetries(p)
                                    \/ OtherRunBegins(p) \/ OtherRunEnds(p) \/ RunIsLeft(p)
        PROVE  TypeOK'
    <2>1. Rest /\ UNCHANGED <<poller, user>>
      <3>1. active[p] \in Nat /\ others[p] \in Nat /\ waiting[p] \in Nat
            /\ retried[p] \in 0..MaxRetries /\ left[p] \in Nat
        BY DEF TypeOK
      <3>2. CASE RunEnds(p)
        BY <3>1, <3>2 DEF RunEnds, TypeOK
      <3>3. CASE RunFailsForNow(p)
        BY <3>1, <3>3 DEF RunFailsForNow, TypeOK
      <3>4. CASE RunRetries(p)
        BY <3>1, <3>4 DEF RunRetries, TypeOK
      <3>5. CASE OtherRunBegins(p)
        BY <3>1, <3>5 DEF OtherRunBegins, TypeOK
      <3>6. CASE OtherRunEnds(p)
        BY <3>1, <3>6 DEF OtherRunEnds, TypeOK
      <3>7. CASE RunIsLeft(p)
        BY <3>1, <3>7 DEF RunIsLeft, TypeOK
      <3> QED
        BY <1>5, <3>2, <3>3, <3>4, <3>5, <3>6, <3>7
    <2> QED
      BY <2>1 DEF TypeOK
  <1>6. CASE UNCHANGED vars
    BY <1>6 DEF vars, TypeOK
  <1> QED
    BY <1>1, <1>2, <1>3, <1>4, <1>5, <1>6 DEF Next

\* Type correctness; a due time is at most the start of the cycle that serves it.
THEOREM TypeCorrect == Spec => []TypeOK
  BY TypeInit, TypeNext, PTL DEF Spec

----------------------------------------------------------------------------
(* How far scheduled runs overlap: whoever is between hasActiveRun and the *)
(* job counts as a run to come.                                            *)

Creating == {"create", "enqueue"}
PassedPollers(p) == {w \in Pollers : poller[w].pc \in Creating /\ poller[w].p = p}
PassedUsers(p) == {u \in Users : user[u].pc \in Creating /\ user[u].p = p}
Expected(p) == Cardinality(PassedPollers(p)) + Cardinality(PassedUsers(p))
Callers == Cardinality(Pollers) + Cardinality(Users)

OverlapInv ==
  \A p \in Pipelines : /\ waiting[p] <= retried[p]
                       /\ active[p] + waiting[p] + Expected(p) <= Callers + retried[p]

\* A subset of a finite set, with an element more or less.
LEMMA Counting ==
  ASSUME NEW S, IsFiniteSet(S), NEW T, T \subseteq S
  PROVE  /\ IsFiniteSet(T) /\ Cardinality(T) \in Nat /\ Cardinality(S) \in Nat
         /\ Cardinality(T) <= Cardinality(S)
         /\ \A x \in T : Cardinality(T \ {x}) = Cardinality(T) - 1
         /\ \A R \in SUBSET T : Cardinality(R) \in Nat /\ Cardinality(R) <= Cardinality(T)
  BY FS_Subset, FS_CardinalityType, FS_RemoveElement

LEMMA ExpectedType ==
  ASSUME NEW p \in Pipelines
  PROVE  Expected(p) \in Nat /\ Callers \in Nat /\ Expected(p) <= Callers
  <1>1. PassedPollers(p) \subseteq Pollers /\ PassedUsers(p) \subseteq Users
    BY DEF PassedPollers, PassedUsers
  <1> QED
    BY <1>1, Counting, SchedulerAssumption DEF Expected, Callers

\* A step after which fewer callers have passed the check.
LEMMA ExpectedFewer ==
  ASSUME NEW p \in Pipelines, PassedPollers(p)' \subseteq PassedPollers(p),
         PassedUsers(p)' \subseteq PassedUsers(p)
  PROVE  Expected(p)' \in Nat /\ Expected(p)' <= Expected(p)
  <1>1. PassedPollers(p) \subseteq Pollers /\ PassedUsers(p) \subseteq Users
    BY DEF PassedPollers, PassedUsers
  <1> QED
    BY <1>1, Counting, SchedulerAssumption DEF Expected

\* A caller queues the run: one less to expect.
LEMMA ExpectedCreates ==
  ASSUME NEW p \in Pipelines, NEW x,
         \/ /\ x \in PassedPollers(p) /\ PassedPollers(p)' = PassedPollers(p) \ {x}
            /\ PassedUsers(p)' = PassedUsers(p)
         \/ /\ x \in PassedUsers(p) /\ PassedUsers(p)' = PassedUsers(p) \ {x}
            /\ PassedPollers(p)' = PassedPollers(p)
  PROVE  Expected(p)' = Expected(p) - 1
  <1>1. PassedPollers(p) \subseteq Pollers /\ PassedUsers(p) \subseteq Users
    BY DEF PassedPollers, PassedUsers
  <1> QED
    BY <1>1, Counting, SchedulerAssumption DEF Expected

\* Which steps leave a poller that has not passed the check.
LEMMA PollerPc ==
  ASSUME TypeOK, NEW w \in Pollers,
         BeginPoll(w) \/ ReadDue(w) \/ Reschedule(w) \/ EndPoll(w) \/ PollFails(w)
  PROVE  poller'[w].pc \notin Creating /\ \A v \in Pollers : v # w => poller'[v] = poller[v]
  <1>1. poller \in [Pollers -> PollerType]
    BY DEF TypeOK, PollerType, SeenType
  <1>2. poller[w] \in PollerType
    BY <1>1
  <1>3. CASE BeginPoll(w)
    <2>1. poller' = [poller EXCEPT ![w] = [AtRest EXCEPT !.pc = "reading", !.began = now]]
      BY <1>3 DEF BeginPoll
    <2>2. [AtRest EXCEPT !.pc = "reading", !.began = now].pc = "reading"
      BY DEF AtRest
    <2> QED
      BY <1>1, <2>1, <2>2 DEF Creating
  <1>4. CASE ReadDue(w)
    BY <1>1, <1>2, <1>4 DEF ReadDue, PollerType, Creating
  <1>5. CASE Reschedule(w)
    BY <1>1, <1>2, <1>5 DEF Reschedule, PollerType, Creating
  <1>6. CASE EndPoll(w) \/ PollFails(w)
    BY <1>1, <1>6 DEF EndPoll, PollFails, AfterFailure, AtRest, Creating
  <1> QED
    BY <1>3, <1>4, <1>5, <1>6

LEMMA OverlapNext == TypeOK /\ TypeOK' /\ OverlapInv /\ [Next]_vars => OverlapInv'
  <1> SUFFICES ASSUME TypeOK, TypeOK', OverlapInv, [Next]_vars, NEW p \in Pipelines
               PROVE  (/\ waiting[p] <= retried[p]
                       /\ active[p] + waiting[p] + Expected(p) <= Callers + retried[p])'
    BY DEF OverlapInv
  <1>1. /\ active[p] \in Nat /\ waiting[p] \in Nat /\ retried[p] \in Nat
        /\ active'[p] \in Nat /\ waiting'[p] \in Nat /\ retried'[p] \in Nat
        /\ others[p] \in Nat /\ left[p] \in Nat
    BY SchedulerAssumption DEF TypeOK
  <1>2. /\ waiting[p] <= retried[p]
        /\ active[p] + waiting[p] + Expected(p) <= Callers + retried[p]
    BY DEF OverlapInv
  <1>3. Expected(p) \in Nat /\ Callers \in Nat /\ Expected(p)' \in Nat /\ Expected(p)' <= Callers
        /\ Callers' = Callers
    <2>1. PassedPollers(p)' \subseteq Pollers /\ PassedUsers(p)' \subseteq Users
      BY DEF PassedPollers, PassedUsers
    <2> QED
      BY <2>1, ExpectedType, Counting, SchedulerAssumption DEF Expected, Callers
  \* The steps of which nothing but fewer passed callers is seen here.
  <1>4. ASSUME UNCHANGED <<active, waiting, retried>>,
               PassedPollers(p)' \subseteq PassedPollers(p), PassedUsers(p)' \subseteq PassedUsers(p)
        PROVE  (/\ waiting[p] <= retried[p]
                /\ active[p] + waiting[p] + Expected(p) <= Callers + retried[p])'
    BY <1>1, <1>2, <1>3, <1>4, ExpectedFewer
  <1>5. ASSUME NEW w \in Pollers, PollStep(w) \/ PollFails(w)
        PROVE  (/\ waiting[p] <= retried[p]
                /\ active[p] + waiting[p] + Expected(p) <= Callers + retried[p])'
    <2>1. CASE CheckDue(w) /\ active[p] = 0
      <3>1. UNCHANGED <<active, waiting, retried>>
        BY <2>1 DEF CheckDue
      <3> QED
        BY <1>1, <1>2, <1>3, <2>1, <3>1
    <2>2. CASE CheckDue(w) /\ active[p] # 0
      <3>1. PICK q \in Pipelines : poller' = [poller EXCEPT ![w].due = poller[w].due \ {q},
              ![w].p = q, ![w].pc = IF HasActiveRun(q) THEN "loop" ELSE "create"]
        BY <2>2 DEF CheckDue
      <3>2. HasActiveRun(p)
        BY <1>1, <2>2 DEF HasActiveRun
      <3>3. PassedPollers(p)' \subseteq PassedPollers(p)
        BY <3>1, <3>2 DEF PassedPollers, Creating, TypeOK
      <3> QED
        BY <1>4, <2>2, <3>3 DEF CheckDue, PassedUsers
    <2>3. CASE EnqueueDue(w) /\ poller[w].p = p
      <3>1. PassedPollers(p)' = PassedPollers(p) \ {w} /\ w \in PassedPollers(p)
        BY <2>3 DEF EnqueueDue, PassedPollers, Creating, TypeOK
      <3>2. PassedUsers(p)' = PassedUsers(p)
        BY <2>3 DEF EnqueueDue, PassedUsers
      <3>3. active'[p] = active[p] + 1 /\ UNCHANGED <<waiting, retried>>
        BY <2>3 DEF EnqueueDue, TypeOK
      <3>4. Expected(p)' = Expected(p) - 1
        BY <3>1, <3>2, ExpectedCreates
      <3> QED
        BY <1>1, <1>2, <1>3, <3>3, <3>4
    <2>4. CASE EnqueueDue(w) /\ poller[w].p # p
      <3>1. PassedPollers(p)' \subseteq PassedPollers(p)
        BY <2>4 DEF EnqueueDue, PassedPollers, Creating, TypeOK
      <3>2. PassedUsers(p)' = PassedUsers(p)
        BY <2>4 DEF EnqueueDue, PassedUsers
      <3>3. active'[p] = active[p] /\ UNCHANGED <<waiting, retried>>
        BY <2>4 DEF EnqueueDue, TypeOK
      <3> QED
        BY <1>1, <1>2, <1>3, <3>1, <3>2, <3>3, ExpectedFewer
    <2>6. CASE CreateDue(w)
      <3>1. PassedPollers(p)' = PassedPollers(p)
        BY <2>6 DEF CreateDue, PassedPollers, Creating, TypeOK
      <3> QED
        BY <1>4, <2>6, <3>1 DEF CreateDue, PassedUsers
    <2>5. CASE BeginPoll(w) \/ ReadDue(w) \/ Reschedule(w) \/ EndPoll(w) \/ PollFails(w)
      <3>1. PassedPollers(p)' \subseteq PassedPollers(p)
        <4>1. poller'[w].pc \notin Creating /\ \A v \in Pollers : v # w => poller'[v] = poller[v]
          BY <2>5, PollerPc DEF TypeOK
        <4> QED
          BY <4>1 DEF PassedPollers
      <3> QED
        BY <1>4, <2>5, <3>1
        DEF BeginPoll, ReadDue, Reschedule, EndPoll, PollFails, PassedUsers
    <2> QED
      BY <1>5, <2>1, <2>2, <2>3, <2>4, <2>5, <2>6 DEF PollStep
  <1>6. ASSUME NEW u \in Users, UserStep(u) \/ RequestFails(u) \/ \E q \in Pipelines : Request(u, q)
        PROVE  (/\ waiting[p] <= retried[p]
                /\ active[p] + waiting[p] + Expected(p) <= Callers + retried[p])'
    <2>1. CASE CheckTrigger(u) /\ active[p] = 0
      BY <1>1, <1>2, <1>3, <2>1 DEF CheckTrigger
    <2>2. CASE CheckTrigger(u) /\ active[p] # 0
      <3>1. HasActiveRun(p)
        BY <1>1, <2>2 DEF HasActiveRun
      <3>2. PassedUsers(p)' \subseteq PassedUsers(p)
        BY <2>2, <3>1 DEF CheckTrigger, PassedUsers, Creating, NoRequest, TypeOK
      <3> QED
        BY <1>4, <2>2, <3>2 DEF CheckTrigger, PassedPollers
    <2>3. CASE EnqueueTriggered(u) /\ user[u].p = p
      <3>1. PassedUsers(p)' = PassedUsers(p) \ {u} /\ u \in PassedUsers(p)
        BY <2>3 DEF EnqueueTriggered, PassedUsers, Creating, NoRequest, TypeOK
      <3>2. PassedPollers(p)' = PassedPollers(p)
        BY <2>3 DEF EnqueueTriggered, PassedPollers
      <3>3. active'[p] = active[p] + 1 /\ UNCHANGED <<waiting, retried>>
        BY <2>3 DEF EnqueueTriggered, TypeOK
      <3>4. Expected(p)' = Expected(p) - 1
        BY <3>1, <3>2, ExpectedCreates
      <3> QED
        BY <1>1, <1>2, <1>3, <3>3, <3>4
    <2>4. CASE EnqueueTriggered(u) /\ user[u].p # p
      <3>1. PassedUsers(p)' \subseteq PassedUsers(p)
        BY <2>4 DEF EnqueueTriggered, PassedUsers, Creating, NoRequest, TypeOK
      <3>2. PassedPollers(p)' = PassedPollers(p)
        BY <2>4 DEF EnqueueTriggered, PassedPollers
      <3>3. active'[p] = active[p] /\ UNCHANGED <<waiting, retried>>
        BY <2>4 DEF EnqueueTriggered, TypeOK
      <3> QED
        BY <1>1, <1>2, <1>3, <3>1, <3>2, <3>3, ExpectedFewer
    <2>6. CASE CreateTriggered(u)
      <3>1. PassedUsers(p)' = PassedUsers(p)
        BY <2>6 DEF CreateTriggered, PassedUsers, Creating, NoRequest, TypeOK
      <3> QED
        BY <1>4, <2>6, <3>1 DEF CreateTriggered, PassedPollers
    <2>5. CASE \/ WriteSchedule(u) \/ RequestFails(u)
               \/ \E q \in Pipelines : BeginTrigger(u, q)
               \/ \E q \in Pipelines, e \in BOOLEAN, c \in Crons : BeginScheduleUpdate(u, q, e, c)
      <3>1. PassedUsers(p)' \subseteq PassedUsers(p)
        <4>1. user'[u].pc \notin Creating
          <5>1. CASE WriteSchedule(u) \/ RequestFails(u)
            BY <5>1 DEF WriteSchedule, RequestFails, NoRequest, Creating, TypeOK
          <5>2. CASE \E q \in Pipelines : BeginTrigger(u, q)
            BY <5>2 DEF BeginTrigger, Creating, TypeOK
          <5>3. ASSUME NEW q \in Pipelines, NEW e \in BOOLEAN, NEW c \in Crons,
                       BeginScheduleUpdate(u, q, e, c)
                PROVE  user'[u].pc \notin Creating
            BY <5>3 DEF BeginScheduleUpdate, Creating, TypeOK
          <5> QED
            BY <2>5, <5>1, <5>2, <5>3
        <4>2. \A v \in Users : v # u => user'[v] = user[v]
          BY <2>5 DEF WriteSchedule, RequestFails, BeginTrigger, BeginScheduleUpdate, TypeOK
        <4> QED
          BY <4>1, <4>2 DEF PassedUsers
      <3> QED
        BY <1>4, <2>5, <3>1
        DEF WriteSchedule, RequestFails, BeginTrigger, BeginScheduleUpdate, PassedPollers
    <2> QED
      BY <1>6, <2>1, <2>2, <2>3, <2>4, <2>5, <2>6 DEF UserStep, Request
  <1>7. ASSUME NEW q \in Pipelines, RunEnds(q) \/ RunFailsForNow(q) \/ RunRetries(q) \/ RunIsLeft(q)
        PROVE  (/\ waiting[p] <= retried[p]
                /\ active[p] + waiting[p] + Expected(p) <= Callers + retried[p])'
    <2>1. Expected(p)' = Expected(p)
      BY <1>7 DEF RunEnds, RunFailsForNow, RunRetries, RunIsLeft, Expected, PassedPollers, PassedUsers
    <2>2. CASE RunEnds(q)
      BY <1>1, <1>2, <1>3, <2>1, <2>2 DEF RunEnds, TypeOK
    <2>3. CASE RunFailsForNow(q)
      BY <1>1, <1>2, <1>3, <2>1, <2>3 DEF RunFailsForNow, TypeOK
    <2>4. CASE RunRetries(q)
      BY <1>1, <1>2, <1>3, <2>1, <2>4 DEF RunRetries, TypeOK
    <2>5. CASE RunIsLeft(q)
      BY <1>1, <1>2, <1>3, <2>1, <2>5 DEF RunIsLeft, TypeOK
    <2> QED
      BY <1>7, <2>2, <2>3, <2>4, <2>5
  <1>8. ASSUME \/ Tick \/ UNCHANGED vars
               \/ \E q \in Pipelines : \/ OtherRunBegins(q) \/ OtherRunEnds(q)
                                       \/ \E s \in PipelineStatus : SetStatus(q, s)
        PROVE  (/\ waiting[p] <= retried[p]
                /\ active[p] + waiting[p] + Expected(p) <= Callers + retried[p])'
    <2>1. UNCHANGED <<active, waiting, retried, poller, user>>
      BY <1>8 DEF Tick, vars, OtherRunBegins, OtherRunEnds, SetStatus
    <2> QED
      BY <1>4, <2>1 DEF PassedPollers, PassedUsers
  <1> QED
    BY <1>5, <1>6, <1>7, <1>8 DEF Next

LEMMA OverlapInit == Init => OverlapInv
  <1> SUFFICES ASSUME Init, NEW p \in Pipelines
               PROVE  waiting[p] <= retried[p]
                      /\ active[p] + waiting[p] + Expected(p) <= Callers + retried[p]
    BY DEF OverlapInv
  <1>1. active[p] = 0 /\ waiting[p] = 0 /\ retried[p] = 0
    BY DEF Init
  <1> QED
    BY <1>1, ExpectedType

\* Scheduled runs of one pipeline overlap at most as often as there are pollers,
\* requests and retries.
THEOREM OverlapBounded == Spec => []OverlapIsBounded
  <1>1. TypeOK /\ OverlapInv => OverlapIsBounded
    <2> SUFFICES ASSUME TypeOK, OverlapInv, NEW p \in Pipelines
                 PROVE  active[p] <= Cardinality(Pollers) + Cardinality(Users) + retried[p]
      BY DEF OverlapIsBounded
    <2>1. active[p] \in Nat /\ waiting[p] \in Nat /\ retried[p] \in Nat
      BY SchedulerAssumption DEF TypeOK
    <2> QED
      BY <2>1, ExpectedType DEF OverlapInv, Callers
  <1> QED
    BY <1>1, OverlapInit, OverlapNext, TypeCorrect, PTL DEF Spec

----------------------------------------------------------------------------
(* Stale rows: a poller that still holds the row of a stopped pipeline may *)
(* run it once; nobody reads it again.                                     *)

Holders(p) == {w \in Pollers : \/ p \in poller[w].due
                               \/ poller[w].pc = "create" /\ poller[w].p = p}
LateInv ==
  /\ \A w \in Pollers : poller[w].pc = "create" => poller[w].p \notin poller[w].due
  /\ \A p \in Pipelines :
       /\ Schedulable(row[p]) => late[p] = 0
       /\ ~ Schedulable(row[p]) => late[p] + Cardinality(Holders(p)) <= Cardinality(Pollers)

LateOf(p) == /\ Schedulable(row[p]) => late[p] = 0
             /\ ~ Schedulable(row[p]) => late[p] + Cardinality(Holders(p)) <= Cardinality(Pollers)

LEMMA HoldersCount ==
  ASSUME NEW p \in Pipelines
  PROVE  /\ Cardinality(Holders(p)) \in Nat /\ Cardinality(Holders(p))' \in Nat
         /\ Cardinality(Pollers) \in Nat
         /\ Cardinality(Holders(p)) <= Cardinality(Pollers)
         /\ Cardinality(Holders(p))' <= Cardinality(Pollers)
         /\ Holders(p)' \subseteq Holders(p) => Cardinality(Holders(p))' <= Cardinality(Holders(p))
         /\ \A w \in Holders(p) : Holders(p)' \subseteq Holders(p) \ {w}
              => Cardinality(Holders(p))' <= Cardinality(Holders(p)) - 1
  <1>1. Holders(p) \subseteq Pollers /\ Holders(p)' \subseteq Pollers
    BY DEF Holders
  <1> DEFINE H == Holders(p)
             K == Holders(p)'
  <1>2. Cardinality(H) \in Nat /\ Cardinality(K) \in Nat /\ Cardinality(Pollers) \in Nat
        /\ Cardinality(H) <= Cardinality(Pollers) /\ Cardinality(K) <= Cardinality(Pollers)
    BY <1>1, Counting, SchedulerAssumption
  <1>3. K \subseteq H => Cardinality(K) <= Cardinality(H)
    BY <1>1, Counting, SchedulerAssumption
  <1>4. ASSUME NEW w \in H, K \subseteq H \ {w} PROVE Cardinality(K) <= Cardinality(H) - 1
    <2>1. Cardinality(H \ {w}) = Cardinality(H) - 1
      BY <1>1, Counting, SchedulerAssumption
    <2>2. Cardinality(K) <= Cardinality(H \ {w})
      <3>1. H \ {w} \subseteq Pollers
        BY <1>1
      <3> HIDE DEF H, K
      <3> QED
        BY <1>4, <3>1, Counting, SchedulerAssumption
    <2> QED
      BY <2>1, <2>2
  <1> QED
    BY <1>2, <1>3, <1>4

LEMMA LateNext == TypeOK /\ TypeOK' /\ LateInv /\ [Next]_vars => LateInv'
  <1> SUFFICES ASSUME TypeOK, TypeOK', LateInv, [Next]_vars PROVE LateInv'
    OBVIOUS
  <1>1. \A p \in Pipelines : late[p] \in Nat /\ late'[p] \in Nat
    BY DEF TypeOK
  <1>2. \A p \in Pipelines : LateOf(p)
    BY DEF LateInv, LateOf
  <1>3. ASSUME \A w \in Pollers : poller'[w].pc = "create" => poller'[w].p \notin poller'[w].due,
               \A p \in Pipelines : LateOf(p)'
        PROVE  LateInv'
    BY <1>3 DEF LateInv, LateOf
  \* The rows and the counter stay, and no poller takes up a stopped pipeline.
  <1>4. ASSUME NEW p \in Pipelines, row'[p] = row[p] \/ Schedulable(row[p]) = Schedulable(row'[p]),
               late'[p] = late[p],
               ~ Schedulable(row[p]) => Holders(p)' \subseteq Holders(p)
        PROVE  LateOf(p)'
    BY <1>1, <1>2, <1>4, HoldersCount DEF LateOf
  <1>5. ASSUME NEW w \in Pollers, PollStep(w) \/ PollFails(w) PROVE LateInv'
    <2>1. poller \in [Pollers -> PollerType] /\ poller[w] \in PollerType
      BY DEF TypeOK, PollerType, SeenType
    <2>2. CASE BeginPoll(w)
      <3> DEFINE x == [AtRest EXCEPT !.pc = "reading", !.began = now]
      <3>1. poller' = [poller EXCEPT ![w] = x]
        BY <2>2 DEF BeginPoll
      <3>2. x.pc = "reading" /\ x.due = {}
        BY DEF AtRest
      <3> HIDE DEF x
      <3>3. \A p \in Pipelines : Holders(p)' \subseteq Holders(p)
        BY <2>1, <3>1, <3>2 DEF Holders
      <3> QED
        BY <1>3, <1>4, <2>1, <2>2, <3>1, <3>2, <3>3 DEF BeginPoll, LateInv
    <2>3. CASE ReadDue(w)
      <3> DEFINE due == {p \in Pipelines : IsDue(row[p], poller[w].began)}
                 seen == [p \in due |-> row[p]]
      <3>1. poller' = [poller EXCEPT ![w].pc = "loop", ![w].due = due, ![w].seen = seen]
        BY <2>3 DEF ReadDue
      <3>2. \A p \in due : Schedulable(row[p])
        BY DEF IsDue
      <3> HIDE DEF due, seen
      <3>3. /\ poller'[w].pc = "loop" /\ poller'[w].due = due
            /\ \A v \in Pollers : v # w => poller'[v] = poller[v]
        BY <2>1, <3>1 DEF PollerType
      <3>4. \A p \in Pipelines : ~ Schedulable(row[p]) => Holders(p)' \subseteq Holders(p)
        BY <3>2, <3>3 DEF Holders
      <3> QED
        BY <1>3, <1>4, <2>3, <3>3, <3>4 DEF ReadDue, LateInv
    <2>4. CASE CheckDue(w)
      <3>1. PICK q \in Pipelines : CheckDue(w)!2!(q)
        BY <2>4 DEF CheckDue
      <3> DEFINE step == IF HasActiveRun(q) THEN "loop" ELSE "create"
      <3>2. /\ poller'[w].pc = step /\ poller'[w].due = poller[w].due \ {q} /\ poller'[w].p = q
            /\ \A v \in Pollers : v # w => poller'[v] = poller[v]
        BY <2>1, <3>1 DEF PollerType
      <3>3. q \in poller[w].due
        BY <3>1 DEF IsFirstDue
      <3>4. \A p \in Pipelines : Holders(p)' \subseteq Holders(p)
        BY <3>2, <3>3 DEF Holders
      <3> QED
        BY <1>3, <1>4, <2>4, <3>2, <3>4 DEF CheckDue, LateInv
    <2>5. CASE CreateDue(w)
      <3>0. PICK q \in Pipelines : q = poller[w].p
        BY <2>5, PollerOf DEF CreateDue, PollerType, SeenOK, SeenType
      <3>1. /\ poller'[w].pc = "enqueue" /\ poller'[w].due = poller[w].due
            /\ \A v \in Pollers : v # w => poller'[v] = poller[v]
        BY <2>1, <2>5 DEF CreateDue, PollerType
      <3>2. \A p \in Pipelines : Holders(p)' \subseteq Holders(p)
        BY <3>1 DEF Holders
      <3>4. LateOf(q)'
        <4>1. w \in Holders(q) /\ Holders(q)' \subseteq Holders(q) \ {w}
          BY <2>5, <3>0, <3>1 DEF CreateDue, Holders, LateInv
        <4>2. /\ row' = row
              /\ Schedulable(row[q]) => late'[q] = late[q]
              /\ ~ Schedulable(row[q]) => late'[q] = late[q] + 1
          BY <2>5, <3>0 DEF CreateDue, TypeOK
        <4> QED
          BY <1>1, <1>2, <4>1, <4>2, HoldersCount DEF LateOf
      <3>5. ASSUME NEW p \in Pipelines, p # q PROVE LateOf(p)'
        <4>1. late'[p] = late[p] /\ row' = row
          BY <2>5, <3>0, <3>5 DEF CreateDue, TypeOK
        <4> QED
          BY <1>4, <3>2, <4>1
      <3>6. \A p \in Pipelines : LateOf(p)'
        BY <3>4, <3>5
      <3> QED
        BY <1>3, <3>1, <3>6 DEF LateInv
    <2>6. CASE Reschedule(w)
      <3>1. /\ poller'[w].pc = "loop" /\ poller'[w].due = poller[w].due
            /\ \A v \in Pollers : v # w => poller'[v] = poller[v]
        BY <2>1, <2>6 DEF Reschedule, PollerType
      <3>2. \A p \in Pipelines : Holders(p)' \subseteq Holders(p)
        BY <3>1 DEF Holders
      <3>3. \A p \in Pipelines : Schedulable(row'[p]) = Schedulable(row[p])
        <4>1. PICK n : row' = [row EXCEPT ![poller[w].p].next = n]
          BY <2>6 DEF Reschedule
        <4>2. \A p \in Pipelines : row[p] \in Rows
          BY DEF TypeOK
        <4> QED
          BY <4>1, <4>2 DEF TypeOK, Rows, Schedulable
      <3> QED
        BY <1>3, <1>4, <2>6, <3>1, <3>2, <3>3 DEF Reschedule, LateInv
    <2>8. CASE EnqueueDue(w)
      <3>1. /\ poller'[w].pc = "reschedule" /\ poller'[w].due = poller[w].due
            /\ \A v \in Pollers : v # w => poller'[v] = poller[v]
        BY <2>1, <2>8 DEF EnqueueDue, PollerType
      <3>2. \A p \in Pipelines : Holders(p)' \subseteq Holders(p)
        BY <3>1 DEF Holders
      <3> QED
        BY <1>3, <1>4, <2>8, <3>1, <3>2 DEF EnqueueDue, LateInv
    <2>7. CASE EndPoll(w) \/ PollFails(w)
      <3>1. /\ poller'[w].pc = "idle" /\ poller'[w].due = {}
            /\ \A v \in Pollers : v # w => poller'[v] = poller[v]
        BY <2>1, <2>7 DEF EndPoll, PollFails, AfterFailure, AtRest
      <3>2. \A p \in Pipelines : Holders(p)' \subseteq Holders(p)
        BY <3>1 DEF Holders
      <3> QED
        BY <1>3, <1>4, <2>7, <3>1, <3>2 DEF EndPoll, PollFails, LateInv
    <2> QED
      BY <1>5, <2>2, <2>3, <2>4, <2>5, <2>6, <2>7, <2>8 DEF PollStep
  \* A write of a row: the counter starts again when the pipeline is schedulable.
  <1>6. ASSUME NEW p \in Pipelines, NEW r, row' = [row EXCEPT ![p] = r], late' = LateAfter(p, r),
               poller' = poller
        PROVE  LateInv'
    <2>1. \A q \in Pipelines : Holders(q)' = Holders(q)
      BY <1>6 DEF Holders
    <2>2. ASSUME NEW q \in Pipelines, q # p PROVE LateOf(q)'
      <3>1. row'[q] = row[q] /\ late'[q] = late[q]
        BY <1>6, <2>2 DEF TypeOK, LateAfter
      <3>2. Holders(q)' \subseteq Holders(q)
        BY <2>1
      <3> QED
        BY <1>4, <3>1, <3>2
    <2>3. LateOf(p)'
      <3>1. row'[p] = r
        BY <1>6 DEF TypeOK
      <3>2. CASE Schedulable(r)
        BY <1>6, <3>1, <3>2 DEF TypeOK, LateAfter, LateOf
      <3>3. CASE ~ Schedulable(r)
        <4>1. late' = late
          BY <1>6, <3>3 DEF LateAfter
        <4> QED
          BY <1>1, <1>2, <2>1, <3>1, <3>3, <4>1, HoldersCount DEF LateOf
      <3> QED
        BY <3>2, <3>3
    <2>4. \A q \in Pipelines : LateOf(q)'
      BY <2>2, <2>3
    <2>5. \A w \in Pollers : poller'[w].pc = "create" => poller'[w].p \notin poller'[w].due
      BY <1>6 DEF LateInv
    <2> QED
      BY <1>3, <2>4, <2>5
  <1>7. ASSUME NEW u \in Users, WriteSchedule(u) PROVE LateInv'
    <2>1. user[u].p \in Pipelines
      BY <1>7 DEF WriteSchedule, TypeOK, NoRequest
    <2> QED
      BY <1>6, <1>7, <2>1 DEF WriteSchedule
  <1>8. ASSUME NEW p \in Pipelines, NEW s \in PipelineStatus, SetStatus(p, s) PROVE LateInv'
    BY <1>6, <1>8 DEF SetStatus
  <1>9. ASSUME \/ Tick \/ UNCHANGED vars
               \/ \E u \in Users : \/ CheckTrigger(u) \/ CreateTriggered(u) \/ EnqueueTriggered(u)
                                   \/ RequestFails(u)
                                   \/ \E p \in Pipelines : Request(u, p)
               \/ \E p \in Pipelines : \/ RunEnds(p) \/ RunFailsForNow(p) \/ RunRetries(p)
                                       \/ OtherRunBegins(p) \/ OtherRunEnds(p) \/ RunIsLeft(p)
        PROVE  LateInv'
    <2>1. UNCHANGED <<row, poller, late>>
      BY <1>9 DEF Tick, vars, CheckTrigger, CreateTriggered, EnqueueTriggered, RequestFails,
                  Request, BeginTrigger,
                  BeginScheduleUpdate, RunEnds, RunFailsForNow, RunRetries, OtherRunBegins,
                  OtherRunEnds, RunIsLeft
    <2> QED
      BY <2>1 DEF LateInv, Holders
  <1> QED
    BY <1>5, <1>7, <1>8, <1>9 DEF Next, UserStep

LEMMA LateInit == Init => LateInv
  <1> SUFFICES ASSUME Init PROVE LateInv
    OBVIOUS
  <1>1. \A w \in Pollers : poller[w].pc = "idle"
    BY DEF Init, AtRest
  <1>2. \A p \in Pipelines : Schedulable(row[p]) /\ late[p] = 0
    BY DEF Init
  <1> QED
    BY <1>1, <1>2 DEF LateInv

\* A stopped pipeline is run at most once more per poller.
THEOREM LateRunsBounded == Spec => []LateRunsAreBounded
  <1>1. TypeOK /\ LateInv => LateRunsAreBounded
    <2> SUFFICES ASSUME TypeOK, LateInv, NEW p \in Pipelines
                 PROVE  late[p] <= Cardinality(Pollers)
      BY DEF LateRunsAreBounded
    <2>1. late[p] \in Nat
      BY DEF TypeOK
    <2> QED
      BY <2>1, HoldersCount DEF LateInv
  <1> QED
    BY <1>1, LateInit, LateNext, TypeCorrect, PTL DEF Spec

----------------------------------------------------------------------------
(* Due times, with one poller w and no requests: only Reschedule writes    *)
(* nextRunAt, so a row in hand has the nextRunAt that the table has.       *)

HasRun == {"enqueue", "reschedule"}
InHand(w, p) == poller[w].pc \in HasRun \cup {"create"} /\ poller[w].p = p

FreshRows(w) ==
  \A p \in Pipelines :
    /\ InHand(w, p) => p \notin poller[w].due
    /\ p \in poller[w].due \/ InHand(w, p) => poller[w].seen[p].next = row[p].next

\* What has been run for a due time: nothing while it lies ahead, one run for each cycle
\* that failed while it is the next one, and one more from the run on.
FiredFor(w, p, d) ==
  /\ fired[p][d] <= 1 + faults
  /\ d > row[p].next => fired[p][d] = 0
  /\ d = row[p].next /\ ~ (poller[w].pc \in HasRun /\ poller[w].p = p) => fired[p][d] <= faults

OnceInv(w) == FreshRows(w) /\ \A p \in Pipelines, d \in Times : FiredFor(w, p, d)

LEMMA OnceTypes ==
  ASSUME TypeOK, NEW p \in Pipelines
  PROVE  /\ \A d \in Times : fired[p][d] \in Nat /\ d \in Nat
         /\ row[p] \in Rows /\ row[p].next \in Nat /\ faults \in Nat /\ Never \in Nat
         /\ \A d \in Times : d < Never
  BY SchedulerAssumption DEF TypeOK, Rows, Times, Never

\* A step that runs nothing, fails nothing and leaves the due times as they are.
LEMMA OnceKept ==
  ASSUME NEW w, OnceInv(w), fired' = fired, faults' = faults,
         \A p \in Pipelines : row'[p].next = row[p].next,
         poller'[w].pc \in HasRun \cup {"create"} =>
           /\ poller'[w].p \notin poller'[w].due
           /\ poller'[w].p \in Pipelines => poller'[w].seen[poller'[w].p].next = row[poller'[w].p].next,
         \A p \in Pipelines : p \in poller'[w].due => poller'[w].seen[p].next = row[p].next,
         poller[w].pc \in HasRun => poller'[w].pc \in HasRun /\ poller'[w].p = poller[w].p
  PROVE  OnceInv(w)'
  <1>1. FreshRows(w)'
    BY DEF FreshRows, InHand, HasRun
  <1>2. ASSUME NEW p \in Pipelines, NEW d \in Times PROVE FiredFor(w, p, d)'
    BY DEF OnceInv, FiredFor
  <1> QED
    BY <1>1, <1>2 DEF OnceInv

LEMMA OnceStays ==
  ASSUME NEW w, OnceInv(w), UNCHANGED <<fired, faults, poller>>,
         \A p \in Pipelines : row'[p].next = row[p].next
  PROVE  OnceInv(w)'
  <1>1. FreshRows(w)'
    BY DEF OnceInv, FreshRows, InHand, HasRun
  <1>2. ASSUME NEW p \in Pipelines, NEW d \in Times PROVE FiredFor(w, p, d)'
    BY DEF OnceInv, FiredFor
  <1> QED
    BY <1>1, <1>2 DEF OnceInv

LEMMA OncePoll ==
  ASSUME NEW w, Pollers = {w}, TypeOK, TypeOK', OnceInv(w), PollStep(w) \/ PollFails(w)
  PROVE  OnceInv(w)'
  <1>1. poller \in [Pollers -> PollerType] /\ poller[w] \in PollerType /\ SeenOK(poller[w])
    BY PollerOf DEF TypeOK, PollerType, SeenType
  <1>2. CASE BeginPoll(w)
    <2>1. /\ poller'[w].pc = "reading" /\ poller'[w].due = {} /\ poller[w].pc = "idle"
          /\ UNCHANGED <<row, fired, faults>>
      BY <1>1, <1>2 DEF BeginPoll, AtRest
    <2> QED
      BY <2>1, OnceKept DEF HasRun
  <1>3. CASE ReadDue(w)
    <2> DEFINE due == {p \in Pipelines : IsDue(row[p], poller[w].began)}
               seen == [p \in due |-> row[p]]
    <2>1. /\ poller' = [poller EXCEPT ![w].pc = "loop", ![w].due = due, ![w].seen = seen]
          /\ poller[w].pc = "reading" /\ UNCHANGED <<row, fired, faults>>
      BY <1>3 DEF ReadDue
    <2>2. \A p \in due : seen[p] = row[p]
      OBVIOUS
    <2> HIDE DEF due, seen
    <2>3. poller'[w].pc = "loop" /\ poller'[w].due = due /\ poller'[w].seen = seen
      BY <1>1, <2>1 DEF PollerType
    <2> QED
      BY <2>1, <2>2, <2>3, OnceKept DEF HasRun
  <1>4. CASE CheckDue(w)
    <2>1. PICK q \in Pipelines : CheckDue(w)!2!(q)
      BY <1>4 DEF CheckDue
    <2> DEFINE step == IF HasActiveRun(q) THEN "loop" ELSE "create"
    <2>2. /\ poller'[w].pc = step /\ poller'[w].due = poller[w].due \ {q} /\ poller'[w].p = q
          /\ poller'[w].seen = poller[w].seen /\ poller[w].pc = "loop" /\ q \in poller[w].due
          /\ UNCHANGED <<row, fired, faults>>
      BY <1>1, <1>4, <2>1 DEF PollerType, CheckDue, IsFirstDue
    <2>3. \A p \in poller[w].due : p \in Pipelines => poller[w].seen[p].next = row[p].next
      BY DEF OnceInv, FreshRows
    <2> HIDE DEF step
    <2> QED
      BY <2>2, <2>3, OnceKept DEF HasRun
  <1>5. CASE CreateDue(w)
    <2> DEFINE q == poller[w].p
               e == poller[w].seen[q].next
    <2>1. q \in Pipelines
      BY <1>1, <1>5 DEF CreateDue, PollerType, SeenOK, SeenType
    <2>2. /\ poller[w].pc = "create" /\ fired' = [fired EXCEPT ![q][e] = fired[q][e] + 1]
          /\ poller'[w].pc = "enqueue" /\ poller'[w].p = q /\ poller'[w].due = poller[w].due
          /\ poller'[w].seen = poller[w].seen /\ UNCHANGED <<row, faults>>
      BY <1>1, <1>5 DEF CreateDue, PollerType
    <2>3. e = row[q].next /\ q \notin poller[w].due
      BY <2>1, <2>2 DEF OnceInv, FreshRows, InHand, HasRun
    <2>4. e \in Times
      <3>1. e <= poller[w].began /\ poller[w].began \in Times
        BY <1>1, <2>2 DEF SeenOK, PollerType
      <3>2. e \in Times \cup {Never}
        BY <2>1, <2>3, OnceTypes DEF Rows
      <3> QED
        BY <3>1, <3>2, SchedulerAssumption DEF Times, Never
    <2>5. FreshRows(w)'
      BY <2>2 DEF OnceInv, FreshRows, InHand, HasRun
    <2>6. \A p \in Pipelines, d \in Times :
            fired'[p][d] = IF p = q /\ d = e THEN fired[p][d] + 1 ELSE fired[p][d]
      BY <2>1, <2>2, <2>4 DEF TypeOK
    <2> HIDE DEF e, q
    <2>7. ASSUME NEW p \in Pipelines, NEW d \in Times PROVE FiredFor(w, p, d)'
      <3>1. FiredFor(w, p, d)
        BY DEF OnceInv
      <3>2. CASE p = q /\ d = e
        <4>1. fired[p][d] <= faults
          BY <2>2, <2>3, <3>1, <3>2 DEF FiredFor, HasRun
        <4>2. fired'[p][d] = fired[p][d] + 1 /\ fired[p][d] \in Nat /\ faults \in Nat /\ d \in Nat
          BY <2>6, <3>2, OnceTypes
        <4>3. d = row'[p].next /\ poller'[w].pc = "enqueue" /\ poller'[w].p = p /\ faults' = faults
          BY <2>2, <2>3, <3>2
        <4>4. fired'[p][d] <= 1 + faults' /\ ~ (d > row'[p].next)
          BY <4>1, <4>2, <4>3
        <4> QED
          BY <4>3, <4>4 DEF FiredFor, HasRun
      <3>3. CASE ~ (p = q /\ d = e)
        <4>1. fired'[p][d] = fired[p][d]
          BY <2>6, <3>3
        <4> QED
          BY <2>2, <3>1, <4>1 DEF FiredFor, HasRun
      <3> QED
        BY <3>2, <3>3
    <2> QED
      BY <2>5, <2>7 DEF OnceInv
  <1>9. CASE EnqueueDue(w)
    <2>1. /\ poller[w].pc = "enqueue" /\ poller'[w].pc = "reschedule"
          /\ poller'[w].p = poller[w].p /\ poller'[w].due = poller[w].due
          /\ poller'[w].seen = poller[w].seen /\ UNCHANGED <<row, fired, faults>>
      BY <1>1, <1>9 DEF EnqueueDue, PollerType
    <2>2. FreshRows(w)'
      BY <2>1 DEF OnceInv, FreshRows, InHand, HasRun
    <2>3. ASSUME NEW p \in Pipelines, NEW d \in Times PROVE FiredFor(w, p, d)'
      BY <2>1 DEF OnceInv, FiredFor, HasRun
    <2> QED
      BY <2>2, <2>3 DEF OnceInv
  <1>6. CASE Reschedule(w)
    <2> DEFINE q == poller[w].p
    <2>1. q \in Pipelines
      BY <1>1, <1>6 DEF Reschedule, PollerType, SeenOK, SeenType
    <2>2. PICK n \in Times \cup {Never} :
            /\ IsNextRun(n, poller[w].seen[q].cron, poller[w].began)
            /\ row' = [row EXCEPT ![q].next = n]
      BY <1>6 DEF Reschedule
    <2>3. /\ poller[w].pc = "reschedule" /\ poller'[w].pc = "loop" /\ poller'[w].p = q
          /\ poller'[w].due = poller[w].due /\ poller'[w].seen = poller[w].seen
          /\ UNCHANGED <<fired, faults>>
      BY <1>1, <1>6 DEF Reschedule, PollerType
    <2>4. q \notin poller[w].due /\ poller[w].seen[q].next = row[q].next
      BY <2>1, <2>3 DEF OnceInv, FreshRows, InHand, HasRun
    <2>5. row[q].next < n
      <3>1. row[q].next <= poller[w].began /\ poller[w].began \in Times
        BY <1>1, <2>3, <2>4 DEF SeenOK, PollerType
      <3>2. n > poller[w].began \/ n = Never
        BY <2>2 DEF IsNextRun
      <3>3. n \in Nat /\ row[q].next \in Nat /\ poller[w].began \in Nat /\ poller[w].began < Never
        BY <2>1, <2>2, <3>1, OnceTypes
      <3> QED
        BY <3>1, <3>2, <3>3, SchedulerAssumption DEF Times, Never
    <2>6. \A p \in Pipelines : row'[p].next = IF p = q THEN n ELSE row[p].next
      <3>1. row' = [row EXCEPT ![q] = [row[q] EXCEPT !.next = n]]
        BY <2>2
      <3> QED
        BY <2>1, <3>1 DEF TypeOK, Rows
    <2> HIDE DEF q
    <2>7. FreshRows(w)'
      BY <2>3, <2>4, <2>6 DEF OnceInv, FreshRows, InHand, HasRun
    <2>8. ASSUME NEW p \in Pipelines, NEW d \in Times PROVE FiredFor(w, p, d)'
      <3>1. FiredFor(w, p, d)
        BY DEF OnceInv
      <3>2. CASE p = q
        <4>1. n \in Nat /\ d \in Nat /\ row[p].next \in Nat /\ faults \in Nat /\ row'[p].next = n
          BY <2>2, <2>6, <3>2, OnceTypes
        <4>2. d >= n => d > row[p].next
          BY <2>5, <3>2, <4>1
        <4>3. d >= n => fired[p][d] = 0
          BY <3>1, <4>2 DEF FiredFor, HasRun
        <4> QED
          BY <2>3, <3>1, <4>1, <4>3 DEF FiredFor, HasRun
      <3>3. CASE p # q
        <4>1. row'[p].next = row[p].next
          BY <2>6, <3>3
        <4> QED
          BY <2>3, <3>1, <3>3, <4>1 DEF FiredFor, q
      <3> QED
        BY <3>2, <3>3
    <2> QED
      BY <2>7, <2>8 DEF OnceInv
  <1>7. CASE EndPoll(w)
    <2>1. /\ poller'[w].pc = "idle" /\ poller'[w].due = {} /\ poller[w].pc = "loop"
          /\ UNCHANGED <<row, fired, faults>>
      BY <1>1, <1>7 DEF EndPoll, AtRest
    <2> QED
      BY <2>1, OnceKept DEF HasRun
  <1>8. CASE PollFails(w)
    <2>1. /\ poller'[w].pc = "idle" /\ poller'[w].due = {} /\ faults' = faults + 1
          /\ UNCHANGED <<row, fired>>
      BY <1>1, <1>8 DEF PollFails, AfterFailure, AtRest
    <2>2. FreshRows(w)'
      BY <2>1 DEF FreshRows, InHand, HasRun
    <2>3. ASSUME NEW p \in Pipelines, NEW d \in Times PROVE FiredFor(w, p, d)'
      <3>1. FiredFor(w, p, d) /\ fired[p][d] \in Nat /\ faults \in Nat
        BY OnceTypes DEF OnceInv
      <3>2. fired'[p][d] <= faults' /\ fired'[p][d] <= 1 + faults'
        BY <2>1, <3>1 DEF FiredFor, HasRun
      <3> QED
        BY <2>1, <3>1, <3>2 DEF FiredFor, HasRun
    <2> QED
      BY <2>2, <2>3 DEF OnceInv
  <1> QED
    BY <1>2, <1>3, <1>4, <1>5, <1>6, <1>7, <1>8, <1>9 DEF PollStep

LEMMA OnceNext ==
  ASSUME NEW w, Pollers = {w}, Users = {}, TypeOK, TypeOK', OnceInv(w), [Next]_vars
  PROVE  OnceInv(w)'
  <1>1. ASSUME NEW p \in Pipelines, NEW s \in PipelineStatus, SetStatus(p, s) PROVE OnceInv(w)'
    <2>1. /\ row' = [row EXCEPT ![p] = [row[p] EXCEPT !.status = s]]
          /\ UNCHANGED <<fired, faults, poller>>
      BY <1>1 DEF SetStatus
    <2>2. \A q \in Pipelines : row'[q].next = row[q].next
      BY <2>1 DEF TypeOK, Rows
    <2> QED
      BY <2>1, <2>2, OnceStays
  <1>3. ASSUME NEW p \in Pipelines, RunIsLeft(p) PROVE OnceInv(w)'
    <2>1. UNCHANGED <<row, fired, poller>> /\ faults' = faults + 1
      BY <1>3 DEF RunIsLeft
    <2>2. FreshRows(w)'
      BY <2>1 DEF OnceInv, FreshRows, InHand
    <2>3. ASSUME NEW q \in Pipelines, NEW d \in Times PROVE FiredFor(w, q, d)'
      <3>1. FiredFor(w, q, d) /\ fired[q][d] \in Nat /\ faults \in Nat
        BY OnceTypes DEF OnceInv
      <3> QED
        BY <2>1, <3>1 DEF FiredFor
    <2> QED
      BY <2>2, <2>3 DEF OnceInv
  <1>2. CASE \/ Tick \/ UNCHANGED vars
             \/ \E p \in Pipelines : \/ RunEnds(p) \/ RunFailsForNow(p) \/ RunRetries(p)
                                     \/ OtherRunBegins(p) \/ OtherRunEnds(p)
    <2>1. UNCHANGED <<row, fired, faults, poller>>
      BY <1>2 DEF Tick, vars, RunEnds, RunFailsForNow, RunRetries, OtherRunBegins, OtherRunEnds
    <2> QED
      BY <2>1, OnceStays
  <1> QED
    BY <1>1, <1>2, <1>3, OncePoll DEF Next

LEMMA OnceInit ==
  ASSUME NEW w, Pollers = {w}, Init
  PROVE  OnceInv(w)
  <1>1. poller[w].pc = "idle" /\ poller[w].due = {} /\ faults = 0
    BY DEF Init, AtRest
  <1>2. \A p \in Pipelines, d \in Times : fired[p][d] = 0
    BY DEF Init
  <1> QED
    BY <1>1, <1>2 DEF OnceInv, FreshRows, FiredFor, InHand, HasRun

\* With one poller and no schedule updates a due time is run once, and once more for
\* each cycle that failed between the run and the new nextRunAt (scheduler.service.ts
\* enqueueDuePipelines).
THEOREM DueTimesRunOnce ==
  ASSUME NEW w, Pollers = {w}, Users = {}
  PROVE  Spec => []OncePerDueTime
  <1>1. Init => OnceInv(w)
    BY OnceInit
  <1>2. TypeOK /\ TypeOK' /\ OnceInv(w) /\ [Next]_vars => OnceInv(w)'
    BY OnceNext
  <1>3. OnceInv(w) => OncePerDueTime
    BY DEF OnceInv, FiredFor, OncePerDueTime
  <1> QED
    BY <1>1, <1>2, <1>3, TypeCorrect, PTL DEF Spec
=============================================================================
