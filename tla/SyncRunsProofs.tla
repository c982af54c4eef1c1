---------------------------- MODULE SyncRunsProofs ----------------------------
(***************************************************************************)
(* Theorems of SyncRuns for every value of its constants: types, then      *)
(* safety from the queue to the cursor, then the refinement of             *)
(* IngestLedger and the counters of a finished run.                        *)
(***************************************************************************)
EXTENDS SyncRuns, FiniteSetTheorems, TLAPS

-------------------------------------------------------------------------------
(***************************************************************************)
(* Cursor arithmetic.                                                      *)
(***************************************************************************)

\* pickLatestCursor returns one of its arguments, so never a made-up cursor.
LEMMA PickIsOneOf ==
  ASSUME NEW left, NEW right
  PROVE  PickLatestCursor(left, right) \in {left, right}
BY DEF PickLatestCursor

LEMMA NoCursorIsCursor == NoCursor \in Cursors
BY DEF Cursors, Partial

-------------------------------------------------------------------------------
(***************************************************************************)
(* Type correctness.                                                       *)
(***************************************************************************)
ExecutorLocals == [pc : PCs, run : Runs \cup {NoRun}, base : Cursors,
                   left : SUBSET Nat, created : Nat, failed : Nat,
                   maxCursor : Cursors]

\* An executor has a run exactly while it is not idle: TypeOK alone is not
\* inductive, since every step of an executor is about its run.  A request
\* that runs inline stays within executeSyncRunNow and processRunRecords.  What
\* is left to process is a part of the run's records.
DirectPCs == {"idle", "createRun", "begin", "records", "finishRun"}

ExecutorType == {e \in ExecutorLocals :
                   /\ e.pc = "idle" <=> e.run = NoRun
                   /\ ~Async => e.pc \in DirectPCs}

LeftOK(e) == e.pc = "records" => e.left \subseteq Positions(e.run)

ExecutorsOK == ex \in [Executors -> ExecutorType] /\ \A w \in Executors : LeftOK(ex[w])

TypeInv ==
  /\ request \in [Runs -> Requests]
  /\ api \in [Runs -> ApiSteps]
  /\ run \in [Runs -> SyncRunRows]
  /\ job \in [Runs -> JobStatus]
  /\ bull \in [Runs -> BullJobs]
  /\ ExecutorsOK
  /\ DOMAIN rows = Runs /\ \A r \in Runs : rows[r] \in [Positions(r) -> Nat]
  /\ cursor \in [Pipelines -> Cursors]
  /\ faults \in 0..MaxFaults
  /\ deliveries \in [Runs -> Nat]
  /\ moved \in SUBSET Runs

LEMMA TypeInvImpliesTypeOK == TypeInv => TypeOK
BY DEF TypeInv, TypeOK, ExecutorsOK, ExecutorType, ExecutorLocals

LEMMA IdleType == Idle \in ExecutorType
BY NoCursorIsCursor DEF Idle, ExecutorType, ExecutorLocals, PCs, DirectPCs

LEMMA TypeInit == Init => TypeInv
<1> SUFFICES ASSUME Init PROVE TypeInv
  OBVIOUS
<1>1. NewRun("none") \in SyncRunRows /\ NoJob \in BullJobs
  BY DEF NewRun, SyncRunRows, RunStatus, NoJob, BullJobs, BullStates
<1>2. faults \in 0..MaxFaults
  BY ConstantsAssumption DEF Init
<1>3. DOMAIN rows = Runs /\ \A r \in Runs : rows[r] \in [Positions(r) -> Nat]
  BY DEF Init
<1> QED
  BY <1>1, <1>2, <1>3, IdleType, NoCursorIsCursor
  DEF Init, TypeInv, ExecutorsOK, LeftOK, Idle, ApiSteps, JobStatus

\* A record of a request, and the pipeline it is for.
LEMMA RequestType ==
  ASSUME TypeInv, NEW r \in Runs
  PROVE  /\ PipelineOf(r) \in Pipelines
         /\ request[r].records \in Seq(Records)
         /\ Positions(r) = 1..Len(request[r].records)
         /\ Positions(r) \subseteq Nat
         /\ \A i \in Positions(r) : Record(r, i) \in Records
BY PayloadsAssumption DEF TypeInv, Requests, PipelineOf, Positions, Record

\* A busy executor's locals.
LEMMA BusyType ==
  ASSUME TypeInv, NEW w \in Executors, ex[w].pc # "idle"
  PROVE  /\ ex[w] \in ExecutorLocals /\ ex[w] \in ExecutorType
         /\ ex[w].run \in Runs
         /\ ex[w].pc \notin DirectPCs => Async
BY DEF TypeInv, ExecutorsOK, ExecutorType, ExecutorLocals

\* An executor that gets well-typed locals leaves ex well typed.
LEMMA BecomeType ==
  ASSUME TypeInv, UNCHANGED request,
         NEW w \in Executors, NEW e \in ExecutorType, LeftOK(e), Become(w, e)
  PROVE  ExecutorsOK'
BY DEF TypeInv, ExecutorsOK, LeftOK, Become, Positions

LEMMA GotoType ==
  ASSUME TypeInv, UNCHANGED request,
         NEW w \in Executors, NEW pc \in PCs \ {"idle", "records"},
         ex[w].pc # "idle", Goto(w, pc), Async \/ pc \in DirectPCs
  PROVE  ExecutorsOK'
<1>1. [ex[w] EXCEPT !.pc = pc] \in ExecutorType /\ LeftOK([ex[w] EXCEPT !.pc = pc])
  BY BusyType DEF ExecutorType, ExecutorLocals, LeftOK
<1> QED
  BY <1>1, BecomeType DEF Goto

LEMMA ReleaseType ==
  ASSUME TypeInv, UNCHANGED request, NEW w \in Executors, Release(w)
  PROVE  ExecutorsOK'
<1>1. LeftOK(Idle)
  BY DEF LeftOK, Idle
<1> QED
  BY <1>1, IdleType, BecomeType DEF Release

LEMMA BullType ==
  ASSUME TypeInv, NEW r \in Runs, NEW b \in BullJobs, bull' = [bull EXCEPT ![r] = b]
  PROVE  bull' \in [Runs -> BullJobs]
BY DEF TypeInv

LEMMA EligibleType ==
  ASSUME TypeInv, NEW r \in Runs, NEW base
  PROVE  EligibleRecords(r, base) \subseteq Positions(r)
BY DEF EligibleRecords

\* Updating some fields of well-typed records.
LEMMA LocalsType ==
  ASSUME NEW e \in ExecutorLocals, NEW left \in SUBSET Nat, NEW created \in Nat,
         NEW failed \in Nat, NEW maxCursor \in Cursors
  PROVE  /\ [e EXCEPT !.left = left, !.failed = failed] \in ExecutorLocals
         /\ [e EXCEPT !.left = left, !.created = created, !.failed = failed,
                      !.maxCursor = maxCursor] \in ExecutorLocals
BY DEF ExecutorLocals

LEMMA BullJobType ==
  ASSUME NEW b \in BullJobs, NEW state \in BullStates, NEW n \in Nat
  PROVE  /\ [b EXCEPT !.state = state] \in BullJobs
         /\ [b EXCEPT !.made = n, !.state = state] \in BullJobs
         /\ [b EXCEPT !.state = state, !.made = n] \in BullJobs
         /\ [b EXCEPT !.state = state, !.stalled = n] \in BullJobs
BY DEF BullJobs

LEMMA AfterFailureType ==
  ASSUME NEW e \in ExecutorType, e.pc = "records", NEW i
  PROVE  /\ AfterFailure(e, i) \in ExecutorType
         /\ AfterFailure(e, i).pc = e.pc /\ AfterFailure(e, i).run = e.run
         /\ AfterFailure(e, i).left = e.left \ {i}
         /\ AfterFailure(e, i).failed = e.failed + 1
         /\ AfterFailure(e, i).base = e.base
         /\ AfterFailure(e, i).maxCursor = e.maxCursor
<1> DEFINE left == e.left \ {i}
           failed == e.failed + 1
<1>1. e \in ExecutorLocals /\ left \in SUBSET Nat /\ failed \in Nat
  BY DEF ExecutorType, ExecutorLocals
<1> HIDE DEF left, failed
<1>2. [e EXCEPT !.left = left, !.failed = failed] \in ExecutorLocals
  BY <1>1, LocalsType DEF ExecutorLocals
<1>3. AfterFailure(e, i) = [e EXCEPT !.left = left, !.failed = failed]
  BY DEF AfterFailure, left, failed
<1>4. /\ AfterFailure(e, i).pc = e.pc /\ AfterFailure(e, i).run = e.run
      /\ AfterFailure(e, i).left = left /\ AfterFailure(e, i).failed = failed
      /\ AfterFailure(e, i).base = e.base /\ AfterFailure(e, i).maxCursor = e.maxCursor
  BY <1>1, <1>3 DEF ExecutorLocals
<1> QED
  BY <1>2, <1>3, <1>4 DEF ExecutorType, left, failed

LEMMA AfterStoreType ==
  ASSUME TypeInv, NEW w \in Executors, ex[w].pc = "records",
         NEW i \in Positions(ex[w].run), NEW k \in {0, 1}
  PROVE  /\ AfterStore(ex[w], i, k) \in ExecutorType
         /\ AfterStore(ex[w], i, k).pc = ex[w].pc
         /\ AfterStore(ex[w], i, k).run = ex[w].run
         /\ AfterStore(ex[w], i, k).base = ex[w].base
         /\ AfterStore(ex[w], i, k).left = ex[w].left \ {i}
         /\ AfterStore(ex[w], i, k).failed = ex[w].failed + k
         /\ AfterStore(ex[w], i, k).maxCursor
              \in {ex[w].maxCursor, Record(ex[w].run, i).candidate}
<1> DEFINE e == ex[w]
           left == e.left \ {i}
           created == e.created + 1
           failed == e.failed + k
           max == PickLatestCursor(e.maxCursor, Record(e.run, i).candidate)
<1>1. e \in ExecutorLocals /\ e \in ExecutorType /\ e.run \in Runs
  BY BusyType
<1>2. max \in Cursors /\ max \in {e.maxCursor, Record(e.run, i).candidate}
  BY <1>1, RequestType, PickIsOneOf DEF ExecutorLocals, Records
<1>3. left \in SUBSET Nat /\ created \in Nat /\ failed \in Nat
  BY <1>1 DEF ExecutorLocals
<1> HIDE DEF left, created, failed, max
<1>4. AfterStore(e, i, k) = [e EXCEPT !.left = left, !.created = created,
                                      !.failed = failed, !.maxCursor = max]
  BY DEF AfterStore, left, created, failed, max
<1>5. AfterStore(e, i, k) \in ExecutorLocals
  <2>1. [e EXCEPT !.left = left, !.created = created, !.failed = failed,
                  !.maxCursor = max] \in ExecutorLocals
    BY <1>1, <1>2, <1>3, LocalsType DEF ExecutorLocals
  <2> QED
    BY <1>4, <2>1
<1>6. /\ AfterStore(e, i, k).pc = e.pc /\ AfterStore(e, i, k).run = e.run
      /\ AfterStore(e, i, k).base = e.base /\ AfterStore(e, i, k).left = left
      /\ AfterStore(e, i, k).failed = failed /\ AfterStore(e, i, k).maxCursor = max
  BY <1>1, <1>4 DEF ExecutorLocals
<1> QED
  BY <1>1, <1>2, <1>5, <1>6 DEF ExecutorType, left, failed

\* The position an executor takes next is one of its run's records.
LEMMA NextPosition ==
  ASSUME TypeInv, NEW w \in Executors, NEW i, IsNext(w, i)
  PROVE  /\ ex[w].pc = "records" /\ ex[w].run \in Runs
         /\ i \in ex[w].left /\ i \in Positions(ex[w].run)
BY BusyType DEF IsNext, TypeInv, ExecutorsOK, LeftOK

LEMMA BecomeAfterFailure ==
  ASSUME TypeInv, UNCHANGED request, NEW w \in Executors, ex[w].pc = "records",
         NEW i, Become(w, AfterFailure(ex[w], i))
  PROVE  ExecutorsOK'
<1>1. ex[w] \in ExecutorType /\ LeftOK(ex[w])
  BY DEF TypeInv, ExecutorsOK
<1>2. AfterFailure(ex[w], i) \in ExecutorType /\ LeftOK(AfterFailure(ex[w], i))
  BY <1>1, AfterFailureType DEF LeftOK
<1> QED
  BY <1>2, BecomeType

LEMMA BecomeAfterStore ==
  ASSUME TypeInv, UNCHANGED request, NEW w \in Executors, ex[w].pc = "records",
         NEW i \in Positions(ex[w].run), NEW k \in {0, 1},
         Become(w, AfterStore(ex[w], i, k))
  PROVE  ExecutorsOK'
<1>1. LeftOK(ex[w])
  BY DEF TypeInv, ExecutorsOK
<1>2. AfterStore(ex[w], i, k) \in ExecutorType /\ LeftOK(AfterStore(ex[w], i, k))
  BY <1>1, AfterStoreType DEF LeftOK
<1> QED
  BY <1>2, BecomeType

LEMMA InsertRowType ==
  ASSUME TypeInv, NEW r \in Runs, NEW i \in Positions(r), InsertRow(r, i)
  PROVE  DOMAIN rows' = Runs /\ \A s \in Runs : rows'[s] \in [Positions(s) -> Nat]
<1>1. [rows[r] EXCEPT ![i] = rows[r][i] + 1] \in [Positions(r) -> Nat]
  BY DEF TypeInv
<1> QED
  BY <1>1 DEF TypeInv, InsertRow

LEMMA FaultType == ASSUME TypeInv, Fault PROVE faults' \in 0..MaxFaults
BY ConstantsAssumption DEF TypeInv, Fault

\* A call that can reject is made by an executor that has a run.
LEMMA AwaitsIsBusy ==
  ASSUME NEW w \in Executors, Awaits(w)
  PROVE  ex[w].pc # "idle" /\ ex[w].pc # "rethrow"
BY DEF Awaits

LEMMA TypeStep == TypeInv /\ [Next]_vars => TypeInv'
<1> SUFFICES ASSUME TypeInv, [Next]_vars PROVE TypeInv'
  OBVIOUS
<1>1. ASSUME NEW r \in Runs, QueueRun(r) PROVE TypeInv'
  BY <1>1 DEF QueueRun, TypeInv, ExecutorsOK, LeftOK, NewRun, SyncRunRows, RunStatus, ApiSteps, Positions
<1>2. ASSUME NEW r \in Runs, CreateJob(r) PROVE TypeInv'
  BY <1>2 DEF CreateJob, TypeInv, ExecutorsOK, LeftOK, JobStatus, ApiSteps, Positions
<1>3. ASSUME NEW r \in Runs, EnqueueJob(r) PROVE TypeInv'
  BY <1>3 DEF EnqueueJob, TypeInv, ExecutorsOK, LeftOK, BullJobs, BullStates, ApiSteps, Positions
<1>4. ASSUME NEW r \in Runs, RequestFails(r) PROVE TypeInv'
  BY <1>4, ConstantsAssumption DEF RequestFails, Fault, TypeInv, ExecutorsOK, LeftOK, ApiSteps, Positions
<1>5. ASSUME NEW r \in Runs, Backoff(r) PROVE TypeInv'
  BY <1>5 DEF Backoff, TypeInv, ExecutorsOK, LeftOK, BullJobs, BullStates, Positions
<1>6. ASSUME NEW r \in Runs, Stalled(r) PROVE TypeInv'
  <2>1. ASSUME bull[r].stalled < MaxStalled PROVE TypeInv'
    <3>1. [bull[r] EXCEPT !.state = "waiting", !.stalled = bull[r].stalled + 1] \in BullJobs
      <4>1. bull[r] \in BullJobs /\ bull[r].stalled + 1 \in Nat /\ "waiting" \in BullStates
        BY DEF TypeInv, BullJobs, BullStates
      <4> QED
        BY <4>1, BullJobType
    <3> QED
      BY <1>6, <2>1, <3>1, BullType DEF Stalled, TypeInv, ExecutorsOK, LeftOK, Positions
  <2>2. ASSUME ~(bull[r].stalled < MaxStalled) PROVE TypeInv'
    <3>1. [bull[r] EXCEPT !.state = "failed"] \in BullJobs
      <4>1. bull[r] \in BullJobs /\ "failed" \in BullStates
        BY DEF TypeInv, BullStates
      <4> QED
        BY <4>1 DEF BullJobs
    <3> QED
      BY <1>6, <2>2, <3>1, BullType DEF Stalled, TypeInv, ExecutorsOK, LeftOK, Positions
  <2> QED
    BY <2>1, <2>2
<1>7. ASSUME NEW w \in Executors, NEW r \in Runs, Deliver(w, r) PROVE TypeInv'
  <2> DEFINE e == [Idle EXCEPT !.pc = "load", !.run = r]
  <2>1. e \in ExecutorType /\ LeftOK(e)
    BY <1>7, NoCursorIsCursor, ConstantsAssumption
    DEF Deliver, Idle, ExecutorType, ExecutorLocals, PCs, DirectPCs, LeftOK
  <2>2. ExecutorsOK'
    BY <1>7, <2>1, BecomeType DEF Deliver
  <2>3. bull' \in [Runs -> BullJobs]
    BY <1>7 DEF Deliver, TypeInv, BullJobs, BullStates
  <2>4. deliveries' \in [Runs -> Nat]
    BY <1>7 DEF Deliver, TypeInv
  <2> QED
    BY <1>7, <2>2, <2>3, <2>4 DEF Deliver, TypeInv, Positions
<1>8. ASSUME NEW w \in Executors, NEW r \in Runs, StartNow(w, r) PROVE TypeInv'
  <2>1. cursor[PipelineOf(r)] \in Cursors
    BY RequestType DEF TypeInv
  <2> DEFINE e == [Idle EXCEPT !.pc = "createRun", !.run = r,
                               !.base = cursor[PipelineOf(r)]]
  <2>2. e \in ExecutorType /\ LeftOK(e)
    BY <2>1, NoCursorIsCursor, ConstantsAssumption
    DEF Idle, ExecutorType, ExecutorLocals, PCs, DirectPCs, LeftOK
  <2>3. ExecutorsOK'
    BY <1>8, <2>2, BecomeType DEF StartNow
  <2>4. deliveries' \in [Runs -> Nat] /\ api' \in [Runs -> ApiSteps]
    BY <1>8 DEF StartNow, TypeInv, ApiSteps
  <2> QED
    BY <1>8, <2>3, <2>4 DEF StartNow, TypeInv, Positions
<1>9. ASSUME NEW w \in Executors, CreateRunNow(w) PROVE TypeInv'
  <2>1. ExecutorsOK'
    BY <1>9, BusyType, GotoType DEF CreateRunNow, PCs, DirectPCs
  <2>2. run' \in [Runs -> SyncRunRows]
    BY <1>9, BusyType DEF CreateRunNow, TypeInv, NewRun, SyncRunRows, RunStatus
  <2> QED
    BY <1>9, <2>1, <2>2 DEF CreateRunNow, TypeInv, Positions
<1>10. ASSUME NEW w \in Executors, Load(w) PROVE TypeInv'
  <2>1. ex[w].pc # "idle" /\ ex[w].run \in Runs /\ ex[w] \in ExecutorLocals /\ Async
    BY <1>10, BusyType DEF Load, DirectPCs
  <2>2. cursor[PipelineOf(ex[w].run)] \in Cursors
    BY <2>1, RequestType DEF TypeInv
  <2> DEFINE e == [ex[w] EXCEPT !.pc = "markJob", !.base = cursor[PipelineOf(ex[w].run)]]
  <2>3. e \in ExecutorType /\ LeftOK(e)
    BY <2>1, <2>2, ConstantsAssumption DEF ExecutorType, ExecutorLocals, PCs, DirectPCs, LeftOK
  <2>4. ExecutorsOK'
    BY <1>10, <2>3, BecomeType DEF Load
  <2> QED
    BY <1>10, <2>4 DEF Load, TypeInv, Positions
<1>11. ASSUME NEW w \in Executors, MarkJobProcessing(w) PROVE TypeInv'
  <2>1. ExecutorsOK'
    BY <1>11, BusyType, GotoType DEF MarkJobProcessing, PCs, DirectPCs
  <2>2. job' \in [Runs -> JobStatus]
    BY <1>11 DEF MarkJobProcessing, TypeInv, JobStatus
  <2> QED
    BY <1>11, <2>1, <2>2 DEF MarkJobProcessing, TypeInv, Positions
<1>12. ASSUME NEW w \in Executors, MarkRunRunning(w) PROVE TypeInv'
  <2>1. ExecutorsOK'
    BY <1>12, BusyType, GotoType DEF MarkRunRunning, PCs, DirectPCs
  <2>2. run' \in [Runs -> SyncRunRows]
    BY <1>12 DEF MarkRunRunning, TypeInv, SyncRunRows, RunStatus
  <2> QED
    BY <1>12, <2>1, <2>2 DEF MarkRunRunning, TypeInv, Positions
<1>13. ASSUME NEW w \in Executors, BeginRecords(w) PROVE TypeInv'
  <2> DEFINE eligible == EligibleRecords(ex[w].run, ex[w].base)
  <2>1. ex[w].pc # "idle" /\ ex[w].run \in Runs /\ ex[w] \in ExecutorLocals
    BY <1>13, BusyType DEF BeginRecords
  <2>2. eligible \in SUBSET Nat /\ eligible \subseteq Positions(ex[w].run)
    BY <2>1, RequestType, EligibleType
  <2> HIDE DEF eligible
  <2> DEFINE e == [ex[w] EXCEPT !.pc = "records", !.left = eligible]
  <2>3. e \in ExecutorType /\ LeftOK(e)
    BY <2>1, <2>2, ConstantsAssumption DEF ExecutorType, ExecutorLocals, PCs, DirectPCs, LeftOK
  <2>4. ExecutorsOK'
    BY <1>13, <2>3, BecomeType DEF BeginRecords, eligible
  <2> QED
    BY <1>13, <2>4 DEF BeginRecords, TypeInv, Positions
<1>14. ASSUME NEW w \in Executors, NEW i \in ex[w].left, RejectRecord(w, i)
       PROVE  TypeInv'
  <2>1. ExecutorsOK'
    BY <1>14, NextPosition, BecomeAfterFailure DEF RejectRecord
  <2> QED
    BY <1>14, <2>1 DEF RejectRecord, TypeInv, Positions
<1>15. ASSUME NEW w \in Executors, NEW i \in ex[w].left, StoreRecord(w, i)
       PROVE  TypeInv'
  <2>1. ExecutorsOK'
    BY <1>15, NextPosition, BecomeAfterStore DEF StoreRecord
  <2>2. DOMAIN rows' = Runs /\ \A r \in Runs : rows'[r] \in [Positions(r) -> Nat]
    BY <1>15, NextPosition, InsertRowType DEF StoreRecord
  <2> QED
    BY <1>15, <2>1, <2>2 DEF StoreRecord, TypeInv, Positions
<1>16. ASSUME NEW w \in Executors, NEW i \in ex[w].left, StoreRecordAuditFails(w, i)
       PROVE  TypeInv'
  <2>1. ExecutorsOK'
    BY <1>16, NextPosition, BecomeAfterStore DEF StoreRecordAuditFails
  <2>2. DOMAIN rows' = Runs /\ \A r \in Runs : rows'[r] \in [Positions(r) -> Nat]
    BY <1>16, NextPosition, InsertRowType DEF StoreRecordAuditFails
  <2>3. faults' \in 0..MaxFaults
    BY <1>16, FaultType DEF StoreRecordAuditFails
  <2> QED
    BY <1>16, <2>1, <2>2, <2>3 DEF StoreRecordAuditFails, TypeInv, Positions
<1>17. ASSUME NEW w \in Executors, NEW i \in ex[w].left, StoreRecordFails(w, i)
       PROVE  TypeInv'
  <2>1. ExecutorsOK'
    BY <1>17, NextPosition, BecomeAfterFailure DEF StoreRecordFails
  <2>2. faults' \in 0..MaxFaults
    BY <1>17, FaultType DEF StoreRecordFails
  <2> QED
    BY <1>17, <2>1, <2>2 DEF StoreRecordFails, TypeInv, Positions
<1>18. ASSUME NEW w \in Executors, AdvanceCursor(w) PROVE TypeInv'
  <2>1. ex[w].pc # "idle"
    BY <1>18 DEF AdvanceCursor, RecordsDone
  <2>2. ExecutorsOK'
    BY <1>18, <2>1, BusyType, GotoType DEF AdvanceCursor, PCs, DirectPCs
  <2>3. cursor' \in [Pipelines -> Cursors] /\ moved' \in SUBSET Runs
    BY <1>18, <2>1, BusyType DEF AdvanceCursor, TypeInv, ExecutorLocals
  <2> QED
    BY <1>18, <2>2, <2>3 DEF AdvanceCursor, TypeInv, Positions
<1>19. ASSUME NEW w \in Executors, KeepCursor(w) PROVE TypeInv'
  <2>1. ExecutorsOK'
    BY <1>19, BusyType, GotoType DEF KeepCursor, RecordsDone, PCs, DirectPCs
  <2> QED
    BY <1>19, <2>1 DEF KeepCursor, TypeInv, Positions
<1>20. ASSUME NEW w \in Executors, FinishRun(w) PROVE TypeInv'
  <2>1. ex[w].run \in Runs /\ ex[w] \in ExecutorLocals
    BY <1>20, BusyType DEF FinishRun
  <2>2. Outcome(ex[w]) \in SyncRunRows
    BY <2>1, RequestType DEF Outcome, SyncRunRows, RunStatus, ExecutorLocals
  <2>3. run' \in [Runs -> SyncRunRows]
    BY <1>20, <2>2 DEF FinishRun, TypeInv
  <2>4. ExecutorsOK'
    BY <1>20, BusyType, GotoType, ReleaseType DEF FinishRun, PCs, DirectPCs
  <2> QED
    BY <1>20, <2>3, <2>4 DEF FinishRun, TypeInv, Positions
<1>21. ASSUME NEW w \in Executors, FinishJob(w) PROVE TypeInv'
  <2>1. ExecutorsOK'
    BY <1>21, BusyType, GotoType DEF FinishJob, PCs, DirectPCs
  <2>2. job' \in [Runs -> JobStatus]
    BY <1>21 DEF FinishJob, TypeInv, JobStatus
  <2> QED
    BY <1>21, <2>1, <2>2 DEF FinishJob, TypeInv, Positions
<1>22. ASSUME NEW w \in Executors, Return(w) PROVE TypeInv'
  <2>1. ex[w].run \in Runs
    BY <1>22, BusyType DEF Return
  <2>2. [bull[ex[w].run] EXCEPT !.state = "completed", !.made = bull[ex[w].run].made + 1]
          \in BullJobs
    <3>1. /\ bull[ex[w].run] \in BullJobs /\ bull[ex[w].run].made + 1 \in Nat
          /\ "completed" \in BullStates
      BY <2>1 DEF TypeInv, BullJobs, BullStates
    <3> QED
      BY <3>1, BullJobType
  <2>3. bull' \in [Runs -> BullJobs]
    BY <1>22, <2>1, <2>2, BullType DEF Return
  <2>4. ExecutorsOK'
    BY <1>22, ReleaseType DEF Return
  <2> QED
    BY <1>22, <2>3, <2>4 DEF Return, TypeInv, Positions
<1>23. ASSUME NEW w \in Executors, CatchRun(w) PROVE TypeInv'
  <2>1. ExecutorsOK'
    BY <1>23, BusyType, GotoType DEF CatchRun, PCs, DirectPCs
  <2>2. run' \in [Runs -> SyncRunRows]
    BY <1>23 DEF CatchRun, TypeInv, SyncRunRows, RunStatus
  <2> QED
    BY <1>23, <2>1, <2>2 DEF CatchRun, TypeInv, Positions
<1>24. ASSUME NEW w \in Executors, CatchJob(w) PROVE TypeInv'
  <2>1. ExecutorsOK'
    BY <1>24, BusyType, GotoType DEF CatchJob, PCs, DirectPCs
  <2>2. job' \in [Runs -> JobStatus]
    BY <1>24 DEF CatchJob, TypeInv, JobStatus
  <2> QED
    BY <1>24, <2>1, <2>2 DEF CatchJob, TypeInv, Positions
<1>25. ASSUME NEW w \in Executors, Rethrow(w) PROVE TypeInv'
  <2> DEFINE r == ex[w].run
             next == IF bull[r].made + 1 < MaxAttempts THEN "delayed" ELSE "failed"
  <2>1. r \in Runs
    BY <1>25, BusyType DEF Rethrow
  <2>2. [bull[r] EXCEPT !.made = bull[r].made + 1, !.state = next] \in BullJobs
    <3>1. next \in BullStates
      BY DEF BullStates
    <3> HIDE DEF next
    <3> QED
      <4>1. bull[r] \in BullJobs /\ bull[r].made + 1 \in Nat
        BY <2>1 DEF TypeInv, BullJobs
      <4> QED
        BY <3>1, <4>1, BullJobType
  <2>3. bull' \in [Runs -> BullJobs]
    BY <1>25, <2>1, <2>2, BullType DEF Rethrow
  <2>4. ExecutorsOK'
    BY <1>25, ReleaseType DEF Rethrow
  <2> QED
    BY <1>25, <2>3, <2>4 DEF Rethrow, TypeInv, Positions
<1>26. ASSUME NEW w \in Executors, Throw(w) PROVE TypeInv'
  <2>1. ex[w].pc # "idle"
    BY <1>26, AwaitsIsBusy DEF Throw
  <2>2. ExecutorsOK'
    BY <1>26, <2>1, BusyType, GotoType, ReleaseType DEF Throw, PCs, DirectPCs
  <2>3. faults' \in 0..MaxFaults
    BY <1>26, FaultType DEF Throw
  <2> QED
    BY <1>26, <2>2, <2>3 DEF Throw, TypeInv, Positions
<1>27. ASSUME NEW w \in Executors, Crash(w) PROVE TypeInv'
  <2>1. ExecutorsOK' /\ faults' \in 0..MaxFaults
    BY <1>27, ReleaseType, FaultType DEF Crash
  <2> QED
    BY <1>27, <2>1 DEF Crash, TypeInv, Positions
<1>28. ASSUME UNCHANGED vars PROVE TypeInv'
  BY <1>28 DEF vars, TypeInv, ExecutorsOK, LeftOK, Positions
<1> QED
  BY <1>1, <1>2, <1>3, <1>4, <1>5, <1>6, <1>7, <1>8, <1>9, <1>10, <1>11, <1>12, <1>13,
     <1>14, <1>15, <1>16, <1>17, <1>18, <1>19, <1>20, <1>21, <1>22, <1>23, <1>24,
     <1>25, <1>26, <1>27, <1>28
  DEF Next, ApiStep, ExecutorStep, ProcessRecord, ExecutorFault

\* Every reachable state is well typed, in every instance.
THEOREM TypeCorrect == Spec => []TypeOK
<1>1. Spec => []TypeInv
  BY TypeInit, TypeStep, PTL DEF Spec
<1> QED
  BY <1>1, TypeInvImpliesTypeOK, PTL

-------------------------------------------------------------------------------
(***************************************************************************)
(* What the steps do to the queue: who holds a run, the BullMQ job and the *)
(* number of deliveries.                                                   *)
(***************************************************************************)
Queues == <<api, bull, deliveries>>

SameHolders == \A v \in Executors : ex'[v].run = ex[v].run

Releases(w) ==
  /\ ex'[w].run = NoRun
  /\ \A v \in Executors \ {w} : ex'[v].run = ex[v].run

Takes(w, r) ==
  /\ ex[w].run = NoRun /\ ex'[w].run = r
  /\ \A v \in Executors \ {w} : ex'[v].run = ex[v].run
  /\ deliveries' = [deliveries EXCEPT ![r] = @ + 1]

LEMMA GotoHolders ==
  ASSUME TypeInv, NEW w \in Executors, NEW pc, ex[w].pc # "idle", Goto(w, pc)
  PROVE  SameHolders
BY BusyType DEF Goto, Become, SameHolders, TypeInv, ExecutorsOK, ExecutorLocals

LEMMA ReleaseHolders ==
  ASSUME TypeInv, NEW w \in Executors, Release(w)
  PROVE  Releases(w)
BY DEF Release, Become, Releases, Idle, TypeInv, ExecutorsOK

LEMMA RunHolders ==
  ASSUME TypeInv, NEW w \in Executors, NEW e, e.run = ex[w].run, Become(w, e)
  PROVE  SameHolders
BY DEF Become, SameHolders, TypeInv, ExecutorsOK

LEMMA TakeHolders ==
  ASSUME TypeInv, NEW w \in Executors, NEW r \in Runs, NEW e, e.run = r,
         ex[w].pc = "idle", Become(w, e), deliveries' = [deliveries EXCEPT ![r] = @ + 1]
  PROVE  Takes(w, r)
BY DEF Become, Takes, TypeInv, ExecutorsOK, ExecutorType

\* Every step, by its effect on the queue.
LEMMA QueueSteps ==
  ASSUME TypeInv, [Next]_vars
  PROVE  \/ SameHolders /\ UNCHANGED Queues
         \/ \E w \in Executors : Releases(w) /\ UNCHANGED Queues
         \/ \E r \in Runs : QueueRun(r) \/ CreateJob(r) \/ EnqueueJob(r)
              \/ RequestFails(r) \/ Backoff(r) \/ Stalled(r)
         \/ \E w \in Executors, r \in Runs :
              Takes(w, r) /\ (Deliver(w, r) \/ StartNow(w, r))
         \/ \E w \in Executors : Releases(w) /\ (Return(w) \/ Rethrow(w))
<1> DEFINE Same == SameHolders /\ UNCHANGED Queues
<1>1. ASSUME NEW w \in Executors, NEW r \in Runs, Deliver(w, r)
      PROVE  Takes(w, r)
  <2>1. [Idle EXCEPT !.pc = "load", !.run = r].run = r
    BY DEF Idle
  <2> QED
    BY <1>1, <2>1, TakeHolders DEF Deliver
<1>2. ASSUME NEW w \in Executors, NEW r \in Runs, StartNow(w, r)
      PROVE  Takes(w, r)
  <2>1. [Idle EXCEPT !.pc = "createRun", !.run = r, !.base = cursor[PipelineOf(r)]].run = r
    BY DEF Idle
  <2> QED
    BY <1>2, <2>1, TakeHolders DEF StartNow
<1>3. ASSUME NEW w \in Executors,
             \/ CreateRunNow(w) \/ MarkJobProcessing(w) \/ MarkRunRunning(w)
             \/ AdvanceCursor(w) \/ KeepCursor(w) \/ FinishJob(w)
             \/ CatchRun(w) \/ CatchJob(w)
      PROVE  Same
  <2>1. ex[w].pc # "idle" /\ UNCHANGED Queues /\ \E pc \in PCs : Goto(w, pc)
    BY <1>3 DEF CreateRunNow, MarkJobProcessing, MarkRunRunning, AdvanceCursor,
      KeepCursor, RecordsDone, FinishJob, CatchRun, CatchJob, Queues, PCs
  <2> QED
    BY <2>1, GotoHolders
<1>4. ASSUME NEW w \in Executors, Load(w) \/ BeginRecords(w) PROVE Same
  <2>1. CASE Load(w)
    <3> DEFINE e == [ex[w] EXCEPT !.pc = "markJob", !.base = cursor[PipelineOf(ex[w].run)]]
    <3>1. e.run = ex[w].run
      BY <2>1, BusyType DEF Load, ExecutorLocals
    <3> QED
      BY <2>1, <3>1, RunHolders DEF Load, Queues
  <2>2. CASE BeginRecords(w)
    <3> DEFINE e == [ex[w] EXCEPT !.pc = "records",
                                  !.left = EligibleRecords(ex[w].run, ex[w].base)]
    <3>1. e.run = ex[w].run
      BY <2>2, BusyType DEF BeginRecords, ExecutorLocals
    <3> QED
      BY <2>2, <3>1, RunHolders DEF BeginRecords, Queues
  <2> QED
    BY <1>4, <2>1, <2>2
<1>5. ASSUME NEW w \in Executors, NEW i \in ex[w].left,
             RejectRecord(w, i) \/ StoreRecordFails(w, i)
      PROVE  Same
  <2>1. ex[w].pc = "records" /\ Become(w, AfterFailure(ex[w], i)) /\ UNCHANGED Queues
    BY <1>5 DEF RejectRecord, StoreRecordFails, IsNext, Queues
  <2>2. AfterFailure(ex[w], i).run = ex[w].run
    BY <2>1, BusyType, AfterFailureType
  <2> QED
    BY <2>1, <2>2, RunHolders
<1>6. ASSUME NEW w \in Executors, NEW i \in ex[w].left,
             StoreRecord(w, i) \/ StoreRecordAuditFails(w, i)
      PROVE  Same
  <2>1. PICK k \in {0, 1} :
          IsNext(w, i) /\ Become(w, AfterStore(ex[w], i, k)) /\ UNCHANGED Queues
    BY <1>6 DEF StoreRecord, StoreRecordAuditFails, Queues
  <2>2. ex[w].pc = "records" /\ i \in Positions(ex[w].run)
    BY <2>1, NextPosition
  <2>3. AfterStore(ex[w], i, k).run = ex[w].run
    BY <2>2, AfterStoreType
  <2> QED
    BY <2>1, <2>3, RunHolders
<1>7. ASSUME NEW w \in Executors, FinishRun(w) \/ Throw(w) \/ Crash(w)
      PROVE  Same \/ (Releases(w) /\ UNCHANGED Queues)
  <2>1. ex[w].pc # "idle" /\ UNCHANGED Queues /\ (Release(w) \/ \E pc \in PCs : Goto(w, pc))
    BY <1>7, AwaitsIsBusy DEF FinishRun, Throw, Crash, Queues, PCs
  <2> QED
    BY <2>1, GotoHolders, ReleaseHolders
<1>8. ASSUME NEW w \in Executors, Return(w) \/ Rethrow(w) PROVE Releases(w)
  BY <1>8, ReleaseHolders DEF Return, Rethrow
<1>9. UNCHANGED vars => Same
  BY DEF vars, SameHolders, Queues
<1> QED
  BY <1>1, <1>2, <1>3, <1>4, <1>5, <1>6, <1>7, <1>8, <1>9
  DEF Next, ApiStep, ExecutorStep, ProcessRecord, ExecutorFault

-------------------------------------------------------------------------------
(***************************************************************************)
(* The queue: a run has one holder, and its deliveries are accounted for   *)
(* by the attempts made, the stalls tolerated and the one in progress.     *)
(***************************************************************************)
OneHolder ==
  \A w, v \in Executors : ex[w].run # NoRun /\ ex[w].run = ex[v].run => w = v

HoldersAreActive ==
  \A w \in Executors : ex[w].run # NoRun =>
    IF Async THEN bull[ex[w].run].state = "active" ELSE api[ex[w].run] = "done"

BullAccount(r) ==
  LET b == bull[r] IN
  /\ b.stalled <= MaxStalled
  /\ b.state = "absent" => b.made = 0 /\ b.stalled = 0 /\ deliveries[r] = 0
  /\ b.state \in {"waiting", "delayed"} =>
       b.made < MaxAttempts /\ deliveries[r] = b.made + b.stalled
  /\ b.state = "active" =>
       b.made < MaxAttempts /\ deliveries[r] = b.made + b.stalled + 1
  /\ api[r] # "done" => b.state = "absent"

DirectAccount(r) ==
  /\ bull[r].state = "absent" /\ api[r] \in {"idle", "done"}
  /\ deliveries[r] = IF api[r] = "done" THEN 1 ELSE 0

QueueInv ==
  /\ OneHolder
  /\ HoldersAreActive
  /\ \A r \in Runs : deliveries[r] <= MaxAttempts + MaxStalled
  /\ \A r \in Runs : IF Async THEN BullAccount(r) ELSE DirectAccount(r)

LEMMA QueueInit == Init => QueueInv
BY ConstantsAssumption
DEF Init, QueueInv, OneHolder, HoldersAreActive, BullAccount, DirectAccount, Idle, NoJob

LEMMA QueueStep == TypeInv /\ TypeInv' /\ QueueInv /\ [Next]_vars => QueueInv'
<1> SUFFICES ASSUME TypeInv, TypeInv', QueueInv, [Next]_vars PROVE QueueInv'
  OBVIOUS
<1>a. /\ bull \in [Runs -> BullJobs] /\ deliveries \in [Runs -> Nat]
      /\ api \in [Runs -> ApiSteps]
  BY DEF TypeInv
<1>b. MaxAttempts \in Nat \ {0} /\ MaxStalled \in Nat /\ NoRun \notin Runs
  BY ConstantsAssumption
<1>c. \A w \in Executors : ex[w].run \in Runs \cup {NoRun}
  BY DEF TypeInv, ExecutorsOK, ExecutorType, ExecutorLocals
<1>1. CASE SameHolders /\ UNCHANGED Queues
  BY <1>1, <1>c DEF SameHolders, Queues, QueueInv, OneHolder, HoldersAreActive,
     BullAccount, DirectAccount, Async
<1>2. ASSUME NEW w \in Executors, Releases(w), UNCHANGED Queues PROVE QueueInv'
  BY <1>2, <1>c DEF Releases, Queues, QueueInv, OneHolder, HoldersAreActive,
     BullAccount, DirectAccount, Async
<1>3. ASSUME NEW r \in Runs, QueueRun(r) \/ CreateJob(r) \/ RequestFails(r)
      PROVE  QueueInv'
  <2>1. /\ UNCHANGED <<ex, bull, deliveries>> /\ api[r] # "done"
        /\ \E step \in {"runCreated", "jobCreated", "failed"} : api' = [api EXCEPT ![r] = step]
        /\ api[r] = "idle" => Async
    BY <1>3 DEF QueueRun, CreateJob, RequestFails
  <2>2. Async
    BY <1>3, <1>a DEF QueueRun, CreateJob, RequestFails, QueueInv, DirectAccount
  <2>3. OneHolder' /\ HoldersAreActive'
    BY <2>1, <2>2 DEF QueueInv, OneHolder, HoldersAreActive, Async
  <2>4. \A s \in Runs : BullAccount(s)'
    BY <2>1, <2>2, <1>a DEF QueueInv, BullAccount, ApiSteps
  <2> QED
    BY <2>1, <2>2, <2>3, <2>4 DEF QueueInv, Async
<1>4. ASSUME NEW r \in Runs, EnqueueJob(r) PROVE QueueInv'
  <2>1. /\ UNCHANGED <<ex, deliveries>> /\ api[r] = "jobCreated"
        /\ api' = [api EXCEPT ![r] = "done"]
        /\ bull' = [bull EXCEPT ![r].state = "waiting"]
    BY <1>4 DEF EnqueueJob
  <2>2. Async /\ bull[r].state = "absent"
    BY <2>1 DEF QueueInv, DirectAccount, BullAccount
  <2>3. OneHolder' /\ HoldersAreActive'
    BY <2>1, <2>2, <1>a, <1>c DEF QueueInv, OneHolder, HoldersAreActive, Async, BullJobs
  <2>4. \A s \in Runs : BullAccount(s)'
    BY <2>1, <2>2, <1>a, <1>b DEF QueueInv, BullAccount, BullJobs
  <2> QED
    BY <2>1, <2>2, <2>3, <2>4 DEF QueueInv, Async
<1>5. ASSUME NEW r \in Runs, Backoff(r) PROVE QueueInv'
  <2>1. /\ UNCHANGED <<ex, deliveries, api>> /\ bull[r].state = "delayed"
        /\ bull' = [bull EXCEPT ![r].state = "waiting"]
    BY <1>5 DEF Backoff
  <2>2. Async
    BY <2>1 DEF QueueInv, DirectAccount
  <2>3. OneHolder' /\ HoldersAreActive'
    BY <2>1, <2>2, <1>a, <1>c DEF QueueInv, OneHolder, HoldersAreActive, Async, BullJobs
  <2>4. \A s \in Runs : BullAccount(s)'
    BY <2>1, <2>2, <1>a, <1>b DEF QueueInv, BullAccount, BullJobs
  <2> QED
    BY <2>1, <2>2, <2>3, <2>4 DEF QueueInv, Async
<1>6. ASSUME NEW r \in Runs, Stalled(r) PROVE QueueInv'
  <2>1. /\ UNCHANGED <<ex, deliveries, api>> /\ bull[r].state = "active"
        /\ \A w \in Executors : ex[w].run # r
    BY <1>6 DEF Stalled, Held
  <2>2. Async
    BY <2>1 DEF QueueInv, DirectAccount
  <2>3. /\ \A s \in Runs \ {r} : bull'[s] = bull[s]
        /\ bull'[r].state \in {"waiting", "failed"} /\ bull'[r].made = bull[r].made
        /\ bull'[r].stalled <= MaxStalled
        /\ bull'[r].state = "waiting" => bull'[r].stalled = bull[r].stalled + 1
    BY <1>6, <2>2, <1>a, <1>b DEF Stalled, QueueInv, BullAccount, BullJobs
  <2>4. OneHolder' /\ HoldersAreActive'
    BY <2>1, <2>2, <2>3, <1>c DEF QueueInv, OneHolder, HoldersAreActive, Async
  <2>5. \A s \in Runs : BullAccount(s)'
    BY <2>1, <2>2, <2>3, <1>a, <1>b DEF QueueInv, BullAccount, BullJobs
  <2> QED
    BY <2>1, <2>2, <2>4, <2>5 DEF QueueInv, Async
<1>7. ASSUME NEW w \in Executors, NEW r \in Runs, Takes(w, r), Deliver(w, r)
      PROVE  QueueInv'
  <2>1. /\ UNCHANGED api /\ bull[r].state = "waiting"
        /\ bull' = [bull EXCEPT ![r].state = "active"]
        /\ deliveries' = [deliveries EXCEPT ![r] = @ + 1]
    BY <1>7 DEF Deliver
  <2>2. Async
    BY <2>1 DEF QueueInv, DirectAccount
  <2>3. \A v \in Executors : ex[v].run # r
    BY <2>1, <2>2, <1>b DEF QueueInv, HoldersAreActive
  <2>4. OneHolder' /\ HoldersAreActive'
    BY <1>7, <2>1, <2>2, <2>3, <1>a, <1>b, <1>c
    DEF Takes, QueueInv, OneHolder, HoldersAreActive, Async, BullJobs
  <2>5. \A s \in Runs : BullAccount(s)'
    BY <2>1, <2>2, <1>a, <1>b DEF QueueInv, BullAccount, BullJobs
  <2>6. \A s \in Runs : deliveries'[s] <= MaxAttempts + MaxStalled
    BY <2>1, <2>2, <1>a, <1>b DEF QueueInv, BullAccount, BullJobs
  <2> QED
    BY <2>2, <2>4, <2>5, <2>6 DEF QueueInv, Async
<1>8. ASSUME NEW w \in Executors, NEW r \in Runs, Takes(w, r), StartNow(w, r)
      PROVE  QueueInv'
  <2>1. /\ ~Async /\ api[r] = "idle" /\ api' = [api EXCEPT ![r] = "done"]
        /\ deliveries' = [deliveries EXCEPT ![r] = @ + 1] /\ UNCHANGED bull
    BY <1>8 DEF StartNow
  <2>2. \A v \in Executors : ex[v].run # r
    BY <2>1, <1>b DEF QueueInv, HoldersAreActive
  <2>3. OneHolder' /\ HoldersAreActive'
    BY <1>8, <2>1, <2>2, <1>a, <1>b, <1>c
    DEF Takes, QueueInv, OneHolder, HoldersAreActive, Async
  <2>4. \A s \in Runs : DirectAccount(s)' /\ deliveries'[s] <= MaxAttempts + MaxStalled
    BY <2>1, <1>a, <1>b DEF QueueInv, DirectAccount
  <2> QED
    BY <2>1, <2>3, <2>4 DEF QueueInv, Async
<1>9. ASSUME NEW w \in Executors, Releases(w), Return(w) \/ Rethrow(w)
      PROVE  QueueInv'
  <2> DEFINE r == ex[w].run
  <2>1. r \in Runs /\ UNCHANGED <<api, deliveries>>
    BY <1>9, BusyType DEF Return, Rethrow
  <2>2. /\ \A s \in Runs \ {r} : bull'[s] = bull[s]
        /\ bull'[r].state \in {"completed", "failed", "delayed"}
        /\ bull'[r].made = bull[r].made + 1 /\ bull'[r].stalled = bull[r].stalled
        /\ bull'[r].state = "delayed" => bull[r].made + 1 < MaxAttempts
    <3>1. PICK state \in {"completed", "failed", "delayed"} :
            /\ bull' = [bull EXCEPT ![r] = [bull[r] EXCEPT !.made = bull[r].made + 1,
                                                          !.state = state]]
            /\ state = "delayed" => bull[r].made + 1 < MaxAttempts
      <4>1. CASE Return(w)
        <5>1. [bull[r] EXCEPT !.state = "completed", !.made = bull[r].made + 1]
                = [bull[r] EXCEPT !.made = bull[r].made + 1, !.state = "completed"]
          BY <2>1, <1>a DEF BullJobs
        <5> QED
          BY <4>1, <5>1 DEF Return
      <4>2. CASE Rethrow(w)
        BY <4>2 DEF Rethrow
      <4> QED
        BY <1>9, <4>1, <4>2
    <3>2. bull[r] \in BullJobs
      BY <2>1, <1>a
    <3> QED
      BY <2>1, <1>a, <3>1, <3>2 DEF BullJobs
  <2>3. Async
    BY <1>9, BusyType DEF Return, Rethrow, DirectPCs
  <2>4. bull[r].state = "active" /\ \A v \in Executors : v # w => ex[v].run # r
    BY <2>1, <2>3, <1>b DEF QueueInv, OneHolder, HoldersAreActive
  <2>5. OneHolder' /\ HoldersAreActive'
    BY <1>9, <2>1, <2>2, <2>3, <2>4, <1>b, <1>c
    DEF Releases, QueueInv, OneHolder, HoldersAreActive, Async
  <2>6. \A s \in Runs : BullAccount(s)'
    BY <2>1, <2>2, <2>3, <2>4, <1>a, <1>b DEF QueueInv, BullAccount, BullJobs
  <2> QED
    BY <2>1, <2>3, <2>5, <2>6 DEF QueueInv, Async
<1> QED
  BY QueueSteps, <1>1, <1>2, <1>3, <1>4, <1>5, <1>6, <1>7, <1>8, <1>9

-------------------------------------------------------------------------------
(***************************************************************************)
(* What the steps do to the data: rows, cursors and the executors' locals. *)
(***************************************************************************)
Early == {"load", "createRun", "markJob", "markRun", "begin"}
Late == {"finishJob", "report", "catchRun", "catchJob", "rethrow", "idle"}

OnlyExecutor(w) == \A v \in Executors \ {w} : ex'[v] = ex[v]
Keeps(w) == /\ ex'[w].run = ex[w].run
            /\ ex'[w].base = ex[w].base
            /\ ex'[w].maxCursor = ex[w].maxCursor
NoNewSuccess == \A r \in Runs : run'[r].status = "SUCCESS" => run[r].status = "SUCCESS"
SameData == UNCHANGED <<rows, cursor, deliveries>> /\ NoNewSuccess

Quiet == UNCHANGED ex /\ SameData

Starting(w, r) ==
  /\ OnlyExecutor(w) /\ ex[w].pc = "idle"
  /\ ex'[w].pc \in Early /\ ex'[w].run = r
  /\ \/ ex'[w].pc = "load" /\ ex'[w].base = NoCursor
     \/ ex'[w].base = cursor[PipelineOf(r)]
  /\ ex'[w].maxCursor = NoCursor
  /\ deliveries' = [deliveries EXCEPT ![r] = @ + 1]
  /\ UNCHANGED <<rows, cursor>> /\ NoNewSuccess

Preparing(w) ==
  /\ OnlyExecutor(w) /\ ex[w].pc \in Early /\ ex'[w].pc \in Early
  /\ ex'[w].run = ex[w].run /\ ex'[w].maxCursor = ex[w].maxCursor
  /\ ex'[w].pc # "load"
  /\ \/ ex[w].pc # "load" /\ ex'[w].base = ex[w].base
     \/ ex'[w].base = cursor[PipelineOf(ex[w].run)]
  /\ SameData

Beginning(w) ==
  /\ OnlyExecutor(w) /\ ex[w].pc = "begin" /\ ex'[w].pc = "records" /\ Keeps(w)
  /\ ex'[w].left = EligibleRecords(ex[w].run, ex[w].base)
  /\ SameData

Dropping(w, i) ==
  /\ OnlyExecutor(w) /\ ex[w].pc = "records" /\ ex'[w].pc = "records" /\ Keeps(w)
  /\ ex'[w].left = ex[w].left \ {i} /\ ex'[w].failed = ex[w].failed + 1
  /\ SameData

Storing(w, i) ==
  /\ OnlyExecutor(w) /\ ex[w].pc = "records" /\ ex'[w].pc = "records"
  /\ i \in ex[w].left /\ i \in Positions(ex[w].run)
  /\ ex'[w].run = ex[w].run /\ ex'[w].base = ex[w].base
  /\ ex'[w].left = ex[w].left \ {i} /\ ex'[w].failed >= ex[w].failed
  /\ ex'[w].maxCursor \in {ex[w].maxCursor, Record(ex[w].run, i).candidate}
  /\ InsertRow(ex[w].run, i)
  /\ UNCHANGED <<cursor, deliveries>> /\ NoNewSuccess

Closing(w) ==
  /\ OnlyExecutor(w) /\ ex[w].pc = "records" /\ ex[w].left = {}
  /\ ex'[w].pc = "finishRun" /\ Keeps(w) /\ ex'[w].failed = ex[w].failed
  /\ \/ UNCHANGED cursor
     \/ MovesCursor(ex[w])
        /\ cursor' = [cursor EXCEPT ![PipelineOf(ex[w].run)] = ex[w].maxCursor]
  /\ UNCHANGED <<rows, deliveries>> /\ NoNewSuccess

Finishing(w) ==
  /\ OnlyExecutor(w) /\ ex[w].pc = "finishRun" /\ ex'[w].pc \in Late
  /\ Keeps(w) \/ ex'[w] = Idle
  /\ \A r \in Runs : run'[r].status = "SUCCESS" =>
       run[r].status = "SUCCESS" \/ (r = ex[w].run /\ ex[w].failed = 0)
  /\ UNCHANGED <<rows, cursor, deliveries>>

Leaving(w) ==
  /\ OnlyExecutor(w) /\ ex'[w].pc \in Late
  /\ Keeps(w) \/ ex'[w] = Idle
  /\ SameData

LEMMA BecomeLocals ==
  ASSUME TypeInv, NEW w \in Executors, NEW e, Become(w, e)
  PROVE  OnlyExecutor(w) /\ ex'[w] = e
BY DEF Become, OnlyExecutor, TypeInv, ExecutorsOK

LEMMA GotoLocals ==
  ASSUME TypeInv, NEW w \in Executors, NEW pc, ex[w].pc # "idle", Goto(w, pc)
  PROVE  /\ OnlyExecutor(w) /\ Keeps(w)
         /\ ex'[w].pc = pc /\ ex'[w].left = ex[w].left /\ ex'[w].failed = ex[w].failed
<1>1. OnlyExecutor(w) /\ ex'[w] = [ex[w] EXCEPT !.pc = pc]
  BY BecomeLocals DEF Goto
<1> QED
  BY <1>1, BusyType DEF Keeps, ExecutorLocals

LEMMA ReleaseLocals ==
  ASSUME TypeInv, NEW w \in Executors, Release(w)
  PROVE  OnlyExecutor(w) /\ ex'[w] = Idle /\ ex'[w].pc = "idle"
BY BecomeLocals DEF Release, Idle

LEMMA RunTypes == ASSUME TypeInv PROVE run \in [Runs -> SyncRunRows]
BY DEF TypeInv

\* Every step, by its effect on the data.
LEMMA DataSteps ==
  ASSUME TypeInv, [Next]_vars
  PROVE  /\ UNCHANGED request
         /\ \/ Quiet
            \/ \E w \in Executors, r \in Runs : Starting(w, r)
            \/ \E w \in Executors : Preparing(w) \/ Beginning(w) \/ Closing(w)
                                      \/ Finishing(w) \/ Leaving(w)
            \/ \E w \in Executors : \E i \in ex[w].left : Dropping(w, i) \/ Storing(w, i)
<1>0. UNCHANGED request
  BY DEF Next, vars, QueueRun, ApiStep, CreateJob, EnqueueJob, RequestFails, Backoff,
     Stalled, Deliver, StartNow, ExecutorStep, ProcessRecord, CreateRunNow, Load,
     MarkJobProcessing, MarkRunRunning, BeginRecords, RejectRecord, StoreRecord,
     AdvanceCursor, KeepCursor, FinishRun, FinishJob, Return, CatchRun, CatchJob,
     Rethrow, ExecutorFault, Throw, Crash, StoreRecordAuditFails, StoreRecordFails
<1>1. ASSUME NEW r \in Runs,
             \/ QueueRun(r) \/ ApiStep(r) \/ RequestFails(r) \/ Backoff(r) \/ Stalled(r)
      PROVE  Quiet
  <2>1. UNCHANGED <<ex, rows, cursor, deliveries>>
    BY <1>1 DEF QueueRun, ApiStep, CreateJob, EnqueueJob, RequestFails, Backoff, Stalled
  <2>2. UNCHANGED run \/ run' = [run EXCEPT ![r] = NewRun("QUEUED")]
    BY <1>1 DEF QueueRun, ApiStep, CreateJob, EnqueueJob, RequestFails, Backoff, Stalled
  <2>3. NoNewSuccess
    BY <2>2, RunTypes DEF NoNewSuccess, NewRun
  <2> QED
    BY <2>1, <2>3 DEF Quiet, SameData
<1>2. ASSUME NEW w \in Executors, NEW r \in Runs, Deliver(w, r) PROVE Starting(w, r)
  <2> DEFINE e == [Idle EXCEPT !.pc = "load", !.run = r]
  <2>1. /\ e.pc = "load" /\ e.pc \in Early /\ e.run = r /\ e.base = NoCursor /\ e.maxCursor = NoCursor
    BY DEF Idle, Early
  <2>2. OnlyExecutor(w) /\ ex'[w] = e
    BY <1>2, BecomeLocals DEF Deliver
  <2> HIDE DEF e
  <2> QED
    BY <1>2, <2>1, <2>2 DEF Deliver, Starting, NoNewSuccess
<1>3. ASSUME NEW w \in Executors, NEW r \in Runs, StartNow(w, r) PROVE Starting(w, r)
  <2> DEFINE e == [Idle EXCEPT !.pc = "createRun", !.run = r,
                               !.base = cursor[PipelineOf(r)]]
  <2>1. /\ e.pc \in Early /\ e.run = r /\ e.base = cursor[PipelineOf(r)]
        /\ e.maxCursor = NoCursor
    BY DEF Idle, Early
  <2>2. OnlyExecutor(w) /\ ex'[w] = e
    BY <1>3, BecomeLocals DEF StartNow
  <2> HIDE DEF e
  <2> QED
    BY <1>3, <2>1, <2>2 DEF StartNow, Starting, NoNewSuccess
<1>4. ASSUME NEW w \in Executors, CreateRunNow(w) \/ MarkJobProcessing(w) \/ MarkRunRunning(w)
      PROVE  Preparing(w)
  <2>1. /\ ex[w].pc \in Early \ {"load"} /\ ex[w].pc # "idle"
        /\ UNCHANGED <<rows, cursor, deliveries>>
        /\ \E pc \in Early \ {"load"} : Goto(w, pc)
    BY <1>4 DEF CreateRunNow, MarkJobProcessing, MarkRunRunning, Early
  <2>2. NoNewSuccess
    BY <1>4, RunTypes DEF CreateRunNow, MarkJobProcessing, MarkRunRunning, NoNewSuccess,
      NewRun, SyncRunRows
  <2> QED
    BY <2>1, <2>2, GotoLocals DEF Preparing, Keeps, SameData
<1>5. ASSUME NEW w \in Executors, Load(w) PROVE Preparing(w)
  <2> DEFINE e == [ex[w] EXCEPT !.pc = "markJob", !.base = cursor[PipelineOf(ex[w].run)]]
  <2>1. ex[w] \in ExecutorLocals
    BY <1>5, BusyType DEF Load
  <2>2. /\ e.pc = "markJob" /\ e.run = ex[w].run /\ e.maxCursor = ex[w].maxCursor
        /\ e.base = cursor[PipelineOf(ex[w].run)]
    BY <2>1 DEF ExecutorLocals
  <2>3. OnlyExecutor(w) /\ ex'[w] = e
    BY <1>5, BecomeLocals DEF Load
  <2> HIDE DEF e
  <2> QED
    BY <1>5, <2>2, <2>3 DEF Load, Preparing, Early, SameData, NoNewSuccess
<1>6. ASSUME NEW w \in Executors, BeginRecords(w) PROVE Beginning(w)
  <2> DEFINE eligible == EligibleRecords(ex[w].run, ex[w].base)
             e == [ex[w] EXCEPT !.pc = "records", !.left = eligible]
  <2>1. ex[w] \in ExecutorLocals
    BY <1>6, BusyType DEF BeginRecords
  <2>2. OnlyExecutor(w) /\ ex'[w] = e
    BY <1>6, BecomeLocals DEF BeginRecords
  <2> HIDE DEF eligible
  <2>3. /\ e.pc = "records" /\ e.run = ex[w].run /\ e.maxCursor = ex[w].maxCursor
        /\ e.base = ex[w].base /\ e.left = eligible
    BY <2>1 DEF ExecutorLocals
  <2> HIDE DEF e
  <2> QED
    BY <1>6, <2>2, <2>3 DEF BeginRecords, Beginning, Keeps, SameData, NoNewSuccess, eligible
<1>7. ASSUME NEW w \in Executors, NEW i \in ex[w].left,
             RejectRecord(w, i) \/ StoreRecordFails(w, i)
      PROVE  Dropping(w, i)
  <2>1. /\ ex[w].pc = "records" /\ Become(w, AfterFailure(ex[w], i))
        /\ UNCHANGED <<run, rows, cursor, deliveries>>
    BY <1>7 DEF RejectRecord, StoreRecordFails, IsNext
  <2>2. ex[w] \in ExecutorType
    BY <2>1, BusyType
  <2>3. OnlyExecutor(w) /\ ex'[w] = AfterFailure(ex[w], i)
    BY <2>1, BecomeLocals
  <2> QED
    BY <2>1, <2>2, <2>3, AfterFailureType DEF Dropping, Keeps, SameData, NoNewSuccess
<1>8. ASSUME NEW w \in Executors, NEW i \in ex[w].left,
             StoreRecord(w, i) \/ StoreRecordAuditFails(w, i)
      PROVE  Storing(w, i)
  <2>1. PICK k \in {0, 1} :
          /\ IsNext(w, i) /\ Become(w, AfterStore(ex[w], i, k))
          /\ InsertRow(ex[w].run, i) /\ UNCHANGED <<run, cursor, deliveries>>
    BY <1>8 DEF StoreRecord, StoreRecordAuditFails
  <2>2. ex[w].pc = "records" /\ i \in Positions(ex[w].run) /\ ex[w].failed \in Nat
    BY <2>1, NextPosition, BusyType DEF ExecutorLocals
  <2>3. OnlyExecutor(w) /\ ex'[w] = AfterStore(ex[w], i, k)
    BY <2>1, BecomeLocals
  <2>4. /\ ex'[w].pc = "records" /\ ex'[w].run = ex[w].run /\ ex'[w].base = ex[w].base
        /\ ex'[w].left = ex[w].left \ {i} /\ ex'[w].failed = ex[w].failed + k
        /\ ex'[w].maxCursor \in {ex[w].maxCursor, Record(ex[w].run, i).candidate}
    BY <2>2, <2>3, AfterStoreType
  <2>5. ex'[w].failed >= ex[w].failed
    BY <2>2, <2>4
  <2> QED
    BY <2>1, <2>2, <2>3, <2>4, <2>5 DEF Storing, NoNewSuccess
<1>9. ASSUME NEW w \in Executors, AdvanceCursor(w) \/ KeepCursor(w) PROVE Closing(w)
  <2>1. /\ ex[w].pc = "records" /\ ex[w].left = {} /\ Goto(w, "finishRun")
        /\ UNCHANGED <<run, rows, deliveries>>
    BY <1>9 DEF AdvanceCursor, KeepCursor, RecordsDone
  <2>2. \/ UNCHANGED cursor
        \/ MovesCursor(ex[w])
           /\ cursor' = [cursor EXCEPT ![PipelineOf(ex[w].run)] = ex[w].maxCursor]
    BY <1>9 DEF AdvanceCursor, KeepCursor
  <2> QED
    BY <2>1, <2>2, GotoLocals DEF Closing, NoNewSuccess
<1>10. ASSUME NEW w \in Executors, FinishRun(w) PROVE Finishing(w)
  <2>1. /\ ex[w].pc = "finishRun"
        /\ Release(w) \/ Goto(w, "finishJob")
        /\ run' = [run EXCEPT ![ex[w].run] = Outcome(ex[w])]
        /\ UNCHANGED <<rows, cursor, deliveries>>
    BY <1>10 DEF FinishRun
  <2>2. ex[w].failed \in Nat
    BY <2>1, BusyType DEF ExecutorLocals
  <2>3. Outcome(ex[w]).status = "SUCCESS" => ex[w].failed = 0
    BY <2>2 DEF Outcome
  <2>4. OnlyExecutor(w) /\ ex'[w].pc \in Late /\ (Keeps(w) \/ ex'[w] = Idle)
    BY <2>1, GotoLocals, ReleaseLocals DEF Late
  <2> QED
    BY <2>1, <2>3, <2>4, RunTypes DEF Finishing
<1>11. ASSUME NEW w \in Executors,
              \/ FinishJob(w) \/ Return(w) \/ CatchRun(w) \/ CatchJob(w)
              \/ Rethrow(w) \/ Throw(w) \/ Crash(w)
       PROVE  Leaving(w)
  <2>1. /\ ex[w].pc # "idle"
        /\ Release(w) \/ \E pc \in Late : Goto(w, pc)
        /\ UNCHANGED <<rows, cursor, deliveries>>
    BY <1>11, AwaitsIsBusy
    DEF FinishJob, Return, CatchRun, CatchJob, Rethrow, Throw, Crash, Late
  <2>2. NoNewSuccess
    BY <1>11, RunTypes DEF FinishJob, Return, CatchRun, CatchJob, Rethrow, Throw, Crash,
      NoNewSuccess, SyncRunRows
  <2>3. OnlyExecutor(w) /\ ex'[w].pc \in Late /\ (Keeps(w) \/ ex'[w] = Idle)
    BY <2>1, GotoLocals, ReleaseLocals DEF Late
  <2> QED
    BY <2>1, <2>2, <2>3 DEF Leaving, SameData
<1>12. UNCHANGED vars => Quiet
  BY DEF vars, Quiet, SameData, NoNewSuccess
<1> QED
  BY <1>0, <1>1, <1>2, <1>3, <1>4, <1>5, <1>6, <1>7, <1>8, <1>9, <1>10, <1>11, <1>12
  DEF Next, ExecutorStep, ProcessRecord, ExecutorFault

-------------------------------------------------------------------------------
(***************************************************************************)
(* Duplicates.  While a position is still to be processed, its rows were   *)
(* written by earlier deliveries only.                                     *)
(***************************************************************************)
Pending(w) ==
  IF ex[w].pc \in Early THEN Positions(ex[w].run)
  ELSE IF ex[w].pc = "records" THEN ex[w].left ELSE {}

RowsInv ==
  /\ \A r \in Runs : \A i \in Positions(r) : rows[r][i] <= deliveries[r]
  /\ \A w \in Executors : \A i \in Pending(w) :
       rows[ex[w].run][i] < deliveries[ex[w].run]

LEMMA RowsInit == Init => RowsInv
BY DEF Init, RowsInv, Pending, Idle, Early

\* Pending positions are positions of the executor's run.
LEMMA PendingPositions ==
  ASSUME TypeInv, NEW w \in Executors, NEW i \in Pending(w)
  PROVE  /\ ex[w].pc # "idle" /\ ex[w].run \in Runs /\ i \in Positions(ex[w].run)
BY BusyType DEF Pending, Early, TypeInv, ExecutorsOK, LeftOK

LEMMA RowsStep ==
  TypeInv /\ TypeInv' /\ QueueInv /\ RowsInv /\ [Next]_vars => RowsInv'
<1> SUFFICES ASSUME TypeInv, TypeInv', QueueInv, RowsInv, [Next]_vars PROVE RowsInv'
  OBVIOUS
<1>a. /\ DOMAIN rows = Runs /\ \A r \in Runs : rows[r] \in [Positions(r) -> Nat]
      /\ deliveries \in [Runs -> Nat]
      /\ \A r \in Runs : Positions(r)' = Positions(r)
  BY DataSteps DEF TypeInv, Positions
\* Enough: each position pending after the step was pending before it, unless
\* the run was just delivered.
<1>b. ASSUME UNCHANGED <<rows, deliveries>>,
             \A w \in Executors : Pending(w)' # {} =>
               ex'[w].run = ex[w].run /\ Pending(w)' \subseteq Pending(w)
      PROVE  RowsInv'
  BY <1>a, <1>b DEF RowsInv
<1>c. ASSUME NEW w \in Executors, NEW v \in Executors, OnlyExecutor(w), v # w
      PROVE  ex'[v] = ex[v] /\ Pending(v)' = Pending(v)
  BY <1>a, <1>c, DataSteps DEF OnlyExecutor, Pending, Positions
<1>d. ASSUME UNCHANGED <<rows, deliveries>>, NEW w \in Executors, OnlyExecutor(w),
             \/ Pending(w)' = {}
             \/ ex'[w].run = ex[w].run /\ Pending(w)' \subseteq Pending(w)
      PROVE  RowsInv'
  BY <1>b, <1>c, <1>d
<1>1. CASE Quiet
  <2>1. \A w \in Executors : Pending(w)' = Pending(w)
    BY <1>1, DataSteps DEF Quiet, Pending, Positions
  <2> QED
    BY <1>1, <2>1, <1>b DEF Quiet, SameData
<1>2. ASSUME NEW w \in Executors, NEW r \in Runs, Starting(w, r) PROVE RowsInv'
  <2>1. \A s \in Runs : deliveries'[s] >= deliveries[s]
    BY <1>2, <1>a DEF Starting
  <2>2. \A s \in Runs : \A i \in Positions(s) : rows'[s][i] <= deliveries'[s]
    BY <1>2, <1>a, <2>1 DEF Starting, RowsInv
  <2>3. ASSUME NEW v \in Executors, NEW i \in Pending(v)'
        PROVE  rows'[ex'[v].run][i] < deliveries'[ex'[v].run]
    <3>1. CASE v = w
      <4>1. ex'[v].run = r /\ i \in Positions(r)
        BY <1>2, <2>3, <3>1, <1>a, DataSteps DEF Starting, Pending, Positions
      <4> QED
        BY <1>2, <4>1, <1>a DEF Starting, RowsInv
    <3>2. CASE v # w
      <4>1. ex'[v] = ex[v] /\ i \in Pending(v)
        BY <1>2, <1>c, <2>3, <3>2 DEF Starting
      <4>2. ex[v].run \in Runs /\ i \in Positions(ex[v].run)
        BY <4>1, PendingPositions
      <4>3. rows[ex[v].run][i] < deliveries[ex[v].run]
        BY <4>1 DEF RowsInv
      <4> QED
        BY <1>2, <4>1, <4>2, <4>3, <2>1, <1>a DEF Starting
    <3> QED
      BY <3>1, <3>2
  <2> QED
    BY <2>2, <2>3, <1>a DEF RowsInv
<1>3. ASSUME NEW w \in Executors, Preparing(w) PROVE RowsInv'
  <2>1. ex'[w].run = ex[w].run /\ Pending(w)' \subseteq Pending(w)
    BY <1>3, DataSteps DEF Preparing, Pending, Positions
  <2> QED
    BY <1>3, <2>1, <1>d DEF Preparing, SameData
<1>4. ASSUME NEW w \in Executors, Beginning(w) PROVE RowsInv'
  <2>1. ex[w].pc \in Early /\ ex[w].run \in Runs /\ ex'[w].pc = "records"
        /\ ex'[w].pc \notin Early
    BY <1>4, BusyType DEF Beginning, Early
  <2>2. Pending(w)' \subseteq Pending(w)
    BY <1>4, <2>1, EligibleType DEF Beginning, Pending
  <2> QED
    BY <1>4, <2>2, <1>d DEF Beginning, Keeps, SameData
<1>5. ASSUME NEW w \in Executors, Closing(w) \/ Finishing(w) \/ Leaving(w) PROVE RowsInv'
  <2>1. Pending(w)' = {}
    BY <1>5 DEF Closing, Finishing, Leaving, Pending, Early, Late
  <2> QED
    BY <1>5, <2>1, <1>d DEF Closing, Finishing, Leaving, SameData
<1>6. ASSUME NEW w \in Executors, NEW i \in ex[w].left, Dropping(w, i) PROVE RowsInv'
  <2>1. Pending(w)' \subseteq Pending(w)
    BY <1>6 DEF Dropping, Pending, Early
  <2> QED
    BY <1>6, <2>1, <1>d DEF Dropping, Keeps, SameData
<1>7. ASSUME NEW w \in Executors, NEW i \in ex[w].left, Storing(w, i) PROVE RowsInv'
  <2> DEFINE r == ex[w].run
  <2>1. /\ r \in Runs /\ r # NoRun /\ i \in Positions(r) /\ i \in Pending(w)
        /\ Pending(w) = ex[w].left /\ Pending(w)' = ex[w].left \ {i} /\ ex'[w].run = r
    BY <1>7, BusyType, ConstantsAssumption DEF Storing, Pending, Early
  <2>2. /\ DOMAIN rows' = Runs /\ \A s \in Runs \ {r} : rows'[s] = rows[s]
        /\ \A j \in Positions(r) : rows'[r][j] = IF j = i THEN rows[r][j] + 1 ELSE rows[r][j]
    BY <1>7, <2>1, <1>a DEF Storing, InsertRow
  <2>3. rows[r][i] < deliveries[r] /\ UNCHANGED deliveries
    BY <1>7, <2>1 DEF RowsInv, Storing
  <2>4. \A s \in Runs : \A j \in Positions(s) : rows'[s][j] <= deliveries'[s]
    BY <2>1, <2>2, <2>3, <1>a DEF RowsInv
  <2>5. ASSUME NEW v \in Executors, NEW j \in Pending(v)'
        PROVE  rows'[ex'[v].run][j] < deliveries'[ex'[v].run]
    <3>1. CASE v = w
      <4>1. j \in Pending(w) /\ j # i /\ j \in Positions(r)
        BY <2>1, <2>5, <3>1, PendingPositions
      <4> QED
        BY <2>1, <2>2, <2>3, <3>1, <4>1 DEF RowsInv
    <3>2. CASE v # w
      <4>1. ex'[v] = ex[v] /\ j \in Pending(v)
        BY <1>7, <1>c, <2>5, <3>2 DEF Storing
      <4>2. ex[v].run \in Runs /\ ex[v].run # r
        BY <4>1, <3>2, <2>1, PendingPositions DEF QueueInv, OneHolder
      <4> QED
        BY <4>1, <4>2, <2>2, <2>3 DEF RowsInv
    <3> QED
      BY <3>1, <3>2
  <2> QED
    BY <2>4, <2>5, <1>a DEF RowsInv
<1> QED
  BY DataSteps, <1>1, <1>2, <1>3, <1>4, <1>5, <1>6, <1>7

\* However often a run is retried or redelivered, none of its records has more
\* rows than deliveries, and the deliveries are bounded by BullMQ's limits.
THEOREM DuplicatesBounded == Spec => []DuplicatesAreBounded
<1>1. Init => TypeInv /\ QueueInv /\ RowsInv
  BY TypeInit, QueueInit, RowsInit
<1>2. TypeInv /\ QueueInv /\ RowsInv /\ [Next]_vars => (TypeInv /\ QueueInv /\ RowsInv)'
  BY TypeStep, QueueStep, RowsStep
<1>3. TypeInv /\ QueueInv /\ RowsInv => DuplicatesAreBounded
  BY DEF QueueInv, RowsInv, DuplicatesAreBounded
<1> QED
  BY <1>1, <1>2, <1>3, PTL DEF Spec

-------------------------------------------------------------------------------
(***************************************************************************)
(* Loss.  Every cursor in play, stored or held by an executor, comes from  *)
(* a stored record, so what the filter drops is superseded; a run that     *)
(* counts no failure has covered every record outside `left`.              *)
(***************************************************************************)
\* CursorIsBacked and IsStored \/ IsSuperseded, for a given table of rows.
BackedBy(table, p, c) ==
  c # NoCursor => \E r \in Runs : \E i \in Positions(r) :
    PipelineOf(r) = p /\ table[r][i] > 0 /\ Record(r, i).candidate = c

CoveredBy(table, r, i) ==
  \/ table[r][i] > 0
  \/ /\ AppliesCursor(r)
     /\ \E s \in Runs : \E j \in Positions(s) :
          /\ PipelineOf(s) = PipelineOf(r) /\ table[s][j] > 0
          /\ ~ShouldProcessRecord(Record(r, i).candidate, Record(s, j).candidate)

BackedInv ==
  /\ \A p \in Pipelines : BackedBy(rows, p, cursor[p])
  /\ \A w \in Executors : ex[w].run \in Runs =>
       /\ BackedBy(rows, PipelineOf(ex[w].run), ex[w].base)
       /\ BackedBy(rows, PipelineOf(ex[w].run), ex[w].maxCursor)

Unprocessed(w) == IF ex[w].pc = "records" THEN ex[w].left ELSE {}

CoveredInv ==
  /\ \A w \in Executors : ex[w].pc \in {"records", "finishRun"} /\ ex[w].failed = 0 =>
       \A i \in Positions(ex[w].run) : i \in Unprocessed(w) \/ CoveredBy(rows, ex[w].run, i)
  /\ \A r \in Runs : run[r].status = "SUCCESS" =>
       \A i \in Positions(r) : CoveredBy(rows, r, i)

LEMMA BackedInit == Init => BackedInv
BY DEF Init, BackedInv, BackedBy, Idle

LEMMA CoveredInit == Init => CoveredInv
BY DEF Init, CoveredInv, Idle, NewRun

\* No step removes a row or changes a request.
LEMMA StoredStays ==
  ASSUME TypeInv, [Next]_vars
  PROVE  /\ UNCHANGED request
         /\ \A r \in Runs : \A i \in Positions(r) : rows[r][i] > 0 => rows'[r][i] > 0
<1>1. CASE UNCHANGED rows
  BY <1>1, DataSteps
<1>2. ASSUME NEW w \in Executors, NEW i \in ex[w].left, Storing(w, i)
      PROVE  \A r \in Runs : \A j \in Positions(r) : rows[r][j] > 0 => rows'[r][j] > 0
  <2>1. /\ ex[w].run \in Runs /\ i \in Positions(ex[w].run)
        /\ DOMAIN rows = Runs /\ \A r \in Runs : rows[r] \in [Positions(r) -> Nat]
    BY <1>2, BusyType DEF Storing, TypeInv
  <2> QED
    BY <1>2, <2>1 DEF Storing, InsertRow
<1> QED
  BY <1>1, <1>2, DataSteps DEF Quiet, Starting, Preparing, Beginning, Dropping, Closing,
     Finishing, Leaving, SameData

LEMMA BackedStays ==
  ASSUME TypeInv, [Next]_vars, NEW p, NEW c, BackedBy(rows, p, c)
  PROVE  BackedBy(rows', p, c)
BY StoredStays DEF BackedBy

LEMMA CoveredStays ==
  ASSUME TypeInv, [Next]_vars, NEW r \in Runs, NEW i \in Positions(r), CoveredBy(rows, r, i)
  PROVE  CoveredBy(rows', r, i)
BY StoredStays DEF CoveredBy

LEMMA BackedStep == TypeInv /\ TypeInv' /\ BackedInv /\ [Next]_vars => BackedInv'
<1> SUFFICES ASSUME TypeInv, TypeInv', BackedInv, [Next]_vars PROVE BackedInv'
  OBVIOUS
<1> DEFINE Held2(w) == ex'[w].run \in Runs =>
             /\ BackedBy(rows', PipelineOf(ex'[w].run), ex'[w].base)
             /\ BackedBy(rows', PipelineOf(ex'[w].run), ex'[w].maxCursor)
           Stored2 == \A p \in Pipelines : BackedBy(rows', p, cursor'[p])
<1>a. Stored2 /\ (\A w \in Executors : Held2(w)) => BackedInv'
  BY StoredStays DEF BackedInv, BackedBy, PipelineOf, Positions, Record
<1>b. \A p : BackedBy(rows', p, NoCursor)
  BY DEF BackedBy
<1>c. ASSUME UNCHANGED cursor PROVE Stored2
  BY <1>c, BackedStays DEF BackedInv
<1>d. ASSUME NEW w \in Executors, ex'[w].run = ex[w].run, ex'[w].base = ex[w].base,
             ex'[w].maxCursor = ex[w].maxCursor
      PROVE  Held2(w)
  BY <1>d, BackedStays DEF BackedInv
<1>e. ASSUME NEW w \in Executors, OnlyExecutor(w), Held2(w)
      PROVE  \A v \in Executors : Held2(v)
  BY <1>d, <1>e DEF OnlyExecutor
<1>f. ASSUME NEW w \in Executors, Keeps(w) \/ ex'[w] = Idle PROVE Held2(w)
  BY <1>b, <1>d, <1>f, ConstantsAssumption DEF Keeps, Idle
<1>g. \A r \in Runs : PipelineOf(r) \in Pipelines
  BY RequestType
<1> HIDE DEF Held2, Stored2
<1>1. CASE Quiet
  BY <1>1, <1>a, <1>c, <1>d DEF Quiet, SameData
<1>2. ASSUME NEW w \in Executors, NEW r \in Runs, Starting(w, r) PROVE BackedInv'
  <2>1. Held2(w)
    BY <1>2, <1>b, <1>g, BackedStays DEF Starting, BackedInv, Held2
  <2> QED
    BY <1>2, <2>1, <1>a, <1>c, <1>e DEF Starting
<1>3. ASSUME NEW w \in Executors, Preparing(w) PROVE BackedInv'
  <2>1. Held2(w)
    BY <1>3, <1>g, BackedStays DEF Preparing, BackedInv, Held2
  <2> QED
    BY <1>3, <2>1, <1>a, <1>c, <1>e DEF Preparing, SameData
<1>4. ASSUME NEW w \in Executors,
             \/ Beginning(w) \/ Finishing(w) \/ Leaving(w)
             \/ \E i \in ex[w].left : Dropping(w, i)
      PROVE  BackedInv'
  <2>1. OnlyExecutor(w) /\ UNCHANGED cursor /\ (Keeps(w) \/ ex'[w] = Idle)
    BY <1>4 DEF Beginning, Finishing, Leaving, Dropping, SameData
  <2> QED
    BY <2>1, <1>a, <1>c, <1>e, <1>f
<1>5. ASSUME NEW w \in Executors, NEW i \in ex[w].left, Storing(w, i) PROVE BackedInv'
  <2> DEFINE r == ex[w].run
  <2>1. r \in Runs /\ i \in Positions(r)
    BY <1>5, BusyType DEF Storing
  <2>2. rows'[r][i] > 0
    <3>1. DOMAIN rows = Runs /\ rows[r] \in [Positions(r) -> Nat]
      BY <2>1 DEF TypeInv
    <3> QED
      BY <1>5, <2>1, <3>1 DEF Storing, InsertRow
  <2>3. BackedBy(rows', PipelineOf(r), Record(r, i).candidate)
    BY <2>1, <2>2 DEF BackedBy
  <2>4. /\ BackedBy(rows', PipelineOf(r), ex[w].base)
        /\ BackedBy(rows', PipelineOf(r), ex[w].maxCursor)
    BY <2>1, BackedStays DEF BackedInv
  <2>5. Held2(w)
    BY <1>5, <2>3, <2>4 DEF Storing, Held2
  <2> QED
    BY <1>5, <2>5, <1>a, <1>c, <1>e DEF Storing
<1>6. ASSUME NEW w \in Executors, Closing(w) PROVE BackedInv'
  <2>1. ex[w].run \in Runs
    BY <1>6, BusyType DEF Closing
  <2>2. BackedBy(rows', PipelineOf(ex[w].run), ex[w].maxCursor)
    BY <2>1, BackedStays DEF BackedInv
  <2>3. \A p \in Pipelines : BackedBy(rows', p, cursor[p])
    BY BackedStays DEF BackedInv
  <2>4. cursor \in [Pipelines -> Cursors]
    BY DEF TypeInv
  <2>5. Stored2
    BY <1>6, <2>2, <2>3, <2>4 DEF Closing, Stored2
  <2> QED
    BY <1>6, <2>5, <1>a, <1>e, <1>f DEF Closing
<1> QED
  BY DataSteps, <1>1, <1>2, <1>3, <1>4, <1>5, <1>6

LEMMA CoveredStep ==
  TypeInv /\ TypeInv' /\ BackedInv /\ CoveredInv /\ [Next]_vars => CoveredInv'
<1> SUFFICES ASSUME TypeInv, TypeInv', BackedInv, CoveredInv, [Next]_vars
             PROVE  CoveredInv'
  OBVIOUS
<1> DEFINE Processed2(w) ==
             ex'[w].pc \in {"records", "finishRun"} /\ ex'[w].failed = 0 =>
               \A i \in Positions(ex'[w].run) :
                 i \in Unprocessed(w)' \/ CoveredBy(rows', ex'[w].run, i)
           Succeeded2 ==
             \A r \in Runs : run'[r].status = "SUCCESS" =>
               \A i \in Positions(r) : CoveredBy(rows', r, i)
<1>a. Succeeded2 /\ (\A w \in Executors : Processed2(w)) => CoveredInv'
  BY StoredStays DEF CoveredInv, CoveredBy, AppliesCursor, PipelineOf, Positions, Record
<1>b. ASSUME NoNewSuccess PROVE Succeeded2
  BY <1>b, CoveredStays DEF CoveredInv, NoNewSuccess
\* An executor whose processed positions do not grow stays covered.
<1>c. ASSUME NEW w \in Executors, ex'[w].run = ex[w].run,
             ex[w].pc \in {"records", "finishRun"}, ex'[w].failed = 0 => ex[w].failed = 0,
             Unprocessed(w) \subseteq Unprocessed(w)'
      PROVE  Processed2(w)
  <2>1. ex[w].run \in Runs
    BY <1>c, BusyType
  <2> QED
    BY <1>c, <2>1, CoveredStays DEF CoveredInv
<1>d. ASSUME NEW w \in Executors, ex'[w] = ex[w] PROVE Processed2(w)
  <2>1. CASE ex[w].pc \in {"records", "finishRun"}
    BY <1>c, <1>d, <2>1 DEF Unprocessed
  <2> QED
    BY <1>d, <2>1
<1>e. ASSUME NEW w \in Executors, OnlyExecutor(w), Processed2(w)
      PROVE  \A v \in Executors : Processed2(v)
  BY <1>d, <1>e DEF OnlyExecutor
<1>f. ASSUME NEW w \in Executors, ex'[w].pc \notin {"records", "finishRun"}
      PROVE  Processed2(w)
  BY <1>f
<1> HIDE DEF Processed2, Succeeded2
<1>1. CASE Quiet
  BY <1>1, <1>a, <1>b, <1>d DEF Quiet, SameData
<1>2. ASSUME NEW w \in Executors,
             \/ \E r \in Runs : Starting(w, r)
             \/ Preparing(w) \/ Leaving(w)
      PROVE  CoveredInv'
  BY <1>2, <1>a, <1>b, <1>e, <1>f
  DEF Starting, Preparing, Leaving, SameData, Early, Late
<1>3. ASSUME NEW w \in Executors, Beginning(w) PROVE CoveredInv'
  <2> DEFINE r == ex[w].run
  <2>1. r \in Runs /\ ex'[w].run = r /\ Unprocessed(w)' = EligibleRecords(r, ex[w].base)
    BY <1>3, BusyType DEF Beginning, Keeps, Unprocessed
  <2>2. ASSUME NEW i \in Positions(r), i \notin EligibleRecords(r, ex[w].base)
        PROVE  CoveredBy(rows', r, i)
    <3>1. /\ AppliesCursor(r) /\ ex[w].base # NoCursor
          /\ ~ShouldProcessRecord(Record(r, i).candidate, ex[w].base)
      BY <2>2 DEF EligibleRecords, ShouldProcessRecord
    <3>2. BackedBy(rows', PipelineOf(r), ex[w].base)
      BY <2>1, BackedStays DEF BackedInv
    <3> QED
      BY <3>1, <3>2 DEF BackedBy, CoveredBy
  <2>3. Processed2(w)
    BY <2>1, <2>2 DEF Processed2
  <2> QED
    BY <1>3, <2>3, <1>a, <1>b, <1>e DEF Beginning, SameData
<1>4. ASSUME NEW w \in Executors, NEW i \in ex[w].left, Dropping(w, i) PROVE CoveredInv'
  <2>1. ex'[w].failed # 0
    BY <1>4, BusyType DEF Dropping, ExecutorLocals
  <2>2. Processed2(w)
    BY <2>1 DEF Processed2
  <2> QED
    BY <1>4, <2>2, <1>a, <1>b, <1>e DEF Dropping, SameData
<1>5. ASSUME NEW w \in Executors, NEW i \in ex[w].left, Storing(w, i) PROVE CoveredInv'
  <2> DEFINE r == ex[w].run
  <2>1. /\ r \in Runs /\ i \in Positions(r) /\ ex'[w].run = r
        /\ ex[w].failed \in Nat
    BY <1>5, BusyType DEF Storing, ExecutorLocals
  <2>1a. ex'[w].failed \in Nat
    BY DEF TypeInv, ExecutorsOK, ExecutorType, ExecutorLocals
  <2>2. CoveredBy(rows', r, i)
    <3>1. DOMAIN rows = Runs /\ rows[r] \in [Positions(r) -> Nat]
      BY <2>1 DEF TypeInv
    <3> QED
      BY <1>5, <2>1, <3>1 DEF Storing, InsertRow, CoveredBy
  <2>3. ex'[w].failed = 0 => ex[w].failed = 0
    BY <1>5, <2>1, <2>1a DEF Storing
  <2>4. ASSUME ex'[w].failed = 0, NEW j \in Positions(r), j \notin ex[w].left \ {i}
        PROVE  CoveredBy(rows', r, j)
    <3>1. CASE j = i
      BY <2>2, <3>1
    <3>2. CASE j # i
      BY <1>5, <2>1, <2>3, <2>4, <3>2, CoveredStays DEF Storing, CoveredInv, Unprocessed
    <3> QED
      BY <3>1, <3>2
  <2>5. Processed2(w)
    BY <1>5, <2>1, <2>4 DEF Storing, Processed2, Unprocessed
  <2> QED
    BY <1>5, <2>5, <1>a, <1>b, <1>e DEF Storing
<1>6. ASSUME NEW w \in Executors, Closing(w) PROVE CoveredInv'
  <2>1. Processed2(w)
    BY <1>6, <1>c DEF Closing, Keeps, Unprocessed
  <2> QED
    BY <1>6, <2>1, <1>a, <1>b, <1>e DEF Closing
<1>7. ASSUME NEW w \in Executors, Finishing(w) PROVE CoveredInv'
  <2>1. Processed2(w)
    BY <1>7, <1>f DEF Finishing, Late
  <2>2. ex[w].run \in Runs /\ Unprocessed(w) = {}
    BY <1>7, BusyType DEF Finishing, Unprocessed
  <2>3. Succeeded2
    BY <1>7, <2>2, CoveredStays DEF Finishing, CoveredInv, Succeeded2
  <2> QED
    BY <1>7, <2>1, <2>3, <1>a, <1>e DEF Finishing
<1> QED
  BY DataSteps, <1>1, <1>2, <1>3, <1>4, <1>5, <1>6, <1>7

\* A run that is ever reported as SUCCESS has lost none of its records, and
\* the stored cursor always belongs to a stored record, for any number of
\* runs, executors, retries and faults.
THEOREM NothingLost == Spec => [](SuccessLosesNothing /\ CursorIsBacked)
<1>1. Init => TypeInv /\ BackedInv /\ CoveredInv
  BY TypeInit, BackedInit, CoveredInit
<1>2. TypeInv /\ BackedInv /\ CoveredInv /\ [Next]_vars
        => (TypeInv /\ BackedInv /\ CoveredInv)'
  BY TypeStep, BackedStep, CoveredStep
<1>3. BackedInv /\ CoveredInv => SuccessLosesNothing /\ CursorIsBacked
  BY DEF BackedInv, CoveredInv, BackedBy, CoveredBy, SuccessLosesNothing, CursorIsBacked,
     IsStored, IsSuperseded
<1> QED
  BY <1>1, <1>2, <1>3, PTL DEF Spec

\* Every cursor in the database is the candidate of a record stored for that pipeline.
THEOREM CursorBacked == Spec => []CursorIsBacked
  BY NothingLost, PTL

-------------------------------------------------------------------------------
(***************************************************************************)
(* The cursor's direction.  The update compares nothing, so it can only be *)
(* right while the cursor read with the pipeline is still the stored one:  *)
(* with a single executor nobody else moves it, and then what passed the   *)
(* filter is newer.                                                        *)
(***************************************************************************)
OneAtATime == (\A w, v \in Executors : w = v) /\ TRUE \notin IgnoreCursor

NewerThanBase(e) ==
  PipelineOf(e.run) \in Incremental /\ e.maxCursor # NoCursor /\ e.base # NoCursor
    => IsCandidateNewer(e.maxCursor, e.base)

ForwardInv ==
  \A w \in Executors :
    /\ ex[w].pc \in (Early \ {"load"}) \cup {"records"} =>
         ex[w].base = cursor[PipelineOf(ex[w].run)]
    /\ ex[w].pc \in Early => ex[w].maxCursor = NoCursor
    /\ ex[w].pc = "records" =>
         ex[w].left \subseteq EligibleRecords(ex[w].run, ex[w].base) /\ NewerThanBase(ex[w])

ForwardStep ==
  \A p \in Pipelines : cursor'[p] # cursor[p] =>
    cursor[p] = NoCursor \/ IsCandidateNewer(cursor'[p], cursor[p])

LEMMA ForwardInit == Init => ForwardInv
BY DEF Init, ForwardInv, Idle, Early

LEMMA ForwardKept ==
  ASSUME OneAtATime, TypeInv, ForwardInv, [Next]_vars
  PROVE  ForwardInv' /\ ForwardStep
<1>0. UNCHANGED request
  BY DataSteps
<1> DEFINE Good2(w) ==
             /\ ex'[w].pc \in (Early \ {"load"}) \cup {"records"} =>
                  ex'[w].base = cursor'[PipelineOf(ex'[w].run)]
             /\ ex'[w].pc \in Early => ex'[w].maxCursor = NoCursor
             /\ ex'[w].pc = "records" =>
                  /\ ex'[w].left \subseteq EligibleRecords(ex'[w].run, ex'[w].base)
                  /\ NewerThanBase(ex'[w])
<1>a. (\A w \in Executors : Good2(w)) => ForwardInv'
  BY <1>0 DEF ForwardInv, EligibleRecords, AppliesCursor, PipelineOf, Positions, Record,
     NewerThanBase
<1>b. ASSUME NEW w \in Executors, Good2(w) PROVE ForwardInv'
  BY <1>a, <1>b DEF OneAtATime
<1>c. UNCHANGED cursor => ForwardStep
  BY DEF ForwardStep
<1> HIDE DEF Good2
<1>1. CASE Quiet
  <2>1. \A w \in Executors : Good2(w)
    BY <1>1 DEF Quiet, SameData, ForwardInv, Good2
  <2> QED
    BY <1>1, <1>a, <1>c, <2>1 DEF Quiet, SameData
<1>2. ASSUME NEW w \in Executors, NEW r \in Runs, Starting(w, r)
      PROVE  ForwardInv' /\ ForwardStep
  <2>1. Good2(w)
    BY <1>2 DEF Starting, Early, Good2
  <2> QED
    BY <1>2, <1>b, <1>c, <2>1 DEF Starting
<1>3. ASSUME NEW w \in Executors, Preparing(w) PROVE ForwardInv' /\ ForwardStep
  <2>1. Good2(w)
    BY <1>3 DEF Preparing, SameData, Early, ForwardInv, Good2
  <2> QED
    BY <1>3, <1>b, <1>c, <2>1 DEF Preparing, SameData
<1>4. ASSUME NEW w \in Executors, Beginning(w) PROVE ForwardInv' /\ ForwardStep
  <2>1. /\ ex[w].base = cursor[PipelineOf(ex[w].run)] /\ ex[w].maxCursor = NoCursor
        /\ ex'[w].pc = "records" /\ ex'[w].pc \notin Early
    BY <1>4 DEF Beginning, Early, ForwardInv
  <2>2. Good2(w)
    BY <1>4, <2>1 DEF Beginning, Keeps, SameData, NewerThanBase, Good2
  <2> QED
    BY <1>4, <1>b, <1>c, <2>2 DEF Beginning, SameData
<1>5. ASSUME NEW w \in Executors, NEW i \in ex[w].left, Dropping(w, i)
      PROVE  ForwardInv' /\ ForwardStep
  <2>1. Good2(w)
    BY <1>5 DEF Dropping, Keeps, SameData, Early, ForwardInv, NewerThanBase, Good2
  <2> QED
    BY <1>5, <1>b, <1>c, <2>1 DEF Dropping, SameData
<1>6. ASSUME NEW w \in Executors, NEW i \in ex[w].left, Storing(w, i)
      PROVE  ForwardInv' /\ ForwardStep
  <2> DEFINE r == ex[w].run
             candidate == Record(r, i).candidate
  <2>1. r \in Runs /\ i \in EligibleRecords(r, ex[w].base)
    BY <1>6, BusyType DEF Storing, ForwardInv
  <2>2. ~request[r].ignoreCursor
    BY <2>1, ConstantsAssumption DEF TypeInv, Requests, OneAtATime
  <2>3. PipelineOf(r) \in Incremental => ShouldProcessRecord(candidate, ex[w].base)
    BY <2>1, <2>2 DEF EligibleRecords, AppliesCursor
  <2>4. NewerThanBase(ex[w])
    BY <1>6 DEF Storing, ForwardInv
  <2>5. NewerThanBase(ex'[w])
    BY <1>6, <2>3, <2>4 DEF Storing, NewerThanBase, ShouldProcessRecord
  <2>6. Good2(w)
    BY <1>6, <2>5 DEF Storing, Early, ForwardInv, Good2
  <2> QED
    BY <1>6, <1>b, <1>c, <2>6 DEF Storing
<1>7. ASSUME NEW w \in Executors, Closing(w) PROVE ForwardInv' /\ ForwardStep
  <2>1. Good2(w)
    BY <1>7 DEF Closing, Early, Good2
  <2>2. ex[w].base = cursor[PipelineOf(ex[w].run)] /\ NewerThanBase(ex[w])
    BY <1>7 DEF Closing, ForwardInv
  <2>3. cursor \in [Pipelines -> Cursors]
    BY DEF TypeInv
  <2>4. ForwardStep
    BY <1>7, <2>2, <2>3 DEF Closing, MovesCursor, NewerThanBase, ForwardStep
  <2> QED
    BY <1>b, <2>1, <2>4
<1>8. ASSUME NEW w \in Executors, Finishing(w) \/ Leaving(w)
      PROVE  ForwardInv' /\ ForwardStep
  <2>1. Good2(w)
    BY <1>8 DEF Finishing, Leaving, Early, Late, Good2
  <2> QED
    BY <1>8, <1>b, <1>c, <2>1 DEF Finishing, Leaving, SameData
<1> QED
  BY DataSteps, <1>1, <1>2, <1>3, <1>4, <1>5, <1>6, <1>7, <1>8

\* With one executor and no request that ignores the cursor, the unconditional
\* update of SyncPipeline.cursorJson never moves the cursor back.
THEOREM CursorForward == ASSUME OneAtATime PROVE Spec => CursorOnlyMovesForward
<1>1. Init => TypeInv /\ ForwardInv
  BY TypeInit, ForwardInit
<1>2. TypeInv /\ ForwardInv /\ [Next]_vars => (TypeInv /\ ForwardInv)'
  BY TypeStep, ForwardKept
<1>3. TypeInv /\ ForwardInv /\ [Next]_vars =>
        [\A p \in Pipelines : cursor'[p] # cursor[p] =>
           cursor[p] = NoCursor \/ IsCandidateNewer(cursor'[p], cursor[p])]_vars
  BY ForwardKept DEF ForwardStep
<1> QED
  BY <1>1, <1>2, <1>3, PTL DEF Spec, CursorOnlyMovesForward

-------------------------------------------------------------------------------
(***************************************************************************)
(* The three records of an execution.  The database job is COMPLETED only  *)
(* from the job's update to the next attempt's first write.                *)
(***************************************************************************)
HolderOK(w) ==
  LET r == ex[w].run IN
  /\ ex[w].pc \in {"createRun", "markRun", "begin", "records", "finishRun"} =>
       job[r] # "COMPLETED"
  /\ ex[w].pc \in {"begin", "records", "finishRun"} => run[r].status = "RUNNING"
  /\ ex[w].pc \in {"finishJob", "report"} => run[r].status \in {"SUCCESS", "FAILED"}
  /\ ex[w].pc = "report" => job[r] = "COMPLETED"
  /\ ex[w].pc = "catchRun" => run[r].status \in {"RUNNING", "SUCCESS", "FAILED"}

StatusInv ==
  /\ \A r \in Runs : api[r] = "idle" \/ ~Async => job[r] = "none"
  /\ \A r \in Runs : api[r] = "idle" => run[r].status = "none"
  /\ \A w \in Executors : HolderOK(w)
  /\ CompletedJobIsFinished

LEMMA StatusInit == Init => StatusInv
BY DEF Init, StatusInv, HolderOK, CompletedJobIsFinished, Idle, NewRun, NoJob

LEMMA StatusStep ==
  TypeInv /\ TypeInv' /\ QueueInv /\ StatusInv /\ [Next]_vars => StatusInv'
<1> SUFFICES ASSUME TypeInv, TypeInv', QueueInv, StatusInv, [Next]_vars
             PROVE  StatusInv'
  OBVIOUS
<1>t. /\ api \in [Runs -> ApiSteps] /\ run \in [Runs -> SyncRunRows]
      /\ job \in [Runs -> JobStatus] /\ bull \in [Runs -> BullJobs]
  BY DEF TypeInv
\* A step that writes neither the run nor the job.
<1>a. ASSUME UNCHANGED <<job, run>>,
             \A r \in Runs : api'[r] = "idle" => api[r] = "idle",
             \A r \in Runs : bull'[r].state = "completed" =>
               bull[r].state = "completed" \/ job[r] = "COMPLETED",
             \A w \in Executors : HolderOK(w)'
      PROVE  StatusInv'
  BY <1>a DEF StatusInv, CompletedJobIsFinished, Async
<1>b. ASSUME UNCHANGED <<ex, job, run>> PROVE \A w \in Executors : HolderOK(w)'
  BY <1>b DEF StatusInv, HolderOK, Async
\* A step of one executor disturbs at most what is said of its own run.
<1>c. ASSUME NEW w \in Executors, OnlyExecutor(w),
             \A s \in Runs \ {ex[w].run} : job'[s] = job[s] /\ run'[s] = run[s],
             ex[w].run \in Runs \/ UNCHANGED <<job, run>>,
             HolderOK(w)'
      PROVE  \A v \in Executors : HolderOK(v)'
  <2>1. ASSUME NEW v \in Executors, v # w PROVE HolderOK(v)'
    <3>1. ex'[v] = ex[v] /\ HolderOK(v)
      BY <1>c, <2>1 DEF OnlyExecutor, StatusInv
    <3>2. CASE ex[v].pc = "idle"
      BY <3>1, <3>2 DEF HolderOK
    <3>3. CASE ex[v].pc # "idle"
      <4>1. ex[v].run \in Runs
        BY <3>3, BusyType
      <4>2. job'[ex[v].run] = job[ex[v].run] /\ run'[ex[v].run] = run[ex[v].run]
        BY <1>c, <2>1, <4>1, ConstantsAssumption DEF QueueInv, OneHolder
      <4> QED
        BY <3>1, <4>2 DEF HolderOK, Async
    <3> QED
      BY <3>2, <3>3
  <2> QED
    BY <1>c, <2>1
<1>1. ASSUME NEW r \in Runs,
             QueueRun(r) \/ CreateJob(r)
      PROVE  StatusInv'
  <2>1. /\ Async /\ bull[r].state = "absent"
        /\ UNCHANGED <<ex, bull>>
    <3>1. UNCHANGED <<ex, bull>> /\ (api[r] = "runCreated" \/ (Async /\ api[r] = "idle"))
      BY <1>1 DEF QueueRun, CreateJob
    <3>2. Async /\ bull[r].state = "absent"
      BY <3>1 DEF QueueInv, BullAccount, DirectAccount
    <3> QED
      BY <3>1, <3>2
  <2>2. \A w \in Executors : ex[w].run # r
    BY <2>1, ConstantsAssumption DEF QueueInv, HoldersAreActive
  <2>3. /\ \A s \in Runs \ {r} : job'[s] = job[s] /\ run'[s] = run[s] /\ api'[s] = api[s]
        /\ api'[r] # "idle" /\ job'[r] # "COMPLETED"
    BY <1>1, <1>t, <2>1 DEF QueueRun, CreateJob, StatusInv
  <2>4. \A w \in Executors : HolderOK(w)'
    <3> SUFFICES ASSUME NEW w \in Executors PROVE HolderOK(w)'
      OBVIOUS
    <3>1. CASE ex[w].pc = "idle"
      BY <2>1, <3>1 DEF HolderOK
    <3>2. CASE ex[w].pc # "idle"
      BY <2>1, <2>2, <2>3, <3>2, BusyType DEF StatusInv, HolderOK, Async
    <3> QED
      BY <3>1, <3>2
  <2> QED
    BY <2>1, <2>3, <2>4 DEF StatusInv, CompletedJobIsFinished, Async
<1>2. ASSUME NEW r \in Runs, EnqueueJob(r) \/ RequestFails(r) \/ Backoff(r) \/ Stalled(r)
      PROVE  StatusInv'
  <2>1. /\ UNCHANGED <<ex, job, run>>
        /\ UNCHANGED api \/ \E step \in {"done", "failed"} : api' = [api EXCEPT ![r] = step]
        /\ \/ UNCHANGED bull
           \/ \E b : b.state # "completed" /\ bull' = [bull EXCEPT ![r] = b]
    <3>1. bull[r] \in BullJobs
      BY <1>t
    <3>2. [bull[r] EXCEPT !.state = "waiting"].state # "completed"
      BY <3>1 DEF BullJobs
    <3>3. /\ [bull[r] EXCEPT !.state = "waiting", !.stalled = bull[r].stalled + 1].state
               # "completed"
          /\ [bull[r] EXCEPT !.state = "failed"].state # "completed"
      BY <3>1 DEF BullJobs
    <3>4. CASE EnqueueJob(r) \/ Backoff(r)
      BY <3>2, <3>4 DEF EnqueueJob, Backoff
    <3>5. CASE RequestFails(r)
      BY <3>5 DEF RequestFails
    <3>6. CASE Stalled(r)
      BY <3>3, <3>6 DEF Stalled
    <3> QED
      BY <1>2, <3>4, <3>5, <3>6
  <2> QED
    BY <2>1, <1>a, <1>b, <1>t
\* Enough for an executor's step that writes only its own run and job and
\* leaves the queue alone.
<1>d. ASSUME NEW w \in Executors, ex[w].run \in Runs, OnlyExecutor(w),
             UNCHANGED <<api, bull>>,
             \A s \in Runs \ {ex[w].run} : job'[s] = job[s] /\ run'[s] = run[s],
             Async \/ UNCHANGED job,
             job'[ex[w].run] = "COMPLETED" =>
               run'[ex[w].run].status \in {"SUCCESS", "FAILED"},
             bull[ex[w].run].state = "completed" => job'[ex[w].run] = "COMPLETED",
             HolderOK(w)'
      PROVE  StatusInv'
  <2> DEFINE r == ex[w].run
  <2>1. \A v \in Executors : HolderOK(v)'
    BY <1>c, <1>d
  <2>2. /\ \A s \in Runs : api'[s] = "idle" \/ ~Async => job'[s] = "none"
        /\ \A s \in Runs : api'[s] = "idle" => run'[s].status = "none"
    <3>1. api[r] # "idle"
      <4>1. IF Async THEN bull[r].state = "active" ELSE api[r] = "done"
        BY <1>d, ConstantsAssumption DEF QueueInv, HoldersAreActive
      <4> QED
        BY <1>d, <4>1 DEF QueueInv, BullAccount
    <3> QED
      BY <1>d, <3>1 DEF StatusInv, Async
  <2>3. CompletedJobIsFinished'
    BY <1>d DEF StatusInv, CompletedJobIsFinished
  <2> QED
    BY <2>1, <2>2, <2>3 DEF StatusInv, Async
\* The BullMQ job of a busy worker's run is active, so it is not completed.
<1>e. ASSUME NEW w \in Executors, ex[w].pc # "idle"
      PROVE  ex[w].run \in Runs /\ bull[ex[w].run].state # "completed"
  BY <1>e, BusyType, ConstantsAssumption DEF QueueInv, HoldersAreActive, DirectAccount
<1>3. ASSUME NEW w \in Executors, NEW r \in Runs, Deliver(w, r) \/ StartNow(w, r)
      PROVE  StatusInv'
  <2>1. /\ OnlyExecutor(w) /\ UNCHANGED <<job, run>>
        /\ ex'[w].pc = "load" \/ (ex'[w].pc = "createRun" /\ ex'[w].run = r /\ ~Async)
    <3> DEFINE loads == [Idle EXCEPT !.pc = "load", !.run = r]
               creates == [Idle EXCEPT !.pc = "createRun", !.run = r,
                                       !.base = cursor[PipelineOf(r)]]
    <3>1. loads.pc = "load" /\ creates.pc = "createRun" /\ creates.run = r
      BY DEF Idle
    <3>2. CASE Deliver(w, r)
      <4>1. OnlyExecutor(w) /\ ex'[w] = loads
        BY <3>2, BecomeLocals DEF Deliver
      <4> QED
        BY <3>1, <3>2, <4>1 DEF Deliver
    <3>3. CASE StartNow(w, r)
      <4>1. OnlyExecutor(w) /\ ex'[w] = creates
        BY <3>3, BecomeLocals DEF StartNow
      <4> HIDE DEF creates
      <4> QED
        BY <3>1, <3>3, <4>1 DEF StartNow
    <3> QED
      BY <1>3, <3>2, <3>3
  <2>2. /\ \A s \in Runs : api'[s] = "idle" => api[s] = "idle"
        /\ \A s \in Runs : bull'[s].state = "completed" => bull[s].state = "completed"
    BY <1>3, <1>t DEF Deliver, StartNow, BullJobs
  <2>3. HolderOK(w)'
    BY <2>1 DEF HolderOK, StatusInv
  <2> QED
    BY <2>1, <2>2, <2>3, <1>a, <1>c
<1>4. ASSUME NEW w \in Executors,
             \/ Load(w) \/ BeginRecords(w) \/ AdvanceCursor(w) \/ KeepCursor(w)
             \/ Throw(w) \/ Crash(w)
             \/ \E i \in ex[w].left : \/ RejectRecord(w, i) \/ StoreRecord(w, i)
                                      \/ StoreRecordAuditFails(w, i)
                                      \/ StoreRecordFails(w, i)
      PROVE  StatusInv'
  <2>1. UNCHANGED <<api, job, run, bull>>
    BY <1>4 DEF Load, BeginRecords, AdvanceCursor, KeepCursor, Throw, Crash, RejectRecord,
      StoreRecord, StoreRecordAuditFails, StoreRecordFails
  <2>2. /\ OnlyExecutor(w)
        /\ \/ ex'[w].pc \notin {"createRun", "markRun", "begin", "records", "finishRun",
                              "finishJob", "report", "catchRun"}
           \/ /\ ex[w].pc \in {"begin", "records"} /\ ex'[w].run = ex[w].run
              /\ ex'[w].pc \in {"records", "finishRun"}
           \/ /\ ex[w].pc \in TryBlock /\ ex'[w].run = ex[w].run
              /\ ex'[w].pc = "catchRun"
    <3>1. CASE Load(w)
      <4> DEFINE e == [ex[w] EXCEPT !.pc = "markJob", !.base = cursor[PipelineOf(ex[w].run)]]
      <4>1. ex[w] \in ExecutorLocals /\ OnlyExecutor(w) /\ ex'[w] = e
        BY <3>1, BusyType, BecomeLocals DEF Load
      <4>2. e.pc = "markJob"
        BY <4>1 DEF ExecutorLocals
      <4> HIDE DEF e
      <4> QED
        BY <4>1, <4>2
    <3>2. CASE BeginRecords(w)
      <4> DEFINE eligible == EligibleRecords(ex[w].run, ex[w].base)
                 e == [ex[w] EXCEPT !.pc = "records", !.left = eligible]
      <4>1. /\ ex[w].pc = "begin" /\ ex[w] \in ExecutorLocals
            /\ OnlyExecutor(w) /\ ex'[w] = e
        BY <3>2, BusyType, BecomeLocals DEF BeginRecords
      <4> HIDE DEF eligible
      <4>2. e.pc = "records" /\ e.run = ex[w].run
        BY <4>1 DEF ExecutorLocals
      <4> HIDE DEF e
      <4> QED
        BY <4>1, <4>2
    <3>3. CASE AdvanceCursor(w) \/ KeepCursor(w)
      BY <3>3, GotoLocals DEF AdvanceCursor, KeepCursor, RecordsDone, Keeps
    <3>4. CASE Throw(w) \/ Crash(w)
      BY <3>4, GotoLocals, ReleaseLocals, AwaitsIsBusy DEF Throw, Crash, Keeps
    <3>5. ASSUME NEW i \in ex[w].left, RejectRecord(w, i) \/ StoreRecordFails(w, i)
          PROVE  OnlyExecutor(w) /\ ex[w].pc = "records" /\ ex'[w].pc = "records"
                 /\ ex'[w].run = ex[w].run
      <4>1. ex[w].pc = "records" /\ Become(w, AfterFailure(ex[w], i))
        BY <3>5 DEF RejectRecord, StoreRecordFails, IsNext
      <4>2. ex[w] \in ExecutorType
        BY <4>1, BusyType
      <4>3. OnlyExecutor(w) /\ ex'[w] = AfterFailure(ex[w], i)
        BY <4>1, BecomeLocals
      <4> QED
        BY <4>1, <4>2, <4>3, AfterFailureType
    <3>6. ASSUME NEW i \in ex[w].left, StoreRecord(w, i) \/ StoreRecordAuditFails(w, i)
          PROVE  OnlyExecutor(w) /\ ex[w].pc = "records" /\ ex'[w].pc = "records"
                 /\ ex'[w].run = ex[w].run
      <4>1. PICK k \in {0, 1} : IsNext(w, i) /\ Become(w, AfterStore(ex[w], i, k))
        BY <3>6 DEF StoreRecord, StoreRecordAuditFails
      <4>2. ex[w].pc = "records" /\ i \in Positions(ex[w].run)
        BY <4>1, NextPosition
      <4>3. OnlyExecutor(w) /\ ex'[w] = AfterStore(ex[w], i, k)
        BY <4>1, BecomeLocals
      <4>4. /\ AfterStore(ex[w], i, k).pc = ex[w].pc
            /\ AfterStore(ex[w], i, k).run = ex[w].run
        BY <4>2, AfterStoreType
      <4> QED
        BY <4>2, <4>3, <4>4
    <3> QED
      BY <1>4, <3>1, <3>2, <3>3, <3>4, <3>5, <3>6
  <2>3. HolderOK(w)'
    BY <2>1, <2>2 DEF StatusInv, HolderOK, TryBlock
  <2> QED
    BY <2>1, <2>2, <2>3, <1>a, <1>c
<1>5. ASSUME NEW w \in Executors,
             CreateRunNow(w) \/ MarkJobProcessing(w) \/ MarkRunRunning(w)
      PROVE  StatusInv'
  <2> DEFINE r == ex[w].run
  <2>1. /\ ex[w].pc \in {"createRun", "markJob", "markRun"} /\ UNCHANGED <<api, bull>>
        /\ ex[w].pc = "markJob" => job' = [job EXCEPT ![r] = "PROCESSING"]
        /\ ex[w].pc # "markJob" => UNCHANGED job
        /\ ex[w].pc # "markJob" => run'[r].status = "RUNNING"
        /\ \A s \in Runs \ {r} : run'[s] = run[s]
    <3>1. r \in Runs /\ run[r] \in SyncRunRows
      BY <1>5, <1>t, BusyType DEF CreateRunNow, MarkJobProcessing, MarkRunRunning
    <3> QED
      BY <1>5, <3>1, <1>t DEF CreateRunNow, MarkJobProcessing, MarkRunRunning, NewRun,
        SyncRunRows
  <2>2. r \in Runs /\ bull[r].state # "completed" /\ (ex[w].pc = "markJob" => Async)
    BY <2>1, <1>e, BusyType DEF DirectPCs
  <2>3. /\ OnlyExecutor(w) /\ ex'[w].run = r
        /\ ex'[w].pc = IF ex[w].pc = "markJob" THEN "markRun" ELSE "begin"
    BY <1>5, <2>1, GotoLocals DEF CreateRunNow, MarkJobProcessing, MarkRunRunning, Keeps
  <2>4. job'[r] # "COMPLETED" /\ \A s \in Runs \ {r} : job'[s] = job[s]
    BY <2>1, <2>2, <1>t DEF StatusInv, HolderOK
  <2>5. HolderOK(w)'
    BY <2>1, <2>3, <2>4 DEF HolderOK
  <2> QED
    BY <2>1, <2>2, <2>3, <2>4, <2>5, <1>d
<1>6. ASSUME NEW w \in Executors, FinishRun(w) PROVE StatusInv'
  <2> DEFINE r == ex[w].run
  <2>1. /\ ex[w].pc = "finishRun" /\ UNCHANGED <<api, bull, job>>
        /\ run' = [run EXCEPT ![r] = Outcome(ex[w])]
        /\ Release(w) \/ Goto(w, "finishJob")
    BY <1>6 DEF FinishRun
  <2>2. r \in Runs /\ bull[r].state # "completed"
    BY <2>1, <1>e
  <2>3. /\ run'[r].status \in {"SUCCESS", "FAILED"}
        /\ \A s \in Runs \ {r} : run'[s] = run[s]
    BY <2>1, <2>2, <1>t DEF Outcome
  <2>4. /\ OnlyExecutor(w)
        /\ ex'[w].pc = "idle" \/ (ex'[w].pc = "finishJob" /\ ex'[w].run = r)
    BY <2>1, GotoLocals, ReleaseLocals DEF Keeps
  <2>5. HolderOK(w)'
    BY <2>3, <2>4 DEF HolderOK
  <2> QED
    BY <2>1, <2>2, <2>3, <2>4, <2>5, <1>d
<1>7. ASSUME NEW w \in Executors, FinishJob(w) PROVE StatusInv'
  <2> DEFINE r == ex[w].run
  <2>1. /\ ex[w].pc = "finishJob" /\ UNCHANGED <<api, bull, run>>
        /\ job' = [job EXCEPT ![r] = "COMPLETED"] /\ Goto(w, "report")
    BY <1>7 DEF FinishJob
  <2>2. r \in Runs /\ bull[r].state # "completed" /\ Async
    BY <2>1, <1>e, BusyType DEF DirectPCs
  <2>3. OnlyExecutor(w) /\ ex'[w].run = r /\ ex'[w].pc = "report"
    BY <2>1, GotoLocals DEF Keeps
  <2>4. /\ run'[r].status \in {"SUCCESS", "FAILED"} /\ job'[r] = "COMPLETED"
        /\ \A s \in Runs \ {r} : job'[s] = job[s]
    BY <2>1, <2>2, <1>t DEF StatusInv, HolderOK
  <2>5. HolderOK(w)'
    BY <2>3, <2>4 DEF HolderOK
  <2> QED
    BY <2>1, <2>2, <2>3, <2>4, <2>5, <1>d
<1>8. ASSUME NEW w \in Executors, CatchRun(w) \/ CatchJob(w) PROVE StatusInv'
  <2> DEFINE r == ex[w].run
  <2>1. /\ ex[w].pc \in {"catchRun", "catchJob"} /\ UNCHANGED <<api, bull>>
        /\ Goto(w, "catchJob") \/ Goto(w, "rethrow")
        /\ \/ UNCHANGED run /\ job' = [job EXCEPT ![r] = "FAILED"]
           \/ UNCHANGED job /\ run' = [run EXCEPT ![r].status = "FAILED"]
    BY <1>8 DEF CatchRun, CatchJob
  <2>2. r \in Runs /\ bull[r].state # "completed" /\ Async
    BY <2>1, <1>e, BusyType DEF DirectPCs
  <2>3. OnlyExecutor(w) /\ ex'[w].pc \in {"catchJob", "rethrow"}
    BY <2>1, GotoLocals
  <2>4. /\ job'[r] = "COMPLETED" => run'[r].status \in {"SUCCESS", "FAILED"}
        /\ \A s \in Runs \ {r} : job'[s] = job[s] /\ run'[s] = run[s]
    BY <2>1, <2>2, <1>t DEF StatusInv, CompletedJobIsFinished, SyncRunRows
  <2>5. HolderOK(w)'
    BY <2>3 DEF HolderOK
  <2> QED
    BY <2>1, <2>2, <2>3, <2>4, <2>5, <1>d
<1>9. ASSUME NEW w \in Executors, Return(w) \/ Rethrow(w) PROVE StatusInv'
  <2> DEFINE r == ex[w].run
  <2>1. /\ ex[w].pc \in {"report", "rethrow"} /\ UNCHANGED <<api, job, run>> /\ Release(w)
        /\ \A s \in Runs \ {r} : bull'[s] = bull[s]
    BY <1>9, <1>t DEF Return, Rethrow
  <2>2. r \in Runs
    BY <2>1, BusyType
  <2>3. bull'[r].state = "completed" => job[r] = "COMPLETED"
    <3>1. CASE Return(w)
      BY <3>1 DEF Return, StatusInv, HolderOK
    <3>2. CASE Rethrow(w)
      <4>1. bull[r] \in BullJobs
        BY <2>2, <1>t
      <4>2. [bull[r] EXCEPT !.made = bull[r].made + 1,
                            !.state = IF bull[r].made + 1 < MaxAttempts
                                        THEN "delayed" ELSE "failed"].state # "completed"
        BY <4>1 DEF BullJobs
      <4> QED
        BY <2>2, <3>2, <4>2, <1>t DEF Rethrow
    <3> QED
      BY <1>9, <3>1, <3>2
  <2>4. HolderOK(w)'
    BY <2>1, ReleaseLocals DEF HolderOK
  <2>5. OnlyExecutor(w)
    BY <2>1, ReleaseLocals
  <2> QED
    BY <2>1, <2>2, <2>3, <2>4, <2>5, <1>a, <1>c
<1>10. CASE UNCHANGED vars
  BY <1>10, <1>a, <1>b DEF vars
<1> QED
  BY <1>1, <1>2, <1>3, <1>4, <1>5, <1>6, <1>7, <1>8, <1>9, <1>10
  DEF Next, ApiStep, ExecutorStep, ProcessRecord, ExecutorFault

\* The database never shows a COMPLETED job for an unfinished run, and what
\* BullMQ reports as completed is COMPLETED in the database.
THEOREM JobsFinished == Spec => []CompletedJobIsFinished
<1>1. Init => TypeInv /\ QueueInv /\ StatusInv
  BY TypeInit, QueueInit, StatusInit
<1>2. TypeInv /\ QueueInv /\ StatusInv /\ [Next]_vars => (TypeInv /\ QueueInv /\ StatusInv)'
  BY TypeStep, QueueStep, StatusStep
<1>3. StatusInv => CompletedJobIsFinished
  BY DEF StatusInv
<1> QED
  BY <1>1, <1>2, <1>3, PTL DEF Spec

-------------------------------------------------------------------------------
(***************************************************************************)
(* Abandoned runs.  Each fault is charged to the run it hits.  BullMQ's    *)
(* job keeps the account: the attempts that failed, the stalls, and one    *)
(* more while a failure or a crash is not settled yet.                     *)
(***************************************************************************)
Struggling == {"catchRun", "catchJob", "rethrow"}

Owing(r) ==
  \/ \E w \in Executors : ex[w].run = r /\ ex[w].pc \in Struggling
  \/ bull[r].state = "active" /\ ~Held(r)
  \/ bull[r].state = "failed" /\ bull[r].made < MaxAttempts

Bit(b) == IF b THEN 1 ELSE 0
FailedAttempts(b) == IF b.state = "completed" THEN b.made - 1 ELSE b.made

Cost(r) ==
  IF Async
    THEN Bit(api[r] = "failed") + FailedAttempts(bull[r]) + bull[r].stalled + Bit(Owing(r))
    ELSE Bit(Abandoned(r))

BullInv == \A r \in Runs :
  /\ bull[r].state = "completed" => bull[r].made >= 1
  /\ bull[r].state = "failed" /\ bull[r].made < MaxAttempts => bull[r].stalled = MaxStalled
  /\ Async /\ api[r] = "done" => bull[r].state # "absent"

\* The faults charged so far, each to its run.
Charges == {c \in Runs \X (Nat \ {0}) : c[2] <= Cost(c[1])}

ChargesInv == IsFiniteSet(Charges) /\ Cardinality(Charges) <= faults

LEMMA BullInvInit == Init => BullInv
BY DEF Init, BullInv, NoJob

LEMMA BullInvStep == TypeInv /\ QueueInv /\ BullInv /\ [Next]_vars => BullInv'
<1> SUFFICES ASSUME TypeInv, QueueInv, BullInv, [Next]_vars PROVE BullInv'
  OBVIOUS
<1>t. /\ bull \in [Runs -> BullJobs] /\ api \in [Runs -> ApiSteps]
      /\ MaxAttempts \in Nat \ {0} /\ MaxStalled \in Nat
  BY ConstantsAssumption DEF TypeInv
<1>1. CASE UNCHANGED Queues
  BY <1>1 DEF Queues, BullInv, Async
<1>2. ASSUME NEW r \in Runs,
             \/ QueueRun(r) \/ CreateJob(r) \/ EnqueueJob(r)
             \/ RequestFails(r) \/ Backoff(r) \/ Stalled(r)
      PROVE  BullInv'
  <2>1. \A s \in Runs \ {r} : api'[s] = api[s] /\ bull'[s] = bull[s]
    BY <1>2, <1>t DEF QueueRun, CreateJob, EnqueueJob, RequestFails, Backoff, Stalled
  <2>2. CASE QueueRun(r) \/ CreateJob(r) \/ RequestFails(r)
    <3>1. UNCHANGED bull /\ api'[r] # "done"
      BY <2>2, <1>t DEF QueueRun, CreateJob, RequestFails
    <3> QED
      BY <2>1, <3>1 DEF BullInv, Async
  <2>3. CASE EnqueueJob(r) \/ Backoff(r)
    <3>1. bull'[r].state = "waiting"
      BY <2>3, <1>t DEF EnqueueJob, Backoff, BullJobs
    <3> QED
      BY <2>1, <3>1 DEF BullInv, Async
  <2>4. CASE Stalled(r)
    <3>1. bull[r] \in BullJobs /\ bull[r].stalled <= MaxStalled
      BY <2>4, <1>t DEF Stalled, QueueInv, BullAccount, DirectAccount
    <3>2. /\ bull'[r].state \in {"waiting", "failed"} /\ bull'[r].made = bull[r].made
          /\ bull'[r].state = "failed" => bull'[r].stalled = MaxStalled
      BY <2>4, <1>t, <3>1 DEF Stalled, BullJobs
    <3> QED
      BY <2>1, <3>2 DEF BullInv, Async
  <2> QED
    BY <1>2, <2>2, <2>3, <2>4
<1>3. ASSUME NEW w \in Executors, NEW r \in Runs, Deliver(w, r) \/ StartNow(w, r)
      PROVE  BullInv'
  <2>1. CASE Deliver(w, r)
    <3>1. /\ bull'[r].state = "active" /\ UNCHANGED api
          /\ \A s \in Runs \ {r} : bull'[s] = bull[s]
      BY <2>1, <1>t DEF Deliver, BullJobs
    <3> QED
      BY <3>1 DEF BullInv, Async
  <2>2. CASE StartNow(w, r)
    BY <2>2 DEF StartNow, BullInv, Async
  <2> QED
    BY <1>3, <2>1, <2>2
<1>4. ASSUME NEW w \in Executors, Return(w) \/ Rethrow(w) PROVE BullInv'
  <2> DEFINE r == ex[w].run
  <2>1. r \in Runs /\ bull[r] \in BullJobs /\ UNCHANGED api
    BY <1>4, <1>t, BusyType DEF Return, Rethrow
  <2>2. /\ \A s \in Runs \ {r} : bull'[s] = bull[s]
        /\ bull'[r].made = bull[r].made + 1 /\ bull'[r].state # "absent"
        /\ bull'[r].state = "failed" => bull'[r].made >= MaxAttempts
    <3>1. CASE Return(w)
      BY <3>1, <1>t, <2>1 DEF Return, BullJobs
    <3>2. CASE Rethrow(w)
      BY <3>2, <1>t, <2>1 DEF Rethrow, BullJobs
    <3> QED
      BY <1>4, <3>1, <3>2
  <2>3. bull[r].made \in Nat
    BY <2>1 DEF BullJobs
  <2> QED
    BY <1>t, <2>1, <2>2, <2>3 DEF BullInv, Async
<1> QED
  BY QueueSteps, <1>1, <1>2, <1>3, <1>4

\* What a step costs: an executor that works or fails, about its own run.
Working(w) ==
  /\ ex[w].pc # "idle" /\ OnlyExecutor(w) /\ ex'[w].run = ex[w].run
  /\ ex'[w].pc \in Struggling => ex[w].pc \in Struggling
  /\ UNCHANGED <<api, bull, faults>>
  /\ \A s \in Runs \ {ex[w].run} : run'[s] = run[s]

Failing(w) ==
  /\ ex[w].pc # "idle" /\ OnlyExecutor(w) /\ ex'[w].run \in {ex[w].run, NoRun}
  /\ faults' = faults + 1
  /\ UNCHANGED <<api, bull, run>>

LEMMA ChargeSteps ==
  ASSUME TypeInv, [Next]_vars
  PROVE  \/ UNCHANGED <<ex, api, bull, run, faults>>
         \/ \E r \in Runs : QueueRun(r) \/ CreateJob(r) \/ EnqueueJob(r)
              \/ RequestFails(r) \/ Backoff(r) \/ Stalled(r)
         \/ \E w \in Executors, r \in Runs :
              Takes(w, r) /\ (Deliver(w, r) \/ StartNow(w, r))
         \/ \E w \in Executors : Working(w) \/ Failing(w)
         \/ \E w \in Executors : Releases(w) /\ ~Async /\ FinishRun(w)
         \/ \E w \in Executors : Releases(w) /\ (Return(w) \/ Rethrow(w))
<1>1. ASSUME NEW w \in Executors, NEW r \in Runs, Deliver(w, r)
      PROVE  Takes(w, r)
  <2>1. [Idle EXCEPT !.pc = "load", !.run = r].run = r
    BY DEF Idle
  <2> QED
    BY <1>1, <2>1, TakeHolders DEF Deliver
<1>2. ASSUME NEW w \in Executors, NEW r \in Runs, StartNow(w, r)
      PROVE  Takes(w, r)
  <2>1. [Idle EXCEPT !.pc = "createRun", !.run = r, !.base = cursor[PipelineOf(r)]].run = r
    BY DEF Idle
  <2> QED
    BY <1>2, <2>1, TakeHolders DEF StartNow
<1>3. ASSUME NEW w \in Executors,
             \/ CreateRunNow(w) \/ MarkJobProcessing(w) \/ MarkRunRunning(w)
             \/ AdvanceCursor(w) \/ KeepCursor(w) \/ FinishJob(w)
             \/ CatchRun(w) \/ CatchJob(w) \/ (Async /\ FinishRun(w))
      PROVE  Working(w)
  <2>1. /\ ex[w].pc # "idle" /\ UNCHANGED <<api, bull, faults>>
        /\ \E pc \in PCs : Goto(w, pc) /\ (pc \in Struggling => ex[w].pc \in Struggling)
    BY <1>3 DEF CreateRunNow, MarkJobProcessing, MarkRunRunning, AdvanceCursor,
      KeepCursor, RecordsDone, FinishRun, FinishJob, CatchRun, CatchJob, PCs, Struggling
  <2>2. UNCHANGED run \/ \E row : run' = [run EXCEPT ![ex[w].run] = row]
    BY <1>3 DEF CreateRunNow, MarkJobProcessing, MarkRunRunning, AdvanceCursor,
      KeepCursor, FinishRun, FinishJob, CatchRun, CatchJob
  <2>3. \A s \in Runs \ {ex[w].run} : run'[s] = run[s]
    BY <2>2, RunTypes
  <2> QED
    BY <2>1, <2>3, GotoLocals DEF Working, Keeps
<1>4. ASSUME NEW w \in Executors, Load(w) \/ BeginRecords(w) PROVE Working(w)
  <2>1. PICK e \in ExecutorLocals :
          Become(w, e) /\ e.run = ex[w].run /\ e.pc \in {"markJob", "records"}
    <3>1. CASE Load(w)
      <4> DEFINE e == [ex[w] EXCEPT !.pc = "markJob", !.base = cursor[PipelineOf(ex[w].run)]]
      <4>1. ex[w] \in ExecutorLocals /\ ex[w].run \in Runs
        BY <3>1, BusyType DEF Load
      <4>2. cursor[PipelineOf(ex[w].run)] \in Cursors
        BY <4>1, RequestType DEF TypeInv
      <4>3. e \in ExecutorLocals /\ e.run = ex[w].run /\ e.pc = "markJob"
        BY <4>1, <4>2 DEF ExecutorLocals, PCs
      <4> QED
        BY <3>1, <4>3 DEF Load
    <3>2. CASE BeginRecords(w)
      <4> DEFINE left == EligibleRecords(ex[w].run, ex[w].base)
                 e == [ex[w] EXCEPT !.pc = "records", !.left = left]
      <4>1. ex[w] \in ExecutorLocals /\ ex[w].run \in Runs
        BY <3>2, BusyType DEF BeginRecords
      <4>2. left \in SUBSET Nat
        BY <4>1, RequestType, EligibleType
      <4> HIDE DEF left
      <4>3. e \in ExecutorLocals /\ e.run = ex[w].run /\ e.pc = "records"
        BY <4>1, <4>2 DEF ExecutorLocals, PCs
      <4> QED
        BY <3>2, <4>3 DEF BeginRecords, left
    <3> QED
      BY <1>4, <3>1, <3>2
  <2>2. /\ ex[w].pc # "idle" /\ UNCHANGED <<api, run, bull, faults>>
        /\ OnlyExecutor(w) /\ ex'[w] = e
    BY <1>4, <2>1, BecomeLocals DEF Load, BeginRecords
  <2> QED
    BY <2>1, <2>2 DEF Working, Struggling
<1>5. ASSUME NEW w \in Executors, NEW i \in ex[w].left,
             RejectRecord(w, i) \/ StoreRecord(w, i)
      PROVE  Working(w)
  <2>1. /\ IsNext(w, i) /\ UNCHANGED <<api, run, bull, faults>>
        /\ Become(w, AfterFailure(ex[w], i)) \/ Become(w, AfterStore(ex[w], i, 0))
    BY <1>5 DEF RejectRecord, StoreRecord
  <2>2. ex[w].pc = "records" /\ i \in Positions(ex[w].run)
    BY <2>1, NextPosition
  <2>3. OnlyExecutor(w) /\ ex'[w].run = ex[w].run /\ ex'[w].pc = "records"
    BY <2>1, <2>2, BusyType, BecomeLocals, AfterFailureType, AfterStoreType
  <2> QED
    BY <2>1, <2>2, <2>3 DEF Working, Struggling
<1>6. ASSUME NEW w \in Executors, NEW i \in ex[w].left,
             StoreRecordFails(w, i) \/ StoreRecordAuditFails(w, i)
      PROVE  Failing(w)
  <2>1. /\ IsNext(w, i) /\ UNCHANGED <<api, run, bull>> /\ faults' = faults + 1
        /\ Become(w, AfterFailure(ex[w], i)) \/ Become(w, AfterStore(ex[w], i, 1))
    BY <1>6 DEF StoreRecordFails, StoreRecordAuditFails, Fault
  <2>2. ex[w].pc = "records" /\ i \in Positions(ex[w].run)
    BY <2>1, NextPosition
  <2>3. OnlyExecutor(w) /\ ex'[w].run = ex[w].run
    BY <2>1, <2>2, BusyType, BecomeLocals, AfterFailureType, AfterStoreType
  <2> QED
    BY <2>1, <2>2, <2>3 DEF Failing
<1>7. ASSUME NEW w \in Executors, Throw(w) \/ Crash(w) PROVE Failing(w)
  <2>1. /\ ex[w].pc # "idle" /\ UNCHANGED <<api, run, bull>> /\ faults' = faults + 1
        /\ Release(w) \/ \E pc \in PCs : Goto(w, pc)
    BY <1>7, AwaitsIsBusy DEF Throw, Crash, Fault, PCs
  <2>2. Idle.run = NoRun
    BY DEF Idle
  <2> QED
    BY <2>1, <2>2, GotoLocals, ReleaseLocals DEF Failing, Keeps
<1>8. ASSUME NEW w \in Executors, Return(w) \/ Rethrow(w) \/ (~Async /\ FinishRun(w))
      PROVE  Releases(w)
  BY <1>8, ReleaseHolders DEF Return, Rethrow, FinishRun
<1>9. UNCHANGED vars => UNCHANGED <<ex, api, bull, run, faults>>
  BY DEF vars
<1> QED
  BY <1>1, <1>2, <1>3, <1>4, <1>5, <1>6, <1>7, <1>8, <1>9
  DEF Next, ApiStep, ExecutorStep, ProcessRecord, ExecutorFault

ChargeInv == TypeInv /\ QueueInv /\ StatusInv /\ BullInv

LEMMA BitType == \A b : Bit(b) \in {0, 1} /\ (b => Bit(b) = 1) /\ (~b => Bit(b) = 0)
BY DEF Bit

LEMMA CostType ==
  ASSUME TypeInv, BullInv, NEW r \in Runs
  PROVE  Cost(r) \in Nat /\ FailedAttempts(bull[r]) \in Nat /\ bull[r] \in BullJobs
<1>1. bull[r] \in BullJobs /\ FailedAttempts(bull[r]) \in Nat /\ bull[r].stalled \in Nat
  BY DEF TypeInv, BullInv, BullJobs, FailedAttempts
<1>2. Bit(api[r] = "failed") \in {0, 1} /\ Bit(Owing(r)) \in {0, 1} /\ Bit(Abandoned(r)) \in {0, 1}
  BY BitType
<1> QED
  BY <1>1, <1>2 DEF Cost

LEMMA NextCostType ==
  ASSUME ChargeInv'
  PROVE  \A r \in Runs : Cost(r)' \in Nat
<1>1. ASSUME NEW r \in Runs PROVE Cost(r)' \in Nat
  <2>1. FailedAttempts(bull[r])' \in Nat /\ bull'[r].stalled \in Nat
    BY DEF ChargeInv, TypeInv, BullInv, BullJobs, FailedAttempts
  <2>2. \A b : Bit(b) \in {0, 1}
    BY BitType
  <2> QED
    BY <2>1, <2>2 DEF Cost, Bit
<1> QED
  BY <1>1

\* A run the step does not touch costs what it did.
LEMMA SameCost ==
  ASSUME TypeInv, BullInv, BullInv', TypeInv', NEW r \in Runs,
         api'[r] = api[r], bull'[r] = bull[r],
         Async => (Owing(r)' => Owing(r)),
         ~Async => (Abandoned(r)' => Abandoned(r))
  PROVE  Cost(r)' <= Cost(r)
<1>1. FailedAttempts(bull[r]) \in Nat /\ bull[r].stalled \in Nat
  BY CostType DEF BullJobs
<1>2. CASE Async
  <2>1. /\ Cost(r) = Bit(api[r] = "failed") + FailedAttempts(bull[r]) + bull[r].stalled
                       + Bit(Owing(r))
        /\ Cost(r)' = Bit(api[r] = "failed") + FailedAttempts(bull[r]) + bull[r].stalled
                       + Bit(Owing(r)')
    BY <1>2 DEF Cost, Async, Bit, FailedAttempts
  <2>2. Bit(api[r] = "failed") \in {0, 1}
    BY BitType
  <2>3. Bit(Owing(r)') <= Bit(Owing(r)) /\ Bit(Owing(r)) \in {0, 1} /\ Bit(Owing(r)') \in {0, 1}
    BY <1>2 DEF Bit
  <2> QED
    BY <1>1, <2>1, <2>2, <2>3
<1>3. CASE ~Async
  BY <1>3 DEF Cost, Async, Bit
<1> QED
  BY <1>2, <1>3

\* And with the executor's own fault it costs at most one more.
LEMMA OneMoreCost ==
  ASSUME TypeInv, BullInv, BullInv', TypeInv', NEW r \in Runs,
         Async => api'[r] = api[r] \/ (Owing(r)' <=> Owing(r)), bull'[r] = bull[r]
  PROVE  Cost(r)' <= Cost(r) + 1
<1>1. FailedAttempts(bull[r]) \in Nat /\ bull[r].stalled \in Nat
  BY CostType DEF BullJobs
<1>2. CASE Async
  <2> DEFINE a == Bit(api[r] = "failed")
             b == Bit(api'[r] = "failed")
             c == Bit(Owing(r))
             d == Bit(Owing(r)')
  <2>1. /\ Cost(r) = a + FailedAttempts(bull[r]) + bull[r].stalled + c
        /\ Cost(r)' = b + FailedAttempts(bull[r]) + bull[r].stalled + d
    BY <1>2 DEF Cost, Async, Bit, FailedAttempts
  <2>2. a \in {0, 1} /\ b \in {0, 1} /\ c \in {0, 1} /\ d \in {0, 1}
    BY BitType
  <2>3. a = b \/ c = d
    BY <1>2 DEF Bit
  <2> HIDE DEF a, b, c, d
  <2> QED
    BY <1>1, <2>1, <2>2, <2>3
<1>3. CASE ~Async
  BY <1>3 DEF Cost, Async, Bit
<1> QED
  BY <1>2, <1>3

\* What is charged to a run depends on no executor of another run.
LEMMA OtherRun ==
  ASSUME NEW w \in Executors, OnlyExecutor(w), NEW s \in Runs,
         s # ex[w].run, s # ex'[w].run, api'[s] = api[s], bull'[s] = bull[s]
  PROVE  /\ Owing(s)' <=> Owing(s)
         /\ run'[s] = run[s] => (Abandoned(s)' <=> Abandoned(s))
<1>1. \A v \in Executors : ex'[v].run = s <=> ex[v].run = s
  BY DEF OnlyExecutor
<1>2. Held(s)' <=> Held(s)
  BY <1>1 DEF Held
<1>3. \A v \in Executors : ex[v].run = s => ex'[v] = ex[v]
  BY DEF OnlyExecutor
<1>4. Owing(s)' <=> Owing(s)
  BY <1>1, <1>2, <1>3 DEF Owing
<1> QED
  BY <1>2, <1>4 DEF Abandoned

LEMMA OtherCost ==
  ASSUME ChargeInv, ChargeInv', NEW w \in Executors, OnlyExecutor(w), NEW s \in Runs,
         s # ex[w].run, s # ex'[w].run,
         api'[s] = api[s], bull'[s] = bull[s], run'[s] = run[s]
  PROVE  Cost(s)' <= Cost(s)
BY OtherRun, SameCost DEF ChargeInv

\* Every step, by what it costs: nothing, or one fault of one run.
LEMMA CostSteps ==
  ASSUME ChargeInv, ChargeInv', [Next]_vars
  PROVE  \/ /\ UNCHANGED faults
            /\ \A s \in Runs : Cost(s)' <= Cost(s)
         \/ /\ faults' = faults + 1
            /\ \E r \in Runs :
                 /\ Cost(r)' <= Cost(r) + 1
                 /\ \A s \in Runs \ {r} : Cost(s)' <= Cost(s)
<1> DEFINE Free == UNCHANGED faults /\ \A s \in Runs : Cost(s)' <= Cost(s)
           Charged == /\ faults' = faults + 1
                      /\ \E r \in Runs : /\ Cost(r)' <= Cost(r) + 1
                                         /\ \A s \in Runs \ {r} : Cost(s)' <= Cost(s)
<1>t. /\ TypeInv /\ TypeInv' /\ QueueInv /\ BullInv /\ BullInv' /\ StatusInv
      /\ bull \in [Runs -> BullJobs] /\ api \in [Runs -> ApiSteps] /\ NoRun \notin Runs
      /\ run \in [Runs -> SyncRunRows]
      /\ MaxAttempts \in Nat \ {0} /\ MaxStalled \in Nat
  BY ConstantsAssumption DEF ChargeInv, TypeInv
<1>c. \A s \in Runs : Cost(s) \in Nat /\ FailedAttempts(bull[s]) \in Nat
  BY <1>t, CostType
<1>1. CASE UNCHANGED <<ex, api, bull, run, faults>>
  <2>1. ASSUME NEW s \in Runs PROVE Cost(s)' <= Cost(s)
    <3>1. (Owing(s)' <=> Owing(s)) /\ (Abandoned(s)' <=> Abandoned(s))
      BY <1>1 DEF Owing, Abandoned, Held
    <3> QED
      BY <1>1, <1>t, <3>1, SameCost
  <2> QED
    BY <1>1, <2>1
<1>2. ASSUME NEW r \in Runs,
             QueueRun(r) \/ CreateJob(r) \/ EnqueueJob(r) \/ RequestFails(r) \/ Backoff(r) \/ Stalled(r)
      PROVE  Free \/ Charged
  <2>1. /\ UNCHANGED ex
        /\ \A s \in Runs \ {r} : api'[s] = api[s] /\ bull'[s] = bull[s] /\ run'[s] = run[s]
    BY <1>2, <1>t DEF QueueRun, CreateJob, EnqueueJob, RequestFails, Backoff, Stalled
  <2>2. Async
    BY <1>2, <1>t DEF QueueRun, CreateJob, EnqueueJob, RequestFails, Backoff, Stalled, QueueInv,
      DirectAccount
  <2>3. ASSUME NEW s \in Runs \ {r} PROVE Cost(s)' <= Cost(s)
    <3>1. Owing(s)' <=> Owing(s)
      BY <2>1 DEF Owing, Held
    <3> QED
      BY <1>t, <2>1, <2>2, <3>1, SameCost
  <2>4. CASE QueueRun(r) \/ CreateJob(r)
    <3>1. /\ UNCHANGED <<faults, bull>> /\ api[r] # "failed" /\ api'[r] # "failed"
          /\ Owing(r)' <=> Owing(r)
      BY <2>4, <1>t, <2>1 DEF QueueRun, CreateJob, Owing, Held
    <3>2. Cost(r)' = Cost(r)
      BY <2>2, <3>1 DEF Cost, Async, Bit, FailedAttempts
    <3> QED
      BY <1>c, <2>3, <3>1, <3>2
  <2>5. CASE RequestFails(r)
    <3>1. UNCHANGED bull /\ (Owing(r)' <=> Owing(r)) /\ faults' = faults + 1
      BY <2>5, <2>1 DEF RequestFails, Fault, Owing, Held
    <3>2. Cost(r)' <= Cost(r) + 1
      BY <1>t, <3>1, OneMoreCost
    <3> QED
      BY <2>3, <3>1, <3>2
  <2>6. CASE EnqueueJob(r) \/ Backoff(r)
    <3>1. /\ UNCHANGED faults /\ (api'[r] # "failed" \/ api'[r] = api[r])
          /\ bull[r].state \in {"absent", "delayed"} /\ bull'[r].state = "waiting"
          /\ bull'[r].made = bull[r].made /\ bull'[r].stalled = bull[r].stalled
      BY <2>6, <1>t, <2>2 DEF EnqueueJob, Backoff, BullJobs, QueueInv, BullAccount
    <3>2. Owing(r)' => Owing(r)
      BY <2>1, <3>1 DEF Owing, Held
    <3>3. /\ Cost(r)' = Bit(api'[r] = "failed") + bull[r].made + bull[r].stalled + Bit(Owing(r)')
          /\ Cost(r) = Bit(api[r] = "failed") + bull[r].made + bull[r].stalled + Bit(Owing(r))
      BY <2>2, <3>1 DEF Cost, Async, Bit, FailedAttempts
    <3>4. /\ Bit(Owing(r)') <= Bit(Owing(r)) /\ Bit(api'[r] = "failed") <= Bit(api[r] = "failed")
          /\ Bit(Owing(r)') \in {0, 1} /\ Bit(Owing(r)) \in {0, 1}
          /\ Bit(api'[r] = "failed") \in {0, 1} /\ Bit(api[r] = "failed") \in {0, 1}
      BY <3>1, <3>2 DEF Bit
    <3>5. bull[r].made \in Nat /\ bull[r].stalled \in Nat
      BY <1>t DEF BullJobs
    <3>6. Cost(r)' <= Cost(r)
      BY <3>3, <3>4, <3>5
    <3> QED
      BY <2>3, <3>1, <3>6, <2>6 DEF EnqueueJob, Backoff
  <2>7. CASE Stalled(r)
    <3>1. /\ UNCHANGED <<api, faults>> /\ bull[r].state = "active" /\ ~Held(r) /\ ~Held(r)'
          /\ bull[r].made < MaxAttempts /\ bull'[r].made = bull[r].made
          /\ \/ bull'[r].state = "waiting" /\ bull'[r].stalled = bull[r].stalled + 1
             \/ bull'[r].state = "failed" /\ bull'[r].stalled = bull[r].stalled
      <4>1. bull[r].made < MaxAttempts /\ bull[r] \in BullJobs
        BY <2>7, <1>t, <2>2 DEF Stalled, QueueInv, BullAccount
      <4> QED
        BY <2>7, <1>t, <2>1, <4>1 DEF Stalled, BullJobs, Held
    <3>2. /\ Owing(r)
          /\ bull'[r].state = "waiting" => ~Owing(r)'
      BY <2>1, <3>1 DEF Owing, Held
    <3>3. /\ Cost(r)' = Bit(api[r] = "failed") + bull[r].made + bull'[r].stalled + Bit(Owing(r)')
          /\ Cost(r) = Bit(api[r] = "failed") + bull[r].made + bull[r].stalled + 1
      BY <2>2, <3>1, <3>2 DEF Cost, Async, Bit, FailedAttempts
    <3>4. /\ bull[r].made \in Nat /\ bull[r].stalled \in Nat /\ Bit(api[r] = "failed") \in {0, 1}
          /\ Bit(Owing(r)') \in {0, 1}
          /\ bull'[r].state = "waiting" => Bit(Owing(r)') = 0
      BY <1>t, <3>2 DEF BullJobs, Bit
    <3>5. Cost(r)' <= Cost(r)
      BY <3>1, <3>3, <3>4
    <3> QED
      BY <2>3, <3>1, <3>5
  <2> QED
    BY <1>2, <2>4, <2>5, <2>6, <2>7
<1>3. ASSUME NEW w \in Executors, NEW r \in Runs, Takes(w, r), Deliver(w, r) \/ StartNow(w, r)
      PROVE  Free
  <2>1. /\ OnlyExecutor(w) /\ UNCHANGED <<run, faults>>
        /\ \A s \in Runs \ {r} : api'[s] = api[s] /\ bull'[s] = bull[s]
        /\ ex[w].run = NoRun /\ ex'[w].run = r
    BY <1>3, <1>t, BecomeLocals DEF Deliver, StartNow, Takes
  <2>2. \A s \in Runs \ {r} : Cost(s)' <= Cost(s)
    BY <2>1, <1>t, OtherCost
  <2>3. Held(r)'
    BY <2>1 DEF Held
  <2>4. CASE Deliver(w, r)
    <3>1. /\ UNCHANGED api /\ bull[r].state = "waiting" /\ bull'[r].state = "active"
          /\ bull'[r].made = bull[r].made /\ bull'[r].stalled = bull[r].stalled
          /\ Async
      BY <2>4, <1>t DEF Deliver, BullJobs
    <3>2. \A v \in Executors : ex[v].run # r
      BY <3>1, <1>t DEF QueueInv, HoldersAreActive
    <3>3. ex'[w].pc = "load"
      <4>1. [Idle EXCEPT !.pc = "load", !.run = r].pc = "load"
        BY DEF Idle
      <4> QED
        BY <2>4, <4>1, <1>t, BecomeLocals DEF Deliver
    <3>4. ~Owing(r)'
      BY <2>1, <2>3, <3>1, <3>2, <3>3 DEF Owing, OnlyExecutor, Struggling
    <3>5. /\ Cost(r)' = Bit(api[r] = "failed") + bull[r].made + bull[r].stalled + 0
          /\ Cost(r) = Bit(api[r] = "failed") + bull[r].made + bull[r].stalled + Bit(Owing(r))
      BY <3>1, <3>4 DEF Cost, Async, Bit, FailedAttempts
    <3>6. /\ bull[r].made \in Nat /\ bull[r].stalled \in Nat
          /\ Bit(api[r] = "failed") \in {0, 1} /\ Bit(Owing(r)) \in {0, 1}
      BY <1>t DEF BullJobs, Bit
    <3>7. Cost(r)' <= Cost(r)
      BY <3>5, <3>6
    <3> QED
      BY <2>1, <2>2, <3>7
  <2>5. CASE StartNow(w, r)
    <3>1. ~Async /\ ~Abandoned(r)'
      BY <2>3, <2>5 DEF StartNow, Abandoned
    <3>2. Cost(r)' = 0
      BY <3>1 DEF Cost, Async, Bit
    <3> QED
      BY <1>c, <2>1, <2>2, <3>2
  <2> QED
    BY <1>3, <2>4, <2>5
<1>4. ASSUME NEW w \in Executors, Working(w) PROVE Free
  <2>0. PICK r \in Runs : r = ex[w].run
    BY <1>4, <1>t, BusyType DEF Working
  <2>1. /\ r = ex[w].run /\ OnlyExecutor(w) /\ ex'[w].run = r
        /\ UNCHANGED <<api, bull, faults>>
        /\ \A s \in Runs \ {r} : run'[s] = run[s]
        /\ ex'[w].pc \in Struggling => ex[w].pc \in Struggling
    BY <1>4, <2>0 DEF Working
  <2>2. \A s \in Runs \ {r} : Cost(s)' <= Cost(s)
    BY <2>1, OtherCost
  <2>3. Held(r) /\ Held(r)'
    BY <2>1 DEF Held
  <2>4. ~Abandoned(r)' /\ (Owing(r)' => Owing(r))
    BY <2>1, <2>3 DEF Abandoned, Owing, OnlyExecutor
  <2>5. Cost(r)' <= Cost(r)
    BY <1>t, <2>1, <2>4, SameCost
  <2> QED
    BY <2>1, <2>2, <2>5
<1>5. ASSUME NEW w \in Executors, Failing(w) PROVE Charged
  <2>0. PICK r \in Runs : r = ex[w].run
    BY <1>5, <1>t, BusyType DEF Failing
  <2>1. /\ r = ex[w].run /\ OnlyExecutor(w) /\ ex'[w].run \in {r, NoRun}
        /\ faults' = faults + 1 /\ UNCHANGED <<api, bull, run>>
    BY <1>5, <2>0 DEF Failing
  <2>2. \A s \in Runs \ {r} : Cost(s)' <= Cost(s)
    BY <1>t, <2>1, OtherCost
  <2>3. Cost(r)' <= Cost(r) + 1
    BY <1>t, <2>1, OneMoreCost
  <2> QED
    BY <2>1, <2>2, <2>3
<1>6. ASSUME NEW w \in Executors, Releases(w), ~Async, FinishRun(w) PROVE Free
  <2>0. PICK r \in Runs : r = ex[w].run
    BY <1>6, <1>t, BusyType DEF FinishRun
  <2>1. /\ r = ex[w].run /\ OnlyExecutor(w) /\ ex'[w].run = NoRun
        /\ UNCHANGED <<api, bull, faults>>
        /\ run' = [run EXCEPT ![r] = Outcome(ex[w])]
    BY <1>6, <1>t, <2>0, ReleaseLocals DEF FinishRun, Releases
  <2>2. \A s \in Runs \ {r} : Cost(s)' <= Cost(s)
    BY <1>t, <2>1, OtherCost
  <2>3. run'[r].status \in {"SUCCESS", "FAILED"}
    BY <1>t, <2>1 DEF Outcome
  <2>4. Cost(r)' = 0
    BY <1>6, <2>3 DEF Cost, Async, Bit, Abandoned
  <2> QED
    BY <1>c, <2>1, <2>2, <2>4
<1>7. ASSUME NEW w \in Executors, Releases(w), Return(w) \/ Rethrow(w) PROVE Free
  <2>0. PICK r \in Runs : r = ex[w].run
    BY <1>7, <1>t, BusyType DEF Return, Rethrow
  <2>1. /\ r = ex[w].run /\ OnlyExecutor(w) /\ ex'[w].run = NoRun /\ Async
        /\ UNCHANGED <<api, run, faults>>
        /\ \A s \in Runs \ {r} : bull'[s] = bull[s]
    <3>1. ex[w].pc \in {"report", "rethrow"}
      BY <1>7 DEF Return, Rethrow
    <3> QED
      BY <1>7, <1>t, <2>0, <3>1, BusyType, ReleaseLocals DEF Return, Rethrow, Releases, DirectPCs
  <2>2. \A s \in Runs \ {r} : Cost(s)' <= Cost(s)
    BY <1>t, <2>1, OtherCost
  <2>3. bull[r].state = "active" /\ bull[r] \in BullJobs
    BY <1>t, <2>1 DEF QueueInv, HoldersAreActive
  <2>4. ~Held(r)'
    BY <1>t, <2>1 DEF Held, OnlyExecutor, QueueInv, OneHolder
  <2>5. /\ bull'[r].made = bull[r].made + 1 /\ bull'[r].stalled = bull[r].stalled
        /\ \/ Return(w) /\ bull'[r].state = "completed"
           \/ /\ ex[w].pc = "rethrow" /\ bull'[r].state \in {"delayed", "failed"}
              /\ bull'[r].state = "failed" => bull[r].made + 1 >= MaxAttempts
    <3>1. CASE Return(w)
      BY <1>t, <2>1, <2>3, <3>1 DEF Return, BullJobs
    <3>2. CASE Rethrow(w)
      BY <1>t, <2>1, <2>3, <3>2 DEF Rethrow, BullJobs
    <3> QED
      BY <1>7, <3>1, <3>2
  <2>6. bull[r].made \in Nat /\ bull[r].stalled \in Nat
    BY <2>3 DEF BullJobs
  <2>7. ~Owing(r)'
    BY <1>t, <2>4, <2>5, <2>6 DEF Owing, Held
  <2>8. /\ bull'[r].state = "completed" \/ Owing(r)
        /\ bull'[r].state = "completed" \/ bull'[r].state \in {"delayed", "failed"}
    BY <2>1, <2>5 DEF Owing, Struggling
  <2> DEFINE a == Bit(api[r] = "failed")
             c == Bit(Owing(r))
             m == bull[r].made
             n == bull[r].stalled
  <2>9. a \in {0, 1} /\ c \in {0, 1} /\ (Owing(r) => c = 1) /\ m \in Nat /\ n \in Nat
    BY <2>6, BitType
  <2>10. /\ Cost(r) = a + m + n + c
         /\ bull'[r].state = "completed" => Cost(r)' = a + ((m + 1) - 1) + n + 0
         /\ bull'[r].state # "completed" => Cost(r)' = a + (m + 1) + n + 0
    BY <2>1, <2>3, <2>5, <2>7 DEF Cost, Async, Bit, FailedAttempts
  <2> HIDE DEF a, c, m, n
  <2>11. Cost(r)' <= Cost(r)
    BY <2>8, <2>9, <2>10
  <2> QED
    BY <2>1, <2>2, <2>11
<1> QED
  BY <1>t, <1>1, <1>2, <1>3, <1>4, <1>5, <1>6, <1>7, ChargeSteps

LEMMA ChargesInit == ChargeInv /\ Init => ChargesInv
<1> SUFFICES ASSUME ChargeInv, Init PROVE ChargesInv
  OBVIOUS
<1>1. ASSUME NEW r \in Runs PROVE Cost(r) = 0
  <2>1. ~Owing(r) /\ ~Abandoned(r)
    BY DEF Init, Owing, Abandoned, Idle, NoJob, NewRun, Struggling
  <2> QED
    BY <2>1 DEF Init, Cost, Bit, FailedAttempts, NoJob
<1>2. Charges = {}
  BY <1>1 DEF Charges
<1> QED
  BY <1>2, FS_EmptySet DEF ChargesInv, Init

LEMMA ChargesStep == ChargeInv /\ ChargeInv' /\ ChargesInv /\ [Next]_vars => ChargesInv'
<1> SUFFICES ASSUME ChargeInv, ChargeInv', ChargesInv, [Next]_vars PROVE ChargesInv'
  OBVIOUS
<1>0. IsFiniteSet(Charges) /\ Cardinality(Charges) \in Nat /\ faults \in Nat
  BY FS_CardinalityType DEF ChargesInv, ChargeInv, TypeInv
<1>1. CASE UNCHANGED faults /\ \A s \in Runs : Cost(s)' <= Cost(s)
  <2>1. \A s \in Runs : Cost(s) \in Nat /\ Cost(s)' \in Nat
    <3>1. \A s \in Runs : Cost(s) \in Nat
      BY CostType DEF ChargeInv
    <3> QED
      BY <3>1, NextCostType
  <2>2. Charges' \subseteq Charges
    BY <1>1, <2>1 DEF Charges
  <2>3. IsFiniteSet(Charges') /\ Cardinality(Charges') <= Cardinality(Charges)
    BY <1>0, <2>2, FS_Subset
  <2>4. Cardinality(Charges') \in Nat
    BY <2>3, FS_CardinalityType
  <2> QED
    BY <1>0, <1>1, <2>3, <2>4 DEF ChargesInv
<1>2. ASSUME NEW r \in Runs, faults' = faults + 1, Cost(r)' <= Cost(r) + 1,
             \A s \in Runs \ {r} : Cost(s)' <= Cost(s)
      PROVE  ChargesInv'
  <2> DEFINE e == <<r, Cost(r) + 1>>
  <2>1. \A s \in Runs : Cost(s) \in Nat /\ Cost(s)' \in Nat
    <3>1. \A s \in Runs : Cost(s) \in Nat
      BY CostType DEF ChargeInv
    <3> QED
      BY <3>1, NextCostType
  <2>2. Charges' \subseteq Charges \cup {e}
    <3> SUFFICES ASSUME NEW s \in Runs, NEW k \in Nat \ {0}, k <= Cost(s)'
                 PROVE  k <= Cost(s) \/ <<s, k>> = e
      BY DEF Charges
    <3>1. CASE s = r
      BY <1>2, <2>1, <3>1
    <3>2. CASE s # r
      BY <1>2, <2>1, <3>2
    <3> QED
      BY <3>1, <3>2
  <2> HIDE DEF e
  <2>3. /\ IsFiniteSet(Charges \cup {e})
        /\ Cardinality(Charges \cup {e}) \in {Cardinality(Charges), Cardinality(Charges) + 1}
    BY <1>0, FS_AddElement
  <2>4. IsFiniteSet(Charges') /\ Cardinality(Charges') <= Cardinality(Charges \cup {e})
    BY <2>2, <2>3, FS_Subset
  <2>5. Cardinality(Charges') \in Nat
    BY <2>4, FS_CardinalityType
  <2>6. Cardinality(Charges) <= faults
    BY DEF ChargesInv
  <2>7. Cardinality(Charges') <= faults'
    BY <1>0, <1>2, <2>3, <2>4, <2>5, <2>6
  <2> QED
    BY <2>4, <2>7 DEF ChargesInv
<1> QED
  BY <1>1, <1>2, CostSteps

\* What it takes to abandon a run has been charged to it.
LEMMA AbandonedIsCharged ==
  ASSUME ChargeInv, NEW r \in Runs
  PROVE  FaultsToAbandon(r) <= Cost(r)
<1>t. /\ TypeInv /\ QueueInv /\ BullInv /\ StatusInv /\ bull[r] \in BullJobs
      /\ MaxAttempts \in Nat \ {0} /\ MaxStalled \in Nat
  BY ConstantsAssumption DEF ChargeInv, TypeInv
<1>0. Cost(r) \in Nat
  BY <1>t, CostType
<1>1. CASE ~Abandoned(r)
  BY <1>0, <1>1 DEF FaultsToAbandon
<1>2. CASE Abandoned(r) /\ ~Async
  BY <1>t, <1>2 DEF FaultsToAbandon, Cost, Bit, QueueInv, DirectAccount
<1>3. CASE Abandoned(r) /\ Async
  <2> DEFINE a == Bit(api[r] = "failed")
             c == Bit(Owing(r))
             m == bull[r].made
             n == bull[r].stalled
  <2>1. bull[r].state \in {"absent", "failed"}
    BY <1>t, <1>3 DEF Abandoned, StatusInv, CompletedJobIsFinished
  <2>2. Cost(r) = a + m + n + c
    BY <1>3, <2>1 DEF Cost, FailedAttempts
  <2>3. /\ m \in Nat /\ n \in Nat /\ a \in {0, 1} /\ c \in {0, 1}
        /\ api[r] = "failed" => a = 1
        /\ Owing(r) => c = 1
    BY <1>t, BitType DEF BullJobs
  <2>4. CASE bull[r].state = "absent"
    <3>1. api[r] = "failed"
      BY <1>t, <1>3, <2>4 DEF Abandoned, BullInv
    <3>2. FaultsToAbandon(r) = 1 /\ a = 1
      BY <1>3, <2>3, <2>4, <3>1 DEF FaultsToAbandon
    <3> HIDE DEF a, c, m, n
    <3> QED
      BY <2>2, <2>3, <3>2
  <2>5. CASE bull[r].state = "failed"
    <3>1. /\ FaultsToAbandon(r) <= MaxAttempts /\ FaultsToAbandon(r) <= MaxStalled + 1
      BY <1>t, <1>3, <2>5 DEF FaultsToAbandon
    <3>2. FaultsToAbandon(r) \in Nat
      BY <1>t, <1>3, <2>5 DEF FaultsToAbandon
    <3>3. m < MaxAttempts => n = MaxStalled /\ c = 1
      BY <1>t, <2>3, <2>5 DEF BullInv, Owing
    <3> HIDE DEF a, c, m, n
    <3> QED
      BY <1>t, <2>2, <2>3, <3>1, <3>2, <3>3
  <2> QED
    BY <2>1, <2>4, <2>5
<1> QED
  BY <1>1, <1>2, <1>3

\* queueSyncRun, executeSyncRunNow and processQueuedSyncRun: a run left
\* unfinished for ever has cost faults that no other abandoned run shares, in
\* async mode as many as BullMQ's attempts or stalls once its job was queued.
THEOREM AbandoningCostsFaults == Spec => []AbandonedRunsCostFaults
<1>1. Init => ChargeInv /\ ChargesInv
  BY TypeInit, QueueInit, StatusInit, BullInvInit, ChargesInit DEF ChargeInv
<1>2. ChargeInv /\ ChargesInv /\ [Next]_vars => (ChargeInv /\ ChargesInv)'
  <2>1. ChargeInv /\ [Next]_vars => ChargeInv'
    BY TypeStep, QueueStep, StatusStep, BullInvStep DEF ChargeInv
  <2> QED
    BY <2>1, ChargesStep
<1>3. ChargeInv /\ ChargesInv => AbandonedRunsCostFaults
  <2> SUFFICES ASSUME ChargeInv, ChargesInv PROVE AbandonedRunsCostFaults
    OBVIOUS
  <2> DEFINE taken == UNION {{r} \X (1..FaultsToAbandon(r)) : r \in Runs}
  <2>1. \A r \in Runs : FaultsToAbandon(r) \in Nat /\ Cost(r) \in Nat
    BY CostType, ConstantsAssumption DEF ChargeInv, FaultsToAbandon
  <2>2. taken \subseteq Charges
    <3> SUFFICES ASSUME NEW r \in Runs, NEW k \in 1..FaultsToAbandon(r)
                 PROVE  <<r, k>> \in Charges
      OBVIOUS
    <3>1. k \in Nat \ {0} /\ k <= Cost(r)
      BY <2>1, AbandonedIsCharged
    <3> QED
      BY <3>1 DEF Charges
  <2> HIDE DEF taken
  <2>3. IsFiniteSet(taken) /\ Cardinality(taken) <= Cardinality(Charges)
    BY <2>2, FS_Subset DEF ChargesInv
  <2>4. Cardinality(taken) \in Nat /\ Cardinality(Charges) \in Nat /\ faults \in Nat
    BY <2>3, FS_CardinalityType DEF ChargesInv, ChargeInv, TypeInv
  <2>5. Cardinality(taken) <= faults
    BY <2>3, <2>4 DEF ChargesInv
  <2> QED
    BY <2>5 DEF AbandonedRunsCostFaults, taken
<1> QED
  BY <1>1, <1>2, <1>3, PTL DEF Spec

-------------------------------------------------------------------------------
(***************************************************************************)
(* SyncRuns implements IngestLedger.                                       *)
(***************************************************************************)
\* The cursor an executor would write is a record its own run has stored.
OwnBacked(table, r, c) ==
  c # NoCursor => \E i \in Positions(r) : table[r][i] > 0 /\ Record(r, i).candidate = c

OwnInv ==
  \A w \in Executors : ex[w].run \in Runs => OwnBacked(rows, ex[w].run, ex[w].maxCursor)

LEMMA OwnInit == Init => OwnInv
BY DEF Init, OwnInv, OwnBacked, Idle

LEMMA OwnStays ==
  ASSUME TypeInv, [Next]_vars, NEW r \in Runs, NEW c, OwnBacked(rows, r, c)
  PROVE  OwnBacked(rows', r, c)
BY StoredStays DEF OwnBacked

LEMMA OwnStep == TypeInv /\ OwnInv /\ [Next]_vars => OwnInv'
<1> SUFFICES ASSUME TypeInv, OwnInv, [Next]_vars PROVE OwnInv'
  OBVIOUS
<1> DEFINE Own2(w) == ex'[w].run \in Runs =>
                        OwnBacked(rows', ex'[w].run, ex'[w].maxCursor)
<1>a. (\A w \in Executors : Own2(w)) => OwnInv'
  BY StoredStays DEF OwnInv, OwnBacked, Positions, Record
<1>b. ASSUME NEW w \in Executors, ex'[w].run = ex[w].run, ex'[w].maxCursor = ex[w].maxCursor
      PROVE  Own2(w)
  BY <1>b, OwnStays DEF OwnInv
<1>c. ASSUME NEW w \in Executors, OnlyExecutor(w), Own2(w) PROVE OwnInv'
  BY <1>a, <1>b, <1>c DEF OnlyExecutor
<1> HIDE DEF Own2
<1>1. CASE Quiet
  BY <1>1, <1>a, <1>b DEF Quiet
<1>2. ASSUME NEW w \in Executors, NEW r \in Runs, Starting(w, r) PROVE OwnInv'
  <2>1. Own2(w)
    BY <1>2 DEF Starting, OwnBacked, Own2
  <2> QED
    BY <1>2, <2>1, <1>c DEF Starting
<1>3. ASSUME NEW w \in Executors,
             \/ Preparing(w) \/ Beginning(w) \/ Closing(w) \/ Finishing(w) \/ Leaving(w)
             \/ \E i \in ex[w].left : Dropping(w, i)
      PROVE  OwnInv'
  <2>1. /\ OnlyExecutor(w)
        /\ \/ ex'[w].run = ex[w].run /\ ex'[w].maxCursor = ex[w].maxCursor
           \/ ex'[w] = Idle
    BY <1>3 DEF Preparing, Beginning, Closing, Finishing, Leaving, Dropping, Keeps
  <2>2. ex'[w] = Idle => Own2(w)
    BY DEF Own2, OwnBacked, Idle
  <2> QED
    BY <2>1, <2>2, <1>b, <1>c
<1>4. ASSUME NEW w \in Executors, NEW i \in ex[w].left, Storing(w, i) PROVE OwnInv'
  <2> DEFINE r == ex[w].run
  <2>1. r \in Runs /\ i \in Positions(r)
    BY <1>4, BusyType DEF Storing
  <2>2. rows'[r][i] > 0
    <3>1. DOMAIN rows = Runs /\ rows[r] \in [Positions(r) -> Nat]
      BY <2>1 DEF TypeInv
    <3> QED
      BY <1>4, <2>1, <3>1 DEF Storing, InsertRow
  <2>3. /\ OwnBacked(rows', r, Record(r, i).candidate)
        /\ OwnBacked(rows', r, ex[w].maxCursor)
    BY <2>1, <2>2, OwnStays DEF OwnBacked, OwnInv
  <2>4. Own2(w)
    BY <1>4, <2>3 DEF Storing, Own2
  <2> QED
    BY <1>4, <2>4, <1>c DEF Storing
<1> QED
  BY DataSteps, <1>1, <1>2, <1>3, <1>4

-------------------------------------------------------------------------------
LedgerInv == TypeInv /\ QueueInv /\ BackedInv /\ CoveredInv /\ StatusInv /\ OwnInv

LEMMA LedgerInvariant == Spec => []LedgerInv
<1>1. Init => LedgerInv
  BY TypeInit, QueueInit, BackedInit, CoveredInit, StatusInit, OwnInit DEF LedgerInv
<1>2. LedgerInv /\ [Next]_vars => LedgerInv'
  BY TypeStep, QueueStep, BackedStep, CoveredStep, StatusStep, OwnStep DEF LedgerInv
<1> QED
  BY <1>1, <1>2, PTL DEF Spec

\* The refinement mapping's variables.
Status == [r \in Runs |-> run[r].status]
Stored == [r \in Runs |-> {i \in Positions(r) : IsStored(r, i)}]

LEMMA LedgerInit == Init => Ledger!Init
<1> SUFFICES ASSUME Init PROVE Ledger!Init
  OBVIOUS
<1>1. Status = [r \in Runs |-> "none"]
  BY DEF Init, Status, NewRun
<1>2. ASSUME NEW r \in Runs PROVE {i \in Positions(r) : IsStored(r, i)} = {}
  <2>1. \A i \in Positions(r) : rows[r][i] = 0
    BY DEF Init
  <2> QED
    BY <2>1 DEF IsStored
<1>3. Stored = [r \in Runs |-> {}]
  BY <1>2 DEF Stored
<1> QED
  BY <1>1, <1>3 DEF Init, Ledger!Init, Status, Stored, NoCursor, Ledger!NoCursor

\* A step that changes neither the runs, the rows nor the cursors is a stutter.
LEMMA LedgerStutter ==
  ASSUME UNCHANGED <<request, run, rows, cursor>>
  PROVE  UNCHANGED Ledger!vars
BY DEF Ledger!vars, IsStored, Positions

\* Only the row of one run changes.
LEMMA StatusOnly ==
  ASSUME NEW r \in Runs, NEW s, UNCHANGED <<request, rows, cursor>>,
         run'[r].status = s, \A q \in Runs \ {r} : run'[q] = run[q]
  PROVE  Status' = [Status EXCEPT ![r] = s] /\ UNCHANGED <<request, Stored, cursor>>
BY DEF Status, Stored, IsStored, Positions

LEMMA LedgerStarts ==
  ASSUME NEW r \in Runs, UNCHANGED <<request, rows, cursor>>,
         run'[r].status = "RUNNING", \A q \in Runs \ {r} : run'[q] = run[q]
  PROVE  Ledger!Next
<1>1. Ledger!Start(r)
  BY StatusOnly DEF Ledger!Start, Status, Stored
<1> QED
  BY <1>1 DEF Ledger!Next

LEMMA LedgerFails ==
  ASSUME NEW r \in Runs, UNCHANGED <<request, rows, cursor>>,
         run[r].status \in {"RUNNING", "SUCCESS"}, run'[r].status = "FAILED",
         \A q \in Runs \ {r} : run'[q] = run[q]
  PROVE  Ledger!Next
<1>1. Ledger!Fail(r)
  BY StatusOnly DEF Ledger!Fail, Status, Stored
<1> QED
  BY <1>1 DEF Ledger!Next

\* Both modules extend CursorOps: the instance's operators are the same.
LEMMA SameOrder ==
  \A candidate, c : Ledger!ShouldProcessRecord(candidate, c)
                      = ShouldProcessRecord(candidate, c)
BY DEF ShouldProcessRecord, IsCandidateNewer, BothHave, NoCursor,
   Ledger!ShouldProcessRecord, Ledger!IsCandidateNewer, Ledger!BothHave, Ledger!NoCursor

\* A covered record is accounted for in the ledger.
LEMMA CoveredIsAccounted ==
  ASSUME NEW r \in Runs, NEW i \in Positions(r), CoveredBy(rows, r, i)
  PROVE  Ledger!Accounted(r, i)
BY SameOrder DEF CoveredBy, AppliesCursor, PipelineOf, Positions, Record, IsStored,
   Ledger!Accounted, Ledger!Filters, Ledger!Candidate

LEMMA LedgerStep == LedgerInv /\ [Next]_vars => [Ledger!Next]_(Ledger!vars)
<1> SUFFICES ASSUME LedgerInv, [Next]_vars PROVE Ledger!Next \/ UNCHANGED Ledger!vars
  OBVIOUS
<1>a. TypeInv /\ StatusInv /\ OwnInv /\ CoveredInv /\ run \in [Runs -> SyncRunRows]
  BY DEF LedgerInv, TypeInv
<1>1. ASSUME NEW r \in Runs, QueueRun(r) PROVE Ledger!Next
  <2>1. /\ run[r].status = "none" /\ run'[r].status = "QUEUED"
        /\ UNCHANGED <<request, rows, cursor>>
        /\ \A q \in Runs \ {r} : run'[q] = run[q]
    BY <1>1, <1>a DEF QueueRun, StatusInv, NewRun
  <2>2. Ledger!Accept(r)
    BY <2>1, StatusOnly DEF Ledger!Accept, Status, Stored
  <2> QED
    BY <2>2 DEF Ledger!Next
<1>2. ASSUME NEW r \in Runs,
             \/ CreateJob(r) \/ EnqueueJob(r) \/ RequestFails(r) \/ Backoff(r) \/ Stalled(r)
             \/ \E w \in Executors : Deliver(w, r) \/ StartNow(w, r)
      PROVE  UNCHANGED Ledger!vars
  BY <1>2, LedgerStutter
  DEF CreateJob, EnqueueJob, RequestFails, Backoff, Stalled, Deliver, StartNow
<1>3. ASSUME NEW w \in Executors,
             \/ Load(w) \/ MarkJobProcessing(w) \/ BeginRecords(w) \/ KeepCursor(w)
             \/ FinishJob(w) \/ Return(w) \/ CatchJob(w) \/ Rethrow(w) \/ Throw(w) \/ Crash(w)
             \/ \E i \in ex[w].left : RejectRecord(w, i) \/ StoreRecordFails(w, i)
      PROVE  UNCHANGED Ledger!vars
  BY <1>3, LedgerStutter
  DEF Load, MarkJobProcessing, BeginRecords, KeepCursor, FinishJob, Return, CatchJob,
      Rethrow, Throw, Crash, RejectRecord, StoreRecordFails
<1>4. ASSUME NEW w \in Executors, CreateRunNow(w) \/ MarkRunRunning(w) PROVE Ledger!Next
  <2> DEFINE r == ex[w].run
  <2>1. r \in Runs /\ run[r] \in SyncRunRows
    BY <1>4, <1>a, BusyType DEF CreateRunNow, MarkRunRunning
  <2>2. /\ run'[r].status = "RUNNING" /\ \A q \in Runs \ {r} : run'[q] = run[q]
        /\ UNCHANGED <<request, rows, cursor>>
    BY <1>4, <1>a, <2>1 DEF CreateRunNow, MarkRunRunning, NewRun, SyncRunRows
  <2> QED
    BY <2>1, <2>2, LedgerStarts
<1>5. ASSUME NEW w \in Executors, NEW i \in ex[w].left,
             StoreRecord(w, i) \/ StoreRecordAuditFails(w, i)
      PROVE  Ledger!Next
  <2> DEFINE r == ex[w].run
  <2>1. /\ IsNext(w, i) /\ InsertRow(r, i) /\ UNCHANGED <<request, run, cursor>>
    BY <1>5 DEF StoreRecord, StoreRecordAuditFails
  <2>2. /\ ex[w].pc = "records" /\ r \in Runs /\ i \in Positions(r)
        /\ DOMAIN rows = Runs /\ \A s \in Runs : rows[s] \in [Positions(s) -> Nat]
    BY <2>1, <1>a, NextPosition DEF TypeInv
  <2>3. run[r].status = "RUNNING"
    BY <2>2, <1>a DEF StatusInv, HolderOK
  <2>4. \A s \in Runs \ {r} : rows'[s] = rows[s]
    BY <2>1, <2>2 DEF InsertRow
  <2>5. \A j \in Positions(r) : rows'[r][j] = IF j = i THEN rows[r][j] + 1 ELSE rows[r][j]
    BY <2>1, <2>2 DEF InsertRow
  <2>6. Stored' = [Stored EXCEPT ![r] = Stored[r] \cup {i}]
    <3>1. \A s \in Runs \ {r} : Stored'[s] = Stored[s]
      BY <2>1, <2>4 DEF Stored, IsStored, Positions
    <3>2. \A j \in Positions(r) : rows'[r][j] > 0 <=> j = i \/ rows[r][j] > 0
      BY <2>2, <2>5
    <3>3. Stored'[r] = Stored[r] \cup {i}
      BY <2>1, <2>2, <3>2 DEF Stored, IsStored, Positions
    <3> QED
      BY <3>1, <3>3 DEF Stored
  <2>7. Ledger!Store(r, i)
    BY <2>1, <2>2, <2>3, <2>6 DEF Ledger!Store, Status, Stored
  <2>8. i \in Ledger!Positions(r)
    BY <2>2 DEF Ledger!Positions, Positions
  <2> QED
    BY <2>2, <2>7, <2>8 DEF Ledger!Next
<1>6. ASSUME NEW w \in Executors, AdvanceCursor(w) PROVE Ledger!Next
  <2> DEFINE r == ex[w].run
  <2>1. /\ ex[w].pc = "records" /\ r \in Runs /\ PipelineOf(r) \in Incremental
        /\ ex[w].maxCursor # NoCursor /\ UNCHANGED <<request, run, rows>>
        /\ cursor' = [cursor EXCEPT ![PipelineOf(r)] = ex[w].maxCursor]
    BY <1>6, <1>a, BusyType DEF AdvanceCursor, RecordsDone, MovesCursor
  <2>2. run[r].status = "RUNNING"
    BY <2>1, <1>a DEF StatusInv, HolderOK
  <2>3. PICK i \in Positions(r) : IsStored(r, i) /\ Record(r, i).candidate = ex[w].maxCursor
    BY <2>1, <1>a DEF OwnInv, OwnBacked, IsStored
  <2>4. UNCHANGED <<Status, Stored>>
    BY <2>1 DEF Status, Stored, IsStored, Positions
  <2>5. Ledger!Advance(r)
    BY <2>1, <2>2, <2>3, <2>4
    DEF Ledger!Advance, Ledger!Candidate, Status, Stored, PipelineOf, Record
  <2> QED
    BY <2>1, <2>5 DEF Ledger!Next
<1>7. ASSUME NEW w \in Executors, FinishRun(w) PROVE Ledger!Next
  <2>a. PICK r \in Runs : r = ex[w].run
    BY <1>7, <1>a, BusyType DEF FinishRun
  <2>1. /\ ex[w].pc = "finishRun" /\ ex[w].failed \in Nat
        /\ UNCHANGED <<request, rows, cursor>>
        /\ run' = [run EXCEPT ![r] = Outcome(ex[w])]
    BY <1>7, <1>a, <2>a, BusyType DEF FinishRun, ExecutorLocals
  <2>2. run[r].status = "RUNNING" /\ \A q \in Runs \ {r} : run'[q] = run[q]
    BY <2>a, <2>1, <1>a DEF StatusInv, HolderOK
  <2>3. run'[r].status = IF ex[w].failed > 0 THEN "FAILED" ELSE "SUCCESS"
    BY <2>1, <1>a DEF Outcome
  <2>4. CASE ex[w].failed > 0
    BY <2>1, <2>2, <2>3, <2>4, LedgerFails
  <2>5. CASE ex[w].failed = 0
    <3>1. \A i \in Positions(r) : CoveredBy(rows, r, i)
      BY <2>a, <2>1, <2>5, <1>a DEF CoveredInv, Unprocessed
    <3>2. \A i \in Ledger!Positions(r) : Ledger!Accounted(r, i)
      BY <2>1, <3>1, CoveredIsAccounted DEF Ledger!Positions, Positions
    <3>3. Ledger!Succeed(r)
      BY <2>1, <2>2, <2>3, <2>5, <3>2, StatusOnly DEF Ledger!Succeed, Status, Stored
    <3> QED
      BY <3>3 DEF Ledger!Next
  <2> QED
    BY <2>1, <2>4, <2>5
<1>8. ASSUME NEW w \in Executors, CatchRun(w) PROVE Ledger!Next \/ UNCHANGED Ledger!vars
  <2> DEFINE r == ex[w].run
  <2>1. /\ ex[w].pc = "catchRun" /\ r \in Runs /\ run[r] \in SyncRunRows
        /\ UNCHANGED <<request, rows, cursor>>
        /\ run' = [run EXCEPT ![r].status = "FAILED"]
    BY <1>8, <1>a, BusyType DEF CatchRun
  <2>2. /\ run[r].status \in {"RUNNING", "SUCCESS", "FAILED"}
        /\ run'[r].status = "FAILED" /\ \A q \in Runs \ {r} : run'[q] = run[q]
    BY <2>1, <1>a DEF StatusInv, HolderOK, SyncRunRows
  <2>3. CASE run[r].status = "FAILED"
    <3>1. UNCHANGED Status
      BY <2>2, <2>3 DEF Status
    <3>2. UNCHANGED <<request, Stored, cursor>>
      BY <2>1 DEF Stored, IsStored, Positions
    <3> QED
      BY <3>1, <3>2 DEF Ledger!vars, Status, Stored
  <2> QED
    BY <2>1, <2>2, <2>3, LedgerFails
<1>9. CASE UNCHANGED vars
  BY <1>9, LedgerStutter DEF vars
<1> QED
  BY <1>1, <1>2, <1>3, <1>4, <1>5, <1>6, <1>7, <1>8, <1>9
  DEF Next, ApiStep, ExecutorStep, ProcessRecord, ExecutorFault

\* Whatever retries, crashes and concurrent runs do inside, what the database
\* shows of runs, records and cursors is a behaviour of the ledger.
THEOREM LedgerImplemented == Spec => ImplementsLedger
BY LedgerInvariant, LedgerInit, LedgerStep, PTL DEF Spec, ImplementsLedger, Ledger!Spec

-------------------------------------------------------------------------------
(***************************************************************************)
(* The counters.  While nothing has failed a run is delivered once, so its *)
(* executor starts from a run without rows, and its two counters and its   *)
(* rows grow together.                                                     *)
(***************************************************************************)
Final == {"SUCCESS", "FAILED"}
StoredIn(table, r) == {i \in Positions(r) : table[r][i] > 0}
Invalid(r) == {i \in Positions(r) : ~Record(r, i).valid}

SupersededBy(table, r, i) ==
  /\ AppliesCursor(r)
  /\ \E s \in Runs : \E j \in Positions(s) :
        /\ PipelineOf(s) = PipelineOf(r) /\ table[s][j] > 0
        /\ ~ShouldProcessRecord(Record(r, i).candidate, Record(s, j).candidate)

\* The positions of r outside `rest` are stored, once each and `created` in
\* all, or among the `failed` rejected ones, or superseded.
Tally(table, r, created, failed, rest) ==
  /\ \A i \in Positions(r) : table[r][i] \in {0, 1}
  /\ created = Cardinality(StoredIn(table, r))
  /\ StoredIn(table, r) \cap rest = {}
  /\ \E rejected \in SUBSET Invalid(r) :
       /\ failed = Cardinality(rejected)
       /\ rejected \cap (rest \cup StoredIn(table, r)) = {}
       /\ \A i \in Positions(r) :
            i \in rejected \cup rest \cup StoredIn(table, r) \/ SupersededBy(table, r, i)

Fresh(r) == run[r].status \notin Final /\ \A i \in Positions(r) : rows[r][i] = 0

Unharmed(r) ==
  /\ bull[r].stalled = 0 /\ bull[r].state # "delayed"
  /\ bull[r].state = "waiting" => bull[r].made = 0
  /\ bull[r].state = "active" => Held(r)

Accounts(r) == run[r].status \in Final =>
  /\ run[r].received = Len(request[r].records)
  /\ Tally(rows, r, run[r].processed, run[r].failed, {})

Counts(w) ==
  /\ ex[w].pc \notin {"catchRun", "catchJob", "rethrow"}
  /\ ex[w].pc \in Early => Fresh(ex[w].run) /\ ex[w].created = 0 /\ ex[w].failed = 0
  /\ ex[w].pc \in {"records", "finishRun"} =>
       Tally(rows, ex[w].run, ex[w].created, ex[w].failed, Unprocessed(w))

CountInv == faults = 0 =>
  /\ \A r \in Runs : Unharmed(r) /\ (deliveries[r] = 0 => Fresh(r)) /\ Accounts(r)
  /\ \A w \in Executors : Counts(w)

LEMMA CountInit == Init => CountInv
<1> SUFFICES ASSUME Init PROVE CountInv
  OBVIOUS
<1>1. ASSUME NEW r \in Runs PROVE Unharmed(r) /\ Fresh(r) /\ Accounts(r)
  BY <1>1 DEF Init, Unharmed, Fresh, Accounts, NoJob, NewRun, Final
<1>2. ASSUME NEW w \in Executors PROVE Counts(w)
  BY <1>2 DEF Init, Counts, Idle, Early
<1> QED
  BY <1>1, <1>2 DEF CountInv

\* The positions of a run's records and the sets taken from them are finite.
LEMMA PositionsFinite ==
  ASSUME TypeInv, NEW r \in Runs
  PROVE  /\ IsFiniteSet(Positions(r)) /\ Cardinality(Positions(r)) = Len(request[r].records)
         /\ \A S \in SUBSET Positions(r) : IsFiniteSet(S) /\ Cardinality(S) \in Nat
<1>1. Positions(r) = 1..Len(request[r].records) /\ Len(request[r].records) \in Nat
  BY RequestType
<1>2. IsFiniteSet(Positions(r)) /\ Cardinality(Positions(r)) = Len(request[r].records)
  BY <1>1, FS_Interval
<1>3. \A S \in SUBSET Positions(r) : IsFiniteSet(S) /\ Cardinality(S) \in Nat
  BY <1>2, FS_Subset, FS_CardinalityType
<1> QED
  BY <1>2, <1>3

\* A tally of other records is not disturbed: supersession only spreads.
LEMMA TallyStays ==
  ASSUME TypeInv, [Next]_vars, NEW r \in Runs, rows'[r] = rows[r],
         NEW created, NEW failed, NEW rest, Tally(rows, r, created, failed, rest)
  PROVE  Tally(rows', r, created, failed, rest)
<1>1. StoredIn(rows', r) = StoredIn(rows, r)
  BY DEF StoredIn
<1>2. \A i \in Positions(r) : SupersededBy(rows, r, i) => SupersededBy(rows', r, i)
  BY StoredStays DEF SupersededBy
<1> QED
  BY <1>1, <1>2 DEF Tally

\* The step stores or rejects the position i, whichever the record asks for.
LEMMA TallyStores ==
  ASSUME TypeInv, [Next]_vars, NEW r \in Runs, NEW i \in Positions(r), InsertRow(r, i),
         NEW created \in Nat, NEW failed, NEW rest, i \in rest,
         Tally(rows, r, created, failed, rest)
  PROVE  Tally(rows', r, created + 1, failed, rest \ {i})
<1>1. DOMAIN rows = Runs /\ rows[r] \in [Positions(r) -> Nat]
  BY DEF TypeInv
<1>2. i \notin StoredIn(rows, r)
  BY DEF Tally
<1>3. rows[r][i] = 0
  BY <1>1, <1>2 DEF StoredIn
<1>4. /\ rows'[r][i] = 1
      /\ \A j \in Positions(r) \ {i} : rows'[r][j] = rows[r][j]
  BY <1>1, <1>3 DEF InsertRow
<1>5. StoredIn(rows', r) = StoredIn(rows, r) \cup {i}
  BY <1>4 DEF StoredIn
<1>6. IsFiniteSet(StoredIn(rows, r))
  BY PositionsFinite DEF StoredIn
<1>7. Cardinality(StoredIn(rows', r)) = created + 1
  <2>1. Cardinality(StoredIn(rows, r) \cup {i}) = Cardinality(StoredIn(rows, r)) + 1
    BY <1>2, <1>6, FS_AddElement
  <2>2. created = Cardinality(StoredIn(rows, r))
    BY DEF Tally
  <2> QED
    BY <1>5, <2>1, <2>2
<1>8. \A j \in Positions(r) : SupersededBy(rows, r, j) => SupersededBy(rows', r, j)
  BY StoredStays DEF SupersededBy
<1>9. \A j \in Positions(r) : rows'[r][j] \in {0, 1}
  BY <1>4 DEF Tally
<1>10. StoredIn(rows', r) \cap (rest \ {i}) = {}
  BY <1>5 DEF Tally
<1>11. PICK rejected \in SUBSET Invalid(r) :
         /\ failed = Cardinality(rejected)
         /\ rejected \cap (rest \cup StoredIn(rows, r)) = {}
         /\ \A j \in Positions(r) :
              j \in rejected \cup rest \cup StoredIn(rows, r) \/ SupersededBy(rows, r, j)
  BY DEF Tally
<1>12. /\ rejected \cap ((rest \ {i}) \cup StoredIn(rows', r)) = {}
       /\ \A j \in Positions(r) :
            j \in rejected \cup (rest \ {i}) \cup StoredIn(rows', r)
              \/ SupersededBy(rows', r, j)
  BY <1>5, <1>8, <1>11
<1> QED
  BY <1>7, <1>9, <1>10, <1>11, <1>12 DEF Tally

LEMMA TallyRejects ==
  ASSUME TypeInv, NEW r \in Runs, NEW i \in Invalid(r),
         NEW created, NEW failed \in Nat, NEW rest, i \in rest,
         Tally(rows, r, created, failed, rest)
  PROVE  Tally(rows, r, created, failed + 1, rest \ {i})
<1>1. PICK rejected \in SUBSET Invalid(r) :
         /\ failed = Cardinality(rejected)
         /\ rejected \cap (rest \cup StoredIn(rows, r)) = {}
         /\ \A j \in Positions(r) :
              j \in rejected \cup rest \cup StoredIn(rows, r) \/ SupersededBy(rows, r, j)
  BY DEF Tally
<1>2. IsFiniteSet(rejected) /\ i \notin rejected
  BY <1>1, PositionsFinite DEF Invalid
<1>3. Cardinality(rejected \cup {i}) = failed + 1
  BY <1>1, <1>2, FS_AddElement
<1>4. i \notin StoredIn(rows, r) /\ StoredIn(rows, r) \cap (rest \ {i}) = {}
  BY DEF Tally
<1>5. /\ rejected \cup {i} \in SUBSET Invalid(r)
      /\ (rejected \cup {i}) \cap ((rest \ {i}) \cup StoredIn(rows, r)) = {}
      /\ \A j \in Positions(r) :
           j \in (rejected \cup {i}) \cup (rest \ {i}) \cup StoredIn(rows, r)
             \/ SupersededBy(rows, r, j)
  BY <1>1, <1>4
<1> QED
  BY <1>3, <1>4, <1>5 DEF Tally

\* A run without rows, when the cursor's filter has been applied to it.
LEMMA TallyBegins ==
  ASSUME TypeInv, NEW r \in Runs, NEW base, BackedBy(rows, PipelineOf(r), base), Fresh(r)
  PROVE  Tally(rows, r, 0, 0, EligibleRecords(r, base))
<1>1. StoredIn(rows, r) = {}
  BY DEF Fresh, StoredIn
<1>2. Cardinality({}) = 0
  BY FS_EmptySet
<1>3. ASSUME NEW i \in Positions(r), i \notin EligibleRecords(r, base)
      PROVE  SupersededBy(rows, r, i)
  <2>1. /\ AppliesCursor(r) /\ base # NoCursor
        /\ ~ShouldProcessRecord(Record(r, i).candidate, base)
    BY <1>3 DEF EligibleRecords, ShouldProcessRecord
  <2> QED
    BY <2>1 DEF BackedBy, SupersededBy
<1>4. \A i \in Positions(r) : rows[r][i] \in {0, 1}
  BY DEF Fresh
<1>5. {} \in SUBSET Invalid(r)
  OBVIOUS
<1> QED
  BY <1>1, <1>2, <1>3, <1>4, <1>5 DEF Tally

\* The counters of a tally with nothing left are what CountersMatchRows says.
LEMMA TallyMatches ==
  ASSUME TypeInv, NEW r \in Runs, run[r].status \in Final, Accounts(r)
  PROVE  LET stored == {i \in Positions(r) : IsStored(r, i)}
             skippedByCursor == run[r].received - run[r].processed - run[r].failed
         IN  /\ \A i \in stored : rows[r][i] = 1
             /\ run[r].processed = Cardinality(stored)
             /\ run[r].failed <= Cardinality({i \in Positions(r) : ~Record(r, i).valid})
             /\ skippedByCursor \in
                  0..Cardinality({i \in Positions(r) \ stored : IsSuperseded(r, i)})
<1> DEFINE stored == {i \in Positions(r) : IsStored(r, i)}
           superseded == {i \in Positions(r) \ stored : IsSuperseded(r, i)}
<1>1. /\ run[r].received = Len(request[r].records)
      /\ Tally(rows, r, run[r].processed, run[r].failed, {})
  BY DEF Accounts
<1>2. StoredIn(rows, r) = stored
  BY DEF StoredIn, IsStored
<1>3. \A i \in Positions(r) : SupersededBy(rows, r, i) <=> IsSuperseded(r, i)
  BY DEF SupersededBy, IsSuperseded, IsStored
<1>4. PICK rejected \in SUBSET Invalid(r) :
         /\ run[r].failed = Cardinality(rejected)
         /\ rejected \cap stored = {}
         /\ \A i \in Positions(r) : i \in rejected \cup stored \/ IsSuperseded(r, i)
  BY <1>1, <1>2, <1>3 DEF Tally
<1>5. /\ \A i \in stored : rows[r][i] = 1
      /\ run[r].processed = Cardinality(stored)
  <2>1. run[r].processed = Cardinality(StoredIn(rows, r))
    BY <1>1 DEF Tally
  <2>2. ASSUME NEW i \in stored PROVE rows[r][i] = 1
    <3>1. rows[r][i] > 0 /\ rows[r][i] \in {0, 1}
      BY <1>1, <2>2 DEF Tally, IsStored
    <3> QED
      BY <3>1
  <2> QED
    BY <1>2, <2>1, <2>2
<1> DEFINE counted == rejected \cup stored
           skipped == Positions(r) \ counted
<1>6. /\ stored \in SUBSET Positions(r) /\ rejected \in SUBSET Positions(r)
      /\ counted \in SUBSET Positions(r) /\ skipped \in SUBSET Positions(r)
      /\ superseded \in SUBSET Positions(r) /\ Invalid(r) \in SUBSET Positions(r)
      /\ skipped \subseteq superseded
  BY <1>4 DEF Invalid
<1> HIDE DEF stored, superseded, counted, skipped
<1>7. /\ IsFiniteSet(stored) /\ IsFiniteSet(rejected) /\ IsFiniteSet(counted)
      /\ IsFiniteSet(skipped) /\ IsFiniteSet(superseded) /\ IsFiniteSet(Invalid(r))
      /\ Cardinality(stored) \in Nat /\ Cardinality(rejected) \in Nat
      /\ Cardinality(counted) \in Nat /\ Cardinality(skipped) \in Nat
      /\ Cardinality(superseded) \in Nat
  BY <1>6, PositionsFinite
<1>8. Cardinality(counted) = Cardinality(rejected) + Cardinality(stored)
  <2>1. Cardinality(rejected \cap stored) = 0
    BY <1>4, FS_EmptySet
  <2>2. Cardinality(rejected \cup stored)
          = Cardinality(rejected) + Cardinality(stored) - Cardinality(rejected \cap stored)
    BY <1>7, FS_Union
  <2> QED
    BY <1>7, <2>1, <2>2 DEF counted
<1>9. Cardinality(skipped) = Len(request[r].records) - Cardinality(counted)
  <2>1. Positions(r) \cap counted = counted
    BY <1>6
  <2>2. Cardinality(Positions(r) \ counted)
          = Cardinality(Positions(r)) - Cardinality(Positions(r) \cap counted)
    BY <1>7, PositionsFinite, FS_Difference
  <2> QED
    BY <2>1, <2>2, PositionsFinite DEF skipped
<1>10. /\ Cardinality(skipped) <= Cardinality(superseded)
       /\ Cardinality(rejected) <= Cardinality(Invalid(r))
  BY <1>4, <1>6, <1>7, FS_Subset
<1>11. run[r].received - run[r].processed - run[r].failed \in 0..Cardinality(superseded)
  <2>1. run[r].received - run[r].processed - run[r].failed = Cardinality(skipped)
    <3>1. Len(request[r].records) \in Nat
      BY RequestType
    <3> QED
      BY <1>1, <1>4, <1>5, <1>7, <1>8, <1>9, <3>1
  <2> QED
    BY <1>7, <1>10, <2>1
<1>12. run[r].failed <= Cardinality(Invalid(r))
  BY <1>4, <1>10
<1>13. Invalid(r) = {i \in Positions(r) : ~Record(r, i).valid}
  BY DEF Invalid
<1> QED
  BY <1>5, <1>11, <1>12, <1>13, Zenon DEF stored, superseded

\* The locals after a step on one record, with the count of stored records.
LEMMA CountedLocals ==
  ASSUME TypeInv, NEW w \in Executors, ex[w].pc = "records",
         NEW i \in Positions(ex[w].run)
  PROVE  /\ AfterFailure(ex[w], i).created = ex[w].created
         /\ AfterStore(ex[w], i, 0).created = ex[w].created + 1
         /\ AfterStore(ex[w], i, 0).failed = ex[w].failed
<1>1. ex[w] \in ExecutorLocals /\ ex[w].failed \in Nat
  BY BusyType DEF ExecutorLocals
<1> DEFINE left == ex[w].left \ {i}
           failed == ex[w].failed + 1
           created == ex[w].created + 1
           same == ex[w].failed + 0
           max == PickLatestCursor(ex[w].maxCursor, Record(ex[w].run, i).candidate)
<1>2. /\ AfterFailure(ex[w], i) = [ex[w] EXCEPT !.left = left, !.failed = failed]
      /\ AfterStore(ex[w], i, 0) = [ex[w] EXCEPT !.left = left, !.created = created,
                                                 !.failed = same, !.maxCursor = max]
  BY DEF AfterFailure, AfterStore
<1>3. same = ex[w].failed
  BY <1>1
<1> HIDE DEF left, failed, created, same, max
<1>4. /\ AfterFailure(ex[w], i).created = ex[w].created
      /\ AfterStore(ex[w], i, 0).created = created
      /\ AfterStore(ex[w], i, 0).failed = same
  BY <1>1, <1>2 DEF ExecutorLocals
<1> QED
  BY <1>3, <1>4 DEF created

LEMMA FaultCounts == ASSUME TypeInv, Fault PROVE faults' # 0
<1>1. faults \in Nat /\ faults' = faults + 1
  BY ConstantsAssumption DEF TypeInv, Fault
<1> QED
  BY <1>1

LEMMA CountStep ==
  TypeInv /\ TypeInv' /\ QueueInv /\ QueueInv' /\ BackedInv /\ StatusInv /\ CountInv
    /\ [Next]_vars => CountInv'
<1> SUFFICES ASSUME TypeInv, TypeInv', QueueInv, QueueInv', BackedInv, StatusInv, CountInv,
                    [Next]_vars, faults' = 0
             PROVE  CountInv'
  BY DEF CountInv
<1> DEFINE Fresh2(r) == run'[r].status \notin Final /\ \A i \in Positions(r) : rows'[r][i] = 0
           Run2(r) ==
             /\ bull'[r].stalled = 0 /\ bull'[r].state # "delayed"
             /\ bull'[r].state = "waiting" => bull'[r].made = 0
             /\ bull'[r].state = "active" => \E v \in Executors : ex'[v].run = r
             /\ deliveries'[r] = 0 => Fresh2(r)
             /\ run'[r].status \in Final =>
                  /\ run'[r].received = Len(request[r].records)
                  /\ Tally(rows', r, run'[r].processed, run'[r].failed, {})
           Counts2(v) ==
             /\ ex'[v].pc \notin {"catchRun", "catchJob", "rethrow"}
             /\ ex'[v].pc \in Early =>
                  Fresh2(ex'[v].run) /\ ex'[v].created = 0 /\ ex'[v].failed = 0
             /\ ex'[v].pc \in {"records", "finishRun"} =>
                  Tally(rows', ex'[v].run, ex'[v].created, ex'[v].failed, Unprocessed(v)')
<1>a. UNCHANGED request
  BY DataSteps
<1>b. ASSUME \A r \in Runs : Run2(r), \A v \in Executors : Counts2(v) PROVE CountInv'
  <2>1. \A r : /\ Positions(r)' = Positions(r) /\ Invalid(r)' = Invalid(r)
               /\ StoredIn(rows, r)' = StoredIn(rows', r)
    BY <1>a DEF Positions, Invalid, Record, StoredIn
  <2>2. \A r, i : SupersededBy(rows, r, i)' <=> SupersededBy(rows', r, i)
    BY <1>a DEF SupersededBy, AppliesCursor, PipelineOf, Positions, Record
  <2>3. ASSUME NEW r \in Runs
        PROVE  Unharmed(r)' /\ (deliveries'[r] = 0 => Fresh(r)') /\ Accounts(r)'
    <3>1. Unharmed(r)' /\ (deliveries'[r] = 0 => Fresh(r)')
      BY <1>b, <2>1 DEF Unharmed, Held, Fresh
    <3>2. Accounts(r)'
      BY <1>a, <1>b, <2>1, <2>2 DEF Accounts, Tally
    <3> QED
      BY <3>1, <3>2
  <2>4. ASSUME NEW v \in Executors PROVE Counts(v)'
    <3>1. ex'[v].pc \in Early => Fresh(ex[v].run)'
      BY <1>b, <2>1 DEF Fresh
    <3>2. ex'[v].pc \in {"records", "finishRun"} =>
            Tally(rows, ex[v].run, ex[v].created, ex[v].failed, Unprocessed(v))'
      BY <1>b, <2>1, <2>2 DEF Tally
    <3> QED
      BY <1>b, <3>1, <3>2 DEF Counts
  <2> QED
    BY <2>3, <2>4 DEF CountInv
<1>c. /\ \A r \in Runs : Unharmed(r) /\ (deliveries[r] = 0 => Fresh(r)) /\ Accounts(r)
      /\ \A v \in Executors : Counts(v)
  <2>1. faults = 0
    <3>1. faults' = faults \/ Fault
      BY DEF Next, vars, QueueRun, ApiStep, CreateJob, EnqueueJob, RequestFails, Backoff,
         Stalled, Deliver, StartNow, ExecutorStep, ProcessRecord, CreateRunNow, Load,
         MarkJobProcessing, MarkRunRunning, BeginRecords, RejectRecord, StoreRecord,
         AdvanceCursor, KeepCursor, FinishRun, FinishJob, Return, CatchRun, CatchJob,
         Rethrow, ExecutorFault, Throw, Crash, StoreRecordAuditFails, StoreRecordFails
    <3> QED
      BY <3>1, FaultCounts
  <2> QED
    BY <2>1 DEF CountInv
<1>d. /\ run \in [Runs -> SyncRunRows] /\ bull \in [Runs -> BullJobs]
      /\ deliveries \in [Runs -> Nat]
      /\ DOMAIN rows = Runs /\ \A r \in Runs : rows[r] \in [Positions(r) -> Nat]
      /\ \A v \in Executors : ex[v] \in ExecutorLocals
  BY DEF TypeInv, ExecutorsOK, ExecutorType
\* A run none of whose rows the step touches, and its executor.
<1>e. ASSUME NEW r \in Runs, rows'[r] = rows[r], run'[r] = run[r], bull'[r] = bull[r],
             deliveries'[r] = deliveries[r],
             Held(r) => \E v \in Executors : ex'[v].run = r
      PROVE  Run2(r)
  <2>1. Unharmed(r) /\ (deliveries[r] = 0 => Fresh(r)) /\ Accounts(r)
    BY <1>c
  <2>2. deliveries'[r] = 0 => Fresh2(r)
    BY <1>e, <2>1 DEF Fresh
  <2>3. run'[r].status \in Final =>
          /\ run'[r].received = Len(request[r].records)
          /\ Tally(rows', r, run'[r].processed, run'[r].failed, {})
    BY <1>e, <2>1, TallyStays DEF Accounts
  <2>4. /\ bull'[r].stalled = 0 /\ bull'[r].state # "delayed"
        /\ bull'[r].state = "waiting" => bull'[r].made = 0
        /\ bull'[r].state = "active" => \E v \in Executors : ex'[v].run = r
    BY <1>e, <2>1 DEF Unharmed
  <2> QED
    BY <2>2, <2>3, <2>4
<1>f. ASSUME NEW v \in Executors, ex'[v] = ex[v],
             ex[v].run \in Runs => /\ rows'[ex[v].run] = rows[ex[v].run]
                                   /\ run'[ex[v].run] = run[ex[v].run]
      PROVE  Counts2(v)
  <2>1. Counts(v)
    BY <1>c
  <2>2. CASE ex[v].pc = "idle"
    BY <1>f, <2>1, <2>2 DEF Early
  <2>3. CASE ex[v].pc # "idle"
    <3>1. ex[v].run \in Runs
      BY <2>3, BusyType
    <3>2. ex[v].pc \in Early => Fresh2(ex[v].run)
      BY <1>f, <2>1, <3>1 DEF Counts, Fresh
    <3>3. Unprocessed(v)' = Unprocessed(v)
      BY <1>f DEF Unprocessed
    <3>4. ex[v].pc \in {"records", "finishRun"} =>
            Tally(rows', ex[v].run, ex[v].created, ex[v].failed, Unprocessed(v))
      BY <1>f, <2>1, <3>1, TallyStays DEF Counts
    <3> QED
      BY <1>f, <2>1, <3>2, <3>3, <3>4 DEF Counts
  <2> QED
    BY <2>2, <2>3
\* Enough: the run of the step, and the executor that takes it.
<1>g. ASSUME NEW w \in Executors, NEW r \in Runs, OnlyExecutor(w),
             ex[w].run \in {r, NoRun}, ex'[w].run = r \/ ex[w].run = r,
             \A s \in Runs \ {r} :
               /\ rows'[s] = rows[s] /\ run'[s] = run[s] /\ bull'[s] = bull[s]
               /\ deliveries'[s] = deliveries[s],
             \A v \in Executors : v # w => ex'[v].run # r,
             Run2(r), Counts2(w)
      PROVE  CountInv'
  <2>1. NoRun \notin Runs
    BY ConstantsAssumption
  <2>2. ASSUME NEW s \in Runs \ {r}, Held(s) PROVE \E v \in Executors : ex'[v].run = s
    BY <1>g, <2>1, <2>2 DEF Held, OnlyExecutor
  <2>3. \A s \in Runs : Run2(s)
    BY <1>g, <1>e, <2>2
  <2>4. \A v \in Executors : Counts2(v)
    <3>1. ASSUME NEW v \in Executors \ {w} PROVE Counts2(v)
      <4>1. ex'[v] = ex[v] /\ ex[v].run # r
        BY <1>g DEF OnlyExecutor
      <4> QED
        BY <1>f, <1>g, <4>1
    <3> QED
      BY <1>g, <3>1
  <2> QED
    BY <1>b, <2>3, <2>4
<1>h. ASSUME NEW w \in Executors, ex[w].pc # "idle"
      PROVE  /\ ex[w].run \in Runs /\ ex[w] \in ExecutorLocals /\ ex[w].run # NoRun
             /\ deliveries[ex[w].run] # 0 /\ Counts(w)
             /\ Unharmed(ex[w].run) /\ Accounts(ex[w].run)
             /\ OnlyExecutor(w) =>
                  \A v \in Executors : v # w => ex'[v].run # ex[w].run
  <2>1. ex[w].run \in Runs /\ ex[w] \in ExecutorLocals /\ ex[w].run # NoRun
    BY <1>h, BusyType, ConstantsAssumption
  <2>2. deliveries[ex[w].run] # 0
    <3>1. bull[ex[w].run].made \in Nat /\ bull[ex[w].run].stalled \in Nat
      BY <2>1, <1>d DEF BullJobs
    <3> QED
      BY <2>1, <3>1 DEF QueueInv, HoldersAreActive, BullAccount, DirectAccount
  <2>3. OnlyExecutor(w) => \A v \in Executors : v # w => ex'[v].run # ex[w].run
    BY <2>1 DEF QueueInv, OneHolder, OnlyExecutor
  <2> QED
    BY <2>1, <2>2, <2>3, <1>c
<1>i. ASSUME NEW w \in Executors, ex[w].pc # "idle", NEW pc, Goto(w, pc)
      PROVE  /\ OnlyExecutor(w) /\ ex'[w].pc = pc /\ ex'[w].run = ex[w].run
             /\ ex'[w].left = ex[w].left /\ ex'[w].created = ex[w].created
             /\ ex'[w].failed = ex[w].failed
  <2>1. OnlyExecutor(w) /\ ex'[w] = [ex[w] EXCEPT !.pc = pc]
    BY <1>i, BecomeLocals DEF Goto
  <2> QED
    BY <2>1, <1>h, <1>i DEF ExecutorLocals
\* A step of a busy executor that leaves the database's rows and the queue.
<1>j. ASSUME NEW w \in Executors, ex[w].pc # "idle", OnlyExecutor(w),
             ex'[w].run = ex[w].run, UNCHANGED <<rows, run, bull, deliveries>>, Counts2(w)
      PROVE  CountInv'
  <2> DEFINE r == ex[w].run
  <2>1. Run2(r)
    BY <1>j, <1>h, <1>e
  <2> HIDE DEF Run2, Counts2
  <2> QED
    BY <2>1, <1>g, <1>h, <1>j
<1>1. ASSUME NEW r \in Runs,
             QueueRun(r) \/ ApiStep(r) \/ RequestFails(r) \/ Backoff(r) \/ Stalled(r)
      PROVE  CountInv'
  <2>1. ~RequestFails(r) /\ ~Backoff(r) /\ ~Stalled(r)
    BY <1>c, FaultCounts DEF RequestFails, Backoff, Stalled, Unharmed
  <2>2. UNCHANGED <<ex, rows, deliveries>>
    BY <1>1, <2>1 DEF QueueRun, ApiStep, CreateJob, EnqueueJob
  <2>3. \A s \in Runs \ {r} : run'[s] = run[s] /\ bull'[s] = bull[s]
    BY <1>1, <2>1, <1>d DEF QueueRun, ApiStep, CreateJob, EnqueueJob
  <2>4. run'[r] = run[r] \/ \A v \in Executors : ex[v].run # r
    <3>1. CASE QueueRun(r)
      <4>1. api[r] # "done" /\ bull[r].state # "active"
        BY <3>1 DEF QueueRun, QueueInv, BullAccount
      <4>2. r # NoRun
        BY ConstantsAssumption
      <4> QED
        BY <4>1, <4>2 DEF QueueInv, HoldersAreActive
    <3>2. CASE ApiStep(r)
      BY <3>2 DEF ApiStep, CreateJob, EnqueueJob
    <3> QED
      BY <1>1, <2>1, <3>1, <3>2
  <2>5. \A v \in Executors : Counts2(v)
    BY <2>2, <2>3, <2>4, <1>f
  <2>6. \A s \in Runs : Held(s) => \E v \in Executors : ex'[v].run = s
    BY <2>2 DEF Held
  <2>7. Run2(r)
    <3>1. CASE QueueRun(r)
      <4>1. Unharmed(r) /\ bull'[r] = bull[r]
        BY <3>1, <1>c DEF QueueRun
      <4>2. run'[r].status = "QUEUED"
        BY <3>1, <1>d DEF QueueRun, NewRun
      <4>3. deliveries'[r] = 0 => Fresh2(r)
        BY <1>c, <2>2, <4>2 DEF Fresh, Final
      <4> QED
        BY <2>6, <4>1, <4>2, <4>3 DEF Unharmed, Final
    <3>2. CASE CreateJob(r)
      BY <3>2, <2>2, <2>6, <1>e DEF CreateJob
    <3>3. CASE EnqueueJob(r)
      <4>1. bull[r].state = "absent" /\ bull[r].made = 0
        BY <3>3 DEF EnqueueJob, QueueInv, BullAccount, DirectAccount
      <4>2. bull'[r].state = "waiting" /\ bull'[r].stalled = 0 /\ bull'[r].made = 0
        BY <3>3, <4>1, <1>c, <1>d DEF EnqueueJob, Unharmed, BullJobs
      <4>3. run'[r] = run[r] /\ Accounts(r) /\ (deliveries[r] = 0 => Fresh(r))
        BY <3>3, <1>c DEF EnqueueJob
      <4>4. deliveries'[r] = 0 => Fresh2(r)
        BY <2>2, <4>3 DEF Fresh
      <4>5. run'[r].status \in Final =>
              /\ run'[r].received = Len(request[r].records)
              /\ Tally(rows', r, run'[r].processed, run'[r].failed, {})
        BY <2>2, <4>3 DEF Accounts
      <4> QED
        BY <4>2, <4>4, <4>5
    <3> QED
      BY <1>1, <2>1, <3>1, <3>2, <3>3 DEF ApiStep
  <2>8. \A s \in Runs : Run2(s)
    BY <2>2, <2>3, <2>6, <2>7, <1>e
  <2> QED
    BY <2>5, <2>8, <1>b
<1>2. ASSUME NEW w \in Executors, NEW r \in Runs, Deliver(w, r) \/ StartNow(w, r)
      PROVE  CountInv'
  <2>1. /\ ex[w].run = NoRun /\ OnlyExecutor(w) /\ ex'[w].run = r /\ ex'[w].pc \in Early
        /\ ex'[w].created = 0 /\ ex'[w].failed = 0
    <3>1. ex[w].run = NoRun
      BY <1>2 DEF Deliver, StartNow, TypeInv, ExecutorsOK, ExecutorType
    <3> DEFINE loads == [Idle EXCEPT !.pc = "load", !.run = r]
               starts == [Idle EXCEPT !.pc = "createRun", !.run = r,
                                      !.base = cursor[PipelineOf(r)]]
    <3>2. \A e \in {loads, starts} : e.run = r /\ e.pc \in Early /\ e.created = 0 /\ e.failed = 0
      BY DEF Idle, Early
    <3>3. OnlyExecutor(w) /\ ex'[w] \in {loads, starts}
      BY <1>2, BecomeLocals DEF Deliver, StartNow
    <3> QED
      BY <3>1, <3>2, <3>3
  <2>2. UNCHANGED <<run, rows>>
    BY <1>2 DEF Deliver, StartNow
  <2>3. deliveries[r] = 0
    <3>1. (bull[r].made = 0 /\ bull[r].stalled = 0) \/ ~Async
      BY <1>2, <1>c DEF Deliver, StartNow, Unharmed
    <3> QED
      BY <1>2, <3>1 DEF Deliver, StartNow, QueueInv, BullAccount, DirectAccount
  <2>4. Fresh(r) /\ Unharmed(r)
    BY <2>3, <1>c
  <2>5. Fresh2(r)
    BY <2>2, <2>4 DEF Fresh
  <2>6. Counts2(w)
    BY <2>1, <2>5 DEF Early
  <2>7. bull'[r].stalled = 0 /\ bull'[r].state # "delayed"
        /\ (bull'[r].state = "waiting" => bull'[r].made = 0)
    BY <1>2, <2>4, <1>d DEF Deliver, StartNow, Unharmed, BullJobs
  <2>8. Run2(r)
    BY <2>1, <2>5, <2>7
  <2>9. \A s \in Runs \ {r} : bull'[s] = bull[s] /\ deliveries'[s] = deliveries[s]
    BY <1>2, <1>d DEF Deliver, StartNow
  <2>10. \A v \in Executors : v # w => ex'[v].run # r
    BY <2>1, ConstantsAssumption DEF QueueInv, OneHolder
  <2> HIDE DEF Run2, Counts2
  <2> QED
    BY <2>1, <2>2, <2>6, <2>8, <2>9, <2>10, <1>g
<1>3. ASSUME NEW w \in Executors, CreateRunNow(w) \/ MarkRunRunning(w) PROVE CountInv'
  <2> DEFINE r == ex[w].run
  <2>1. ex[w].pc # "idle" /\ ex[w].pc \in Early /\ Goto(w, "begin")
    BY <1>3 DEF CreateRunNow, MarkRunRunning, Early
  <2>2. /\ OnlyExecutor(w) /\ ex'[w].pc = "begin" /\ ex'[w].run = r
        /\ ex'[w].created = ex[w].created /\ ex'[w].failed = ex[w].failed
    BY <2>1, <1>i
  <2>3. r \in Runs /\ Unharmed(r) /\ Fresh(r) /\ ex[w].created = 0 /\ ex[w].failed = 0
    BY <2>1, <1>h DEF Counts
  <2>4. UNCHANGED <<rows, bull, deliveries>>
    BY <1>3 DEF CreateRunNow, MarkRunRunning
  <2>5. run'[r].status = "RUNNING" /\ \A s \in Runs \ {r} : run'[s] = run[s]
    BY <1>3, <2>3, <1>d DEF CreateRunNow, MarkRunRunning, NewRun, SyncRunRows
  <2>6. Fresh2(r)
    BY <2>3, <2>4, <2>5 DEF Fresh, Final
  <2>7. Counts2(w)
    BY <2>2, <2>3, <2>6
  <2>8. Run2(r)
    BY <2>2, <2>3, <2>4, <2>6 DEF Unharmed
  <2> HIDE DEF Run2, Counts2
  <2> QED
    BY <2>1, <2>2, <2>3, <2>4, <2>5, <2>7, <2>8, <1>g, <1>h
<1>4. ASSUME NEW w \in Executors, Load(w) \/ MarkJobProcessing(w) PROVE CountInv'
  <2>1. /\ ex[w].pc # "idle" /\ ex[w].pc \in Early
        /\ UNCHANGED <<rows, run, bull, deliveries>>
    BY <1>4 DEF Load, MarkJobProcessing, Early
  <2>2. /\ ex[w].run \in Runs /\ ex[w] \in ExecutorLocals /\ Fresh(ex[w].run)
        /\ ex[w].created = 0 /\ ex[w].failed = 0
    BY <2>1, <1>h DEF Counts
  <2>3. /\ OnlyExecutor(w) /\ ex'[w].pc \in {"markJob", "markRun"}
        /\ ex'[w].run = ex[w].run /\ ex'[w].created = 0 /\ ex'[w].failed = 0
    <3>1. CASE Load(w)
      <4> DEFINE e == [ex[w] EXCEPT !.pc = "markJob", !.base = cursor[PipelineOf(ex[w].run)]]
      <4>1. OnlyExecutor(w) /\ ex'[w] = e
        BY <3>1, BecomeLocals DEF Load
      <4>2. e.pc = "markJob" /\ e.run = ex[w].run /\ e.created = 0 /\ e.failed = 0
        BY <2>2 DEF ExecutorLocals
      <4> QED
        BY <4>1, <4>2
    <3>2. CASE MarkJobProcessing(w)
      BY <3>2, <2>1, <2>2, <1>i DEF MarkJobProcessing
    <3> QED
      BY <1>4, <3>1, <3>2
  <2>4. Fresh2(ex[w].run)
    BY <2>1, <2>2 DEF Fresh
  <2>5. Counts2(w)
    BY <2>3, <2>4
  <2> QED
    BY <2>1, <2>3, <2>5, <1>j
<1>5. ASSUME NEW w \in Executors, BeginRecords(w) PROVE CountInv'
  <2> DEFINE r == ex[w].run
             eligible == EligibleRecords(r, ex[w].base)
             e == [ex[w] EXCEPT !.pc = "records", !.left = eligible]
  <2>1. /\ ex[w].pc # "idle" /\ ex[w].pc \in Early
        /\ UNCHANGED <<rows, run, bull, deliveries>>
    BY <1>5 DEF BeginRecords, Early
  <2>2. /\ r \in Runs /\ ex[w] \in ExecutorLocals /\ Fresh(r)
        /\ ex[w].created = 0 /\ ex[w].failed = 0
    BY <2>1, <1>h DEF Counts
  <2>3. OnlyExecutor(w) /\ ex'[w] = e
    BY <1>5, BecomeLocals DEF BeginRecords
  <2>4. BackedBy(rows, PipelineOf(r), ex[w].base)
    BY <2>2 DEF BackedInv
  <2>5. Tally(rows, r, 0, 0, eligible)
    BY <2>2, <2>4, TallyBegins
  <2>6. Tally(rows', r, 0, 0, eligible)
    BY <2>1, <2>2, <2>5, TallyStays
  <2> HIDE DEF eligible
  <2>7. /\ e.pc = "records" /\ e.run = r /\ e.created = 0 /\ e.failed = 0
        /\ e.left = eligible
    BY <2>2 DEF ExecutorLocals
  <2> HIDE DEF e
  <2>8. Unprocessed(w)' = eligible
    BY <2>3, <2>7 DEF Unprocessed
  <2>9. Counts2(w)
    BY <2>3, <2>6, <2>7, <2>8 DEF Early
  <2> QED
    BY <2>1, <2>3, <2>7, <2>9, <1>j
<1>6. ASSUME NEW w \in Executors, NEW i \in ex[w].left, RejectRecord(w, i) PROVE CountInv'
  <2> DEFINE r == ex[w].run
             e == AfterFailure(ex[w], i)
  <2>1. /\ ex[w].pc = "records" /\ r \in Runs /\ i \in Invalid(r)
        /\ UNCHANGED <<rows, run, bull, deliveries>>
    BY <1>6, NextPosition DEF RejectRecord, Invalid
  <2>2. OnlyExecutor(w) /\ ex'[w] = e
    BY <1>6, BecomeLocals DEF RejectRecord
  <2>3. /\ e.pc = "records" /\ e.run = r /\ e.left = ex[w].left \ {i}
        /\ e.failed = ex[w].failed + 1 /\ e.created = ex[w].created
    BY <2>1, AfterFailureType, CountedLocals, BusyType DEF Invalid
  <2>4. Tally(rows, r, ex[w].created, ex[w].failed, ex[w].left) /\ ex[w].failed \in Nat
    BY <2>1, <1>h DEF Counts, Unprocessed, ExecutorLocals
  <2>5. Tally(rows, r, ex[w].created, ex[w].failed + 1, ex[w].left \ {i})
    BY <2>1, <2>4, TallyRejects
  <2>6. Tally(rows', r, ex[w].created, ex[w].failed + 1, ex[w].left \ {i})
    BY <2>1, <2>5, TallyStays
  <2> HIDE DEF e
  <2>7. Unprocessed(w)' = ex[w].left \ {i}
    BY <2>2, <2>3 DEF Unprocessed
  <2>8. Counts2(w)
    BY <2>2, <2>3, <2>6, <2>7 DEF Early
  <2> QED
    BY <2>1, <2>2, <2>3, <2>8, <1>j
<1>7. ASSUME NEW w \in Executors, NEW i \in ex[w].left, StoreRecord(w, i) PROVE CountInv'
  <2> DEFINE r == ex[w].run
             e == AfterStore(ex[w], i, 0)
  <2>1. /\ ex[w].pc = "records" /\ r \in Runs /\ i \in Positions(r)
        /\ InsertRow(r, i) /\ UNCHANGED <<run, bull, deliveries>>
    BY <1>7, NextPosition DEF StoreRecord
  <2>2. OnlyExecutor(w) /\ ex'[w] = e
    BY <1>7, BecomeLocals DEF StoreRecord
  <2>3. /\ e.pc = "records" /\ e.run = r /\ e.left = ex[w].left \ {i}
        /\ e.failed = ex[w].failed /\ e.created = ex[w].created + 1
    BY <2>1, AfterStoreType, CountedLocals
  <2>4. Tally(rows, r, ex[w].created, ex[w].failed, ex[w].left) /\ ex[w].created \in Nat
    BY <2>1, <1>h DEF Counts, Unprocessed, ExecutorLocals
  <2>5. Tally(rows', r, ex[w].created + 1, ex[w].failed, ex[w].left \ {i})
    BY <2>1, <2>4, TallyStores
  <2> HIDE DEF e
  <2>6. Unprocessed(w)' = ex[w].left \ {i}
    BY <2>2, <2>3 DEF Unprocessed
  <2>7. Counts2(w)
    BY <2>2, <2>3, <2>5, <2>6 DEF Early
  <2>8. run[r].status = "RUNNING" /\ deliveries[r] # 0 /\ Unharmed(r)
    BY <2>1, <1>h DEF StatusInv, HolderOK
  <2>9. Run2(r)
    BY <2>1, <2>2, <2>3, <2>8 DEF Unharmed, Final
  <2>10. \A s \in Runs \ {r} : rows'[s] = rows[s]
    BY <2>1, <1>d DEF InsertRow
  <2> HIDE DEF Run2, Counts2
  <2> QED
    BY <2>1, <2>2, <2>3, <2>7, <2>9, <2>10, <1>g, <1>h
<1>8. ASSUME NEW w \in Executors, AdvanceCursor(w) \/ KeepCursor(w) PROVE CountInv'
  <2>1. /\ ex[w].pc = "records" /\ ex[w].left = {} /\ Goto(w, "finishRun")
        /\ UNCHANGED <<rows, run, bull, deliveries>>
    BY <1>8 DEF AdvanceCursor, KeepCursor, RecordsDone
  <2>2. /\ OnlyExecutor(w) /\ ex'[w].pc = "finishRun" /\ ex'[w].run = ex[w].run
        /\ ex'[w].created = ex[w].created /\ ex'[w].failed = ex[w].failed
    BY <2>1, <1>i
  <2>3. /\ ex[w].run \in Runs
        /\ Tally(rows, ex[w].run, ex[w].created, ex[w].failed, {})
    BY <2>1, <1>h DEF Counts, Unprocessed
  <2>4. Tally(rows', ex[w].run, ex[w].created, ex[w].failed, {})
    BY <2>1, <2>3, TallyStays
  <2>5. Unprocessed(w)' = {}
    BY <2>2 DEF Unprocessed
  <2>6. Counts2(w)
    BY <2>2, <2>4, <2>5 DEF Early
  <2> QED
    BY <2>1, <2>2, <2>6, <1>j
<1>9. ASSUME NEW w \in Executors, FinishRun(w) PROVE CountInv'
  <2> DEFINE r == ex[w].run
  <2>1. /\ ex[w].pc = "finishRun" /\ r \in Runs /\ Unharmed(r) /\ deliveries[r] # 0
        /\ Tally(rows, r, ex[w].created, ex[w].failed, {})
        /\ UNCHANGED <<rows, bull, deliveries>>
    BY <1>9, <1>h DEF FinishRun, Counts, Unprocessed
  <2>2. Tally(rows', r, ex[w].created, ex[w].failed, {})
    BY <2>1, TallyStays
  <2>3. /\ run'[r].received = Len(request[r].records)
        /\ run'[r].processed = ex[w].created /\ run'[r].failed = ex[w].failed
        /\ \A s \in Runs \ {r} : run'[s] = run[s]
    BY <1>9, <2>1, <1>d DEF FinishRun, Outcome
  <2>4. /\ OnlyExecutor(w) /\ ex'[w].pc \in {"finishJob", "idle"}
        /\ ex'[w].run = r \/ ~Async
    BY <1>9, <2>1, <1>i, ReleaseLocals DEF FinishRun
  <2>5. bull[r].state = "active" => Async
    BY <2>1 DEF QueueInv, DirectAccount
  <2>6. Counts2(w)
    BY <2>4 DEF Early
  <2>7. Run2(r)
    BY <2>1, <2>2, <2>3, <2>4, <2>5 DEF Unharmed
  <2> HIDE DEF Run2, Counts2
  <2> QED
    BY <2>1, <2>3, <2>4, <2>6, <2>7, <1>g, <1>h
<1>10. ASSUME NEW w \in Executors, FinishJob(w) PROVE CountInv'
  <2>1. /\ ex[w].pc # "idle" /\ Goto(w, "report") /\ UNCHANGED <<rows, run, bull, deliveries>>
    BY <1>10 DEF FinishJob
  <2>2. OnlyExecutor(w) /\ ex'[w].pc = "report" /\ ex'[w].run = ex[w].run
    BY <2>1, <1>i
  <2>3. Counts2(w)
    BY <2>2 DEF Early
  <2> QED
    BY <2>1, <2>2, <2>3, <1>j
<1>11. ASSUME NEW w \in Executors, Return(w) PROVE CountInv'
  <2> DEFINE r == ex[w].run
  <2>1. /\ ex[w].pc = "report" /\ r \in Runs /\ Unharmed(r) /\ deliveries[r] # 0 /\ Accounts(r)
        /\ UNCHANGED <<rows, run, deliveries>>
    BY <1>11, <1>h DEF Return
  <2>2. OnlyExecutor(w) /\ ex'[w].pc = "idle"
    BY <1>11, ReleaseLocals DEF Return
  <2>3. /\ bull'[r].state = "completed" /\ bull'[r].stalled = bull[r].stalled
        /\ \A s \in Runs \ {r} : bull'[s] = bull[s]
    BY <1>11, <2>1, <1>d DEF Return, BullJobs
  <2>4. run[r].status \in Final => Tally(rows', r, run[r].processed, run[r].failed, {})
    BY <2>1, TallyStays DEF Accounts
  <2>5. Run2(r)
    BY <2>1, <2>3, <2>4 DEF Unharmed, Accounts
  <2>6. Counts2(w)
    BY <2>2 DEF Early
  <2> HIDE DEF Run2, Counts2
  <2> QED
    BY <2>1, <2>2, <2>3, <2>5, <2>6, <1>g, <1>h
\* Without a fault nothing reaches the catch block.
<1>12. ASSUME NEW w \in Executors PROVE ~CatchRun(w) /\ ~CatchJob(w) /\ ~Rethrow(w)
  BY <1>c DEF CatchRun, CatchJob, Rethrow, Counts
<1>13. ASSUME NEW w \in Executors PROVE ~ExecutorFault(w)
  BY FaultCounts
  DEF ExecutorFault, Throw, Crash, StoreRecordAuditFails, StoreRecordFails
<1>14. CASE UNCHANGED vars
  <2>1. UNCHANGED <<ex, rows, run, bull, deliveries>>
    BY <1>14 DEF vars
  <2>2. \A r \in Runs : Run2(r)
    BY <2>1, <1>e DEF Held
  <2>3. \A v \in Executors : Counts2(v)
    BY <2>1, <1>f
  <2> QED
    BY <2>2, <2>3, <1>b
<1> QED
  BY <1>1, <1>2, <1>3, <1>4, <1>5, <1>6, <1>7, <1>8, <1>9, <1>10, <1>11, <1>12, <1>13, <1>14
  DEF Next, ExecutorStep, ProcessRecord

\* The counters an operator reads on a finished run are those of its rows,
\* for any number of runs and executors, in either mode, as long as no call
\* was rejected and no process died.
THEOREM CountersRight == Spec => []CountersMatchRows
<1> DEFINE Inv == TypeInv /\ QueueInv /\ BackedInv /\ StatusInv /\ CountInv
<1>1. Init => Inv
  BY TypeInit, QueueInit, BackedInit, StatusInit, CountInit
<1>2. Inv /\ [Next]_vars => Inv'
  BY TypeStep, QueueStep, BackedStep, StatusStep, CountStep
<1>3. Inv => CountersMatchRows
  <2> SUFFICES ASSUME TypeInv, CountInv, faults = 0, NEW r \in Runs, run[r].status \in Final
               PROVE  /\ run[r].status \in Final
                      /\ Accounts(r)
    BY TallyMatches DEF CountersMatchRows, Final
  <2> QED
    BY DEF CountInv
<1> QED
  BY <1>1, <1>2, <1>3, PTL DEF Spec
===============================================================================
