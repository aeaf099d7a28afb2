----------------------- MODULE SessionLifecycleProofs -----------------------
(* TLAPS proofs about SessionLifecycle, for every set of jobs and runs, any *)
(* number of stages and any limits.                                         *)
EXTENDS SessionLifecycle, TLAPS

-----------------------------------------------------------------------------
(* Typing.  The version a stage has reached is the maximum of a set of      *)
(* naturals; that there is one, and that only a published run has a         *)
(* version, is part of the invariant: every new version is chosen above it. *)

VersionsBounded ==
    \A st \in Stages : \E v \in Versions(st) \cup {0} :
        \A w \in Versions(st) : w <= v

OnlyPublishedVersioned ==
    \A r \in Runs : runs[r].status # "success" => runs[r].version = 0

TypeInv == TypeOK /\ VersionsBounded /\ OnlyPublishedVersioned

(* The version recorded for a stage is a natural above every version of it. *)
LEMMA StageVersionIsMaximum ==
    ASSUME TypeInv, NEW st \in Stages
    PROVE  /\ StageVersion(st) \in Nat
           /\ \A r \in Runs : runs[r].stage = st =>
                                runs[r].version <= StageVersion(st)
<1> DEFINE P(v) == \A w \in Versions(st) : w <= v
<1>1. Versions(st) \subseteq Nat
  BY DEF TypeInv, TypeOK, Versions, RunRows
<1>2. PICK v \in Versions(st) \cup {0} : P(v)
  BY DEF TypeInv, VersionsBounded
<1>3. /\ StageVersion(st) \in Versions(st) \cup {0}
      /\ P(StageVersion(st))
  BY <1>2 DEF StageVersion
<1>4. \A r \in Runs : runs[r].stage = st => runs[r].version \in Versions(st)
  BY DEF Versions
<1> QED
  BY <1>1, <1>3, <1>4

(* What a publication writes is a natural above every version of the stage. *)
LEMMA NextVersionIsNew ==
    ASSUME TypeInv, NEW st \in Stages, NEW v \in Nat
    PROVE  /\ NextVersion(v, st) \in Nat \ {0}
           /\ \A r \in Runs : runs[r].stage = st =>
                                runs[r].version < NextVersion(v, st)
<1>1. \A r \in Runs : runs[r].version \in Nat
  BY DEF TypeInv, TypeOK, RunRows
<1> QED
  BY <1>1, StageVersionIsMaximum DEF NextVersion

(* A step that publishes nothing: a run is left alone, or it was not        *)
(* published, is not published, and has no version.                         *)
RunHistoryKept ==
    \A r \in Runs : \/ runs'[r] = runs[r]
                    \/ /\ runs[r].status # "success"
                       /\ runs'[r].status # "success"
                       /\ runs'[r].version = 0

(* Such a step leaves every stage the versions it had. *)
LEMMA VersionsKept ==
    ASSUME TypeInv, RunHistoryKept
    PROVE  VersionsBounded' /\ OnlyPublishedVersioned'
<1>1. OnlyPublishedVersioned'
  BY DEF TypeInv, RunHistoryKept, OnlyPublishedVersioned
<1>2. ASSUME NEW st \in Stages
      PROVE  \E v \in Versions(st)' \cup {0} : \A w \in Versions(st)' : w <= v
  <2>1. Versions(st) \subseteq Nat
    BY DEF TypeInv, TypeOK, Versions, RunRows
  <2>2. ASSUME NEW w \in Versions(st) PROVE w \in Versions(st)' \cup {0}
    BY DEF TypeInv, OnlyPublishedVersioned, RunHistoryKept, Versions
  <2>3. ASSUME NEW w \in Versions(st)' PROVE w \in Versions(st) \cup {0}
    BY DEF TypeInv, OnlyPublishedVersioned, RunHistoryKept, Versions
  <2>4. PICK v \in Versions(st) \cup {0} : \A w \in Versions(st) : w <= v
    BY DEF TypeInv, VersionsBounded
  <2> QED
    BY <2>1, <2>2, <2>3, <2>4
<1> QED
  BY <1>1, <1>2 DEF VersionsBounded

(* The budget's operators keep a session row a session row and change only  *)
(* its exhaustion and its repairs.                                          *)
LEMMA BudgetKeepsRow ==
    ASSUME NEW s \in SessionRows
    PROVE  /\ \A t \in RefreshOutcomes(s) :
                /\ t \in SessionRows
                /\ t = [s EXCEPT !.exhaustion = t.exhaustion]
           /\ \A code \in ExhaustionCodes : Exhaust(s, code) \in SessionRows
           /\ Reserve(s) \in SessionRows
           /\ \A repair \in BOOLEAN : AfterInsert(s, repair) \in SessionRows
  BY LimitAssumption
     DEF SessionRows, RefreshOutcomes, Exhaust, Reserve, AfterInsert,
         ExhaustionCodes, Exhausted

(* The rows an insert writes, and the empty ones. *)
LEMMA InsertedRows ==
    ASSUME NEW st \in Stages, NEW j \in Jobs, NEW repair \in BOOLEAN
    PROVE  /\ QueuedJob(st, repair) \in JobRows /\ QueuedRun(j, st) \in RunRows
           /\ NoJob \in JobRows /\ NoRun \in RunRows
<1>1. 1 \in Stages
  BY StageAssumption DEF Stages
<1> QED
  BY <1>1
     DEF QueuedJob, QueuedRun, NoJob, NoRun, JobRows, RunRows,
         ActiveStatuses, FinalStatuses

(* What a cancel, a settled review or a failure leaves of the rows. *)
LEMMA RetiredRows ==
    ASSUME TypeInv
    PROVE  /\ CanceledJobs \in [Jobs -> JobRows]
           /\ SettledJobs \in [Jobs -> JobRows]
           /\ CanceledRuns \in [Runs -> RunRows]
           /\ \A j \in Jobs, r \in Runs \cup {None} :
                FailedRuns(j, r) \in [Runs -> RunRows]
<1> USE DEF TypeInv, TypeOK
<1>1. CanceledJobs \in [Jobs -> JobRows]
  BY DEF CanceledJobs, JobRows, FinalStatuses
<1>2. SettledJobs \in [Jobs -> JobRows]
  BY DEF SettledJobs, JobRows, FinalStatuses
<1>3. CanceledRuns \in [Runs -> RunRows]
  BY DEF CanceledRuns, RunRows, FinalStatuses
<1>4. ASSUME NEW j \in Jobs, NEW r \in Runs \cup {None}
      PROVE  FailedRuns(j, r) \in [Runs -> RunRows]
  BY DEF FailedRuns, RunRows, FinalStatuses
<1> QED
  BY <1>1, <1>2, <1>3, <1>4

-----------------------------------------------------------------------------

LEMMA InitTyped == Init => TypeInv
<1> SUFFICES ASSUME Init PROVE TypeInv
  OBVIOUS
<1> USE DEF Init
<1>1. PICK j \in Jobs, r \in Runs :
        /\ jobs = [k \in Jobs |-> IF k = j THEN QueuedJob(1, FALSE) ELSE NoJob]
        /\ runs = [q \in Runs |-> IF q = r THEN QueuedRun(j, 1) ELSE NoRun]
  OBVIOUS
<1>2. 1 \in Stages
  BY StageAssumption DEF Stages
<1>3. jobs \in [Jobs -> JobRows] /\ runs \in [Runs -> RunRows]
  BY <1>1, <1>2, InsertedRows
<1>4. session \in SessionRows
  BY <1>2 DEF SessionRows, Phases, ExhaustionCodes
<1>5. TypeOK
  BY <1>3, <1>4 DEF TypeOK
<1>6. \A q \in Runs : runs[q].version = 0
  BY <1>1 DEF QueuedRun, NoRun
<1>7. VersionsBounded /\ OnlyPublishedVersioned
  <2>1. \A st \in Stages : Versions(st) \subseteq {0}
    BY <1>6 DEF Versions
  <2> QED
    BY <1>6, <2>1 DEF VersionsBounded, OnlyPublishedVersioned
<1> QED
  BY <1>5, <1>7 DEF TypeInv

-----------------------------------------------------------------------------
(* Every action keeps the types. *)

(* Enough for a step that publishes nothing. *)
LEMMA TypedWithoutPublication ==
    ASSUME TypeInv, RunHistoryKept, TypeOK'
    PROVE  TypeInv'
  BY VersionsKept DEF TypeInv

LEMMA ClaimTyped ==
    ASSUME TypeInv, NEW j \in Jobs, Claim(j)
    PROVE  TypeInv' /\ RunHistoryKept
<1>1. jobs' \in [Jobs -> JobRows]
  BY DEF Claim, TypeInv, TypeOK, JobRows, ActiveStatuses
<1>2. TypeOK' /\ RunHistoryKept
  BY <1>1 DEF Claim, TypeInv, TypeOK, RunHistoryKept
<1> QED
  BY <1>2, TypedWithoutPublication

LEMMA StartTyped ==
    ASSUME TypeInv, NEW j \in Jobs, NEW n \in ClaimNumbers, NEW st \in Stages,
           NEW v \in VersionNumbers, NEW r \in Runs, Start(j, n, st, v, r)
    PROVE  TypeInv' /\ RunHistoryKept
<1> DEFINE started == [QueuedRun(j, session.stage) EXCEPT
                          !.status = "running", !.attempt = n]
<1>1. /\ session \in SessionRows /\ session.stage \in Stages
      /\ runs \in [Runs -> RunRows]
  BY DEF TypeInv, TypeOK, SessionRows
<1>2. PICK s \in RefreshOutcomes(session) :
        \/ session' = s /\ UNCHANGED runs
        \/ /\ IF Placeholders(j) = {} THEN runs[r].status = "absent"
                                      ELSE r \in Placeholders(j)
           /\ runs' = [q \in Runs |->
                CASE q = r -> started
                  [] q # r /\ runs[q].job = j /\ Live(q)
                       /\ runs[q].attempt \in 1..(n - 1) ->
                       [runs[q] EXCEPT !.status = "error"]
                  [] OTHER -> runs[q]]
           /\ session' = [s EXCEPT !.phase = "in_progress"]
  BY DEF Start
<1>3. s \in SessionRows
  BY <1>1, <1>2, BudgetKeepsRow
<1>4. session' \in SessionRows
  BY <1>2, <1>3 DEF SessionRows, Phases
<1>5. started \in RunRows /\ started.version = 0 /\ started.status = "running"
  <2>1. n \in Nat
    BY LimitAssumption DEF ClaimNumbers
  <2> QED
    BY <1>1, <2>1 DEF QueuedRun, NoRun, RunRows, ActiveStatuses
<1>6. /\ runs[r].status # "success" \/ UNCHANGED runs
      /\ UNCHANGED runs \/ \A q \in Runs :
            \/ runs'[q] = runs[q]
            \/ q = r /\ runs'[q] = started
            \/ Live(q) /\ runs'[q] = [runs[q] EXCEPT !.status = "error"]
  BY <1>2 DEF Placeholders
<1>7. runs' \in [Runs -> RunRows]
  <2>1. \A q \in Runs : [runs[q] EXCEPT !.status = "error"] \in RunRows
    BY <1>1 DEF RunRows, FinalStatuses
  <2> HIDE DEF started
  <2> QED
    BY <1>1, <1>2, <1>5, <2>1
<1>8. RunHistoryKept
  <2>1. \A q \in Runs : Live(q) => runs[q].status # "success" /\ runs[q].version = 0
    BY DEF TypeInv, OnlyPublishedVersioned, Live, ActiveStatuses
  <2>2. \A q \in Runs : LET x == [runs[q] EXCEPT !.status = "error"]
                        IN  x.version = runs[q].version /\ x.status = "error"
    BY <1>1 DEF RunRows
  <2> HIDE DEF started
  <2> QED
    BY <1>5, <1>6, <2>1, <2>2 DEF RunHistoryKept
<1>9. TypeOK'
  BY <1>4, <1>7 DEF Start, TypeInv, TypeOK
<1> QED
  BY <1>8, <1>9, TypedWithoutPublication

(* Either form of publication. *)
LEMMA RecordTyped ==
    ASSUME TypeInv, NEW j \in Jobs, NEW n \in ClaimNumbers, NEW r \in Runs,
           NEW v \in VersionNumbers, PublishAllowed(j, n, r, v),
           RecordArtifact(j, r, v)
    PROVE  /\ session' \in SessionRows
           /\ runs' \in [Runs -> RunRows]
           /\ VersionsBounded' /\ OnlyPublishedVersioned'
<1> DEFINE here == jobs[j].stage
           next == NextVersion(v, here)
<1>1. /\ session \in SessionRows /\ runs \in [Runs -> RunRows]
      /\ here \in Stages /\ runs[r].stage = here /\ v \in Nat
  BY DEF TypeInv, TypeOK, JobRows, PublishAllowed, VersionNumbers
<1>2. next \in Nat \ {0} /\ \A q \in Runs : runs[q].stage = here =>
                                                runs[q].version < next
  BY <1>1, NextVersionIsNew
<1>3. /\ session' = [session EXCEPT !.phase = "awaiting_review",
                                    !.version = next, !.artifact = r]
      /\ runs' = [runs EXCEPT ![r].status = "success", ![r].version = next]
  BY DEF RecordArtifact
<1> HIDE DEF next
<1>4. session' \in SessionRows
  BY <1>1, <1>2, <1>3 DEF SessionRows, Phases
<1>5. runs' \in [Runs -> RunRows]
  BY <1>1, <1>2, <1>3 DEF RunRows, FinalStatuses
<1>6. /\ runs'[r].version = next /\ runs'[r].stage = here
      /\ runs'[r].status = "success"
      /\ \A q \in Runs \ {r} : runs'[q] = runs[q]
  BY <1>1, <1>3 DEF RunRows
<1>7. OnlyPublishedVersioned'
  BY <1>6 DEF TypeInv, OnlyPublishedVersioned
<1>8. ASSUME NEW st \in Stages
      PROVE  \E w \in Versions(st)' \cup {0} : \A u \in Versions(st)' : u <= w
  <2>1. CASE st = here
    <3>1. next \in Versions(st)'
      BY <1>6, <2>1 DEF Versions
    <3>2. \A u \in Versions(st)' : u <= next
      BY <1>2, <1>6, <1>5, <2>1 DEF Versions, RunRows
    <3> QED
      BY <3>1, <3>2
  <2>2. CASE st # here
    <3>1. Versions(st)' = Versions(st)
      BY <1>1, <1>6, <2>2 DEF Versions
    <3> QED
      BY <3>1 DEF TypeInv, VersionsBounded
  <2> QED
    BY <2>1, <2>2
<1> QED
  BY <1>4, <1>5, <1>7, <1>8 DEF VersionsBounded

LEMMA PublishTyped ==
    ASSUME TypeInv, NEW j \in Jobs, NEW n \in ClaimNumbers, NEW r \in Runs,
           NEW v \in VersionNumbers,
           Publish(j, n, r, v) \/ PublishDirect(j, n, r, v)
    PROVE  TypeInv'
<1>1. PublishAllowed(j, n, r, v) /\ RecordArtifact(j, r, v)
  BY DEF Publish, PublishDirect
<1>2. jobs' \in [Jobs -> JobRows]
  BY DEF Publish, PublishDirect, TypeInv, TypeOK, JobRows, FinalStatuses
<1>3. UNCHANGED <<completed, control, deferrals, retries, invalidated>>
  BY DEF Publish, PublishDirect
<1> QED
  BY <1>1, <1>2, <1>3, RecordTyped DEF TypeInv, TypeOK

LEMMA CompleteTyped ==
    ASSUME TypeInv, NEW j \in Jobs, NEW n \in ClaimNumbers, NEW r \in Runs,
           Complete(j, n, r)
    PROVE  TypeInv' /\ RunHistoryKept
<1>1. jobs' \in [Jobs -> JobRows]
  BY DEF Complete, TypeInv, TypeOK, JobRows, FinalStatuses
<1>2. TypeOK' /\ RunHistoryKept
  BY <1>1 DEF Complete, TypeInv, TypeOK, RunHistoryKept
<1> QED
  BY <1>2, TypedWithoutPublication

LEMMA FailTyped ==
    ASSUME TypeInv, NEW j \in Jobs, NEW n \in ClaimNumbers,
           NEW r \in Runs \cup {None}, NEW retry \in BOOLEAN,
           Fail(j, n, r, retry)
    PROVE  TypeInv' /\ RunHistoryKept
<1>1. /\ session \in SessionRows /\ jobs \in [Jobs -> JobRows]
      /\ runs \in [Runs -> RunRows] /\ retries \in [Jobs -> Nat]
  BY DEF TypeInv, TypeOK
<1>2. PICK s \in RefreshOutcomes(session) :
        LET wanted   == retry /\ RetryAllowed(j, n, r) /\ ~Exhausted(s)
            retrying == wanted /\ RepairAdmitted(s)
            after    == IF wanted THEN Reserve(s) ELSE s
        IN  /\ jobs' = [jobs EXCEPT ![j].status =
                            IF retrying THEN "queued" ELSE "error"]
            /\ retries' = IF retrying THEN [retries EXCEPT ![j] = @ + 1]
                                      ELSE retries
            /\ session' = IF OwnsCurrentStage(j)
                          THEN [after EXCEPT !.phase = "rejected"] ELSE after
  BY DEF Fail
<1>3. s \in SessionRows /\ Reserve(s) \in SessionRows
  BY <1>1, <1>2, BudgetKeepsRow
<1>4. session' \in SessionRows
  BY <1>2, <1>3 DEF SessionRows, Phases
<1>5. jobs' \in [Jobs -> JobRows] /\ retries' \in [Jobs -> Nat]
  BY <1>1, <1>2 DEF JobRows, ActiveStatuses, FinalStatuses
<1>6. runs' = FailedRuns(j, r)
  BY DEF Fail
<1>7. runs' \in [Runs -> RunRows]
  BY <1>6, RetiredRows
<1>8. RunHistoryKept
  <2>1. ASSUME NEW q \in Runs, runs'[q] # runs[q]
        PROVE  Live(q) /\ runs'[q] = [runs[q] EXCEPT !.status = "error"]
    BY <1>6, <2>1, NoneAssumption
       DEF FailedRuns, Fail, FailsClaim, Placeholders, Live, ActiveStatuses
  <2>2. \A q \in Runs : Live(q) => runs[q].status # "success" /\ runs[q].version = 0
    BY DEF TypeInv, OnlyPublishedVersioned, Live, ActiveStatuses
  <2>3. \A q \in Runs : LET x == [runs[q] EXCEPT !.status = "error"]
                        IN  x.version = runs[q].version /\ x.status = "error"
    BY <1>1 DEF RunRows
  <2> QED
    BY <2>1, <2>2, <2>3 DEF RunHistoryKept
<1>9. TypeOK'
  BY <1>4, <1>5, <1>7 DEF Fail, TypeInv, TypeOK
<1> QED
  BY <1>8, <1>9, TypedWithoutPublication

LEMMA DeferTyped ==
    ASSUME TypeInv, NEW j \in Jobs, NEW n \in ClaimNumbers, Defer(j, n)
    PROVE  TypeInv' /\ RunHistoryKept
<1>1. jobs' \in [Jobs -> JobRows]
  <2> DEFINE row == [jobs[j] EXCEPT !.status = "queued", !.release = 0]
  <2>1. jobs' = [jobs EXCEPT ![j] = row]
    BY DEF Defer
  <2>2. jobs \in [Jobs -> JobRows]
    BY DEF TypeInv, TypeOK
  <2>3. row \in JobRows
    BY <2>2 DEF JobRows, ActiveStatuses
  <2> HIDE DEF row
  <2> QED
    BY <2>1, <2>2, <2>3
<1>2. n \in Nat
  BY LimitAssumption DEF ClaimNumbers
<1>3. TypeOK' /\ RunHistoryKept
  BY <1>1, <1>2 DEF Defer, TypeInv, TypeOK, RunHistoryKept
<1> QED
  BY <1>3, TypedWithoutPublication

(* A cancel leaves published runs alone; so does the insert of a new row.   *)
LEMMA CanceledHistoryKept ==
    ASSUME TypeInv
    PROVE  \A q \in Runs : \/ CanceledRuns[q] = runs[q]
                           \/ /\ runs[q].status # "success"
                              /\ CanceledRuns[q].status # "success"
                              /\ CanceledRuns[q].version = 0
  BY DEF TypeInv, TypeOK, OnlyPublishedVersioned, CanceledRuns, Live,
         ActiveStatuses, RunRows

LEMMA InsertedHistoryKept ==
    ASSUME TypeInv, NEW j \in Jobs, NEW st \in Stages, NEW r \in Runs,
           NEW f \in [Runs -> RunRows],
           \A q \in Runs : \/ f[q] = runs[q]
                           \/ /\ runs[q].status # "success"
                              /\ f[q].status # "success"
                              /\ f[q].version = 0,
           runs[r].status = "absent",
           runs' = [f EXCEPT ![r] = QueuedRun(j, st)]
    PROVE  runs' \in [Runs -> RunRows] /\ RunHistoryKept
<1>1. /\ QueuedRun(j, st) \in RunRows
      /\ QueuedRun(j, st).status = "queued" /\ QueuedRun(j, st).version = 0
  BY InsertedRows DEF QueuedRun, NoRun
<1> QED
  BY <1>1 DEF RunHistoryKept

LEMMA InsertedJobTyped ==
    ASSUME NEW j \in Jobs, NEW st \in Stages, NEW repair \in BOOLEAN,
           NEW f \in [Jobs -> JobRows],
           jobs' = [f EXCEPT ![j] = QueuedJob(st, repair)]
    PROVE  jobs' \in [Jobs -> JobRows]
  BY InsertedRows

LEMMA EnqueueTyped ==
    ASSUME TypeInv, NEW j \in Jobs, NEW r \in Runs, Enqueue(j, r)
    PROVE  TypeInv' /\ RunHistoryKept
<1>1. session \in SessionRows /\ runs \in [Runs -> RunRows] /\ jobs \in [Jobs -> JobRows]
  BY DEF TypeInv, TypeOK
<1>2. PICK s \in RefreshOutcomes(session) :
        IF InsertAdmitted(s, TRUE)
        THEN /\ session' = AfterInsert(s, TRUE)
             /\ jobs' = [jobs EXCEPT ![j] = QueuedJob(s.stage, TRUE)]
             /\ runs' = [runs EXCEPT ![r] = QueuedRun(j, s.stage)]
        ELSE /\ session' = Reserve(s)
             /\ UNCHANGED <<jobs, runs>>
  BY DEF Enqueue
<1>3. s \in SessionRows /\ s.stage \in Stages
  BY <1>1, <1>2, BudgetKeepsRow DEF SessionRows
<1>4. session' \in SessionRows
  BY <1>2, <1>3, BudgetKeepsRow
<1>5. jobs' \in [Jobs -> JobRows]
  <2>1. CASE UNCHANGED jobs
    BY <1>1, <2>1
  <2>2. CASE jobs' = [jobs EXCEPT ![j] = QueuedJob(s.stage, TRUE)]
    BY <1>1, <1>3, <2>2, InsertedJobTyped
  <2> QED
    BY <1>2, <2>1, <2>2
<1>6. runs' \in [Runs -> RunRows] /\ RunHistoryKept
  <2>1. runs[r].status = "absent"
    BY DEF Enqueue, Unused
  <2>2. CASE UNCHANGED runs
    BY <1>1, <2>2 DEF RunHistoryKept
  <2>3. CASE runs' = [runs EXCEPT ![r] = QueuedRun(j, s.stage)]
    BY <1>1, <1>3, <2>1, <2>3, InsertedHistoryKept
  <2> QED
    BY <1>2, <2>2, <2>3
<1>7. TypeOK'
  BY <1>4, <1>5, <1>6 DEF Enqueue, TypeInv, TypeOK
<1> QED
  BY <1>6, <1>7, TypedWithoutPublication

LEMMA ApproveTyped ==
    ASSUME TypeInv, NEW a \in Runs, NEW j \in Jobs, NEW r \in Runs,
           ApproveAndAdvance(a, j, r)
    PROVE  TypeInv' /\ RunHistoryKept
<1>1. /\ session \in SessionRows /\ runs \in [Runs -> RunRows]
      /\ completed \in [Stages -> Runs \cup {None}]
      /\ jobs \in [Jobs -> JobRows]
  BY DEF TypeInv, TypeOK
<1>2. PICK s \in RefreshOutcomes(session) :
        \/ session' = s /\ UNCHANGED <<jobs, runs, completed>>
        \/ /\ Unused(j, r)
           /\ RecordCompletion(a)
           /\ session' = [s EXCEPT !.stage = @ + 1, !.artifact = None,
                                   !.version = StageVersion(s.stage + 1),
                                   !.phase = "in_progress"]
           /\ jobs' = [SettledJobs EXCEPT ![j] = QueuedJob(s.stage + 1, FALSE)]
           /\ runs' = [runs EXCEPT ![r] = QueuedRun(j, s.stage + 1)]
  BY DEF ApproveAndAdvance
<1>3. s \in SessionRows /\ s.stage + 1 \in Stages
  <2>1. s \in SessionRows /\ s.stage = session.stage
    BY <1>1, <1>2, BudgetKeepsRow DEF SessionRows
  <2>2. session.stage \in Stages /\ session.stage < LastStage
    BY <1>1 DEF ApproveAndAdvance, HasLaterStage, SessionRows
  <2> QED
    BY <2>1, <2>2, StageAssumption DEF Stages
<1>4. StageVersion(s.stage + 1) \in Nat
  BY <1>3, StageVersionIsMaximum
<1>5. session' \in SessionRows
  BY <1>2, <1>3, <1>4 DEF SessionRows, Phases
<1>6. jobs' \in [Jobs -> JobRows]
  <2>1. CASE UNCHANGED jobs
    BY <1>1, <2>1
  <2>2. CASE jobs' = [SettledJobs EXCEPT ![j] = QueuedJob(s.stage + 1, FALSE)]
    BY <1>3, <2>2, InsertedJobTyped, RetiredRows
  <2> QED
    BY <1>2, <2>1, <2>2
<1>7. runs' \in [Runs -> RunRows] /\ RunHistoryKept
  <2>1. CASE UNCHANGED runs
    BY <1>1, <2>1 DEF RunHistoryKept
  <2>2. CASE /\ runs[r].status = "absent"
             /\ runs' = [runs EXCEPT ![r] = QueuedRun(j, s.stage + 1)]
    BY <1>1, <1>3, <2>2, InsertedHistoryKept
  <2> QED
    BY <1>2, <2>1, <2>2 DEF Unused
<1>8. completed' \in [Stages -> Runs \cup {None}]
  BY <1>1, <1>2 DEF RecordCompletion
<1>9. TypeOK'
  BY <1>5, <1>6, <1>7, <1>8 DEF ApproveAndAdvance, TypeInv, TypeOK
<1> QED
  BY <1>7, <1>9, TypedWithoutPublication

LEMMA DeliveryTyped ==
    ASSUME TypeInv, NEW a \in Runs, ApproveDelivery(a)
    PROVE  TypeInv' /\ RunHistoryKept
<1>1. /\ session \in SessionRows
      /\ completed \in [Stages -> Runs \cup {None}]
  BY DEF TypeInv, TypeOK
<1>2. PICK s \in RefreshOutcomes(session) :
        session' = [s EXCEPT !.phase = "approved", !.archived = ~ManualMerge]
  BY DEF ApproveDelivery
<1>3. session' \in SessionRows
  <2>1. s \in SessionRows
    BY <1>1, <1>2, BudgetKeepsRow
  <2> QED
    BY <1>2, <2>1 DEF SessionRows, Phases
<1>4. completed' \in [Stages -> Runs \cup {None}]
  BY <1>1 DEF ApproveDelivery, RecordCompletion
<1>5. TypeOK' /\ RunHistoryKept
  BY <1>3, <1>4, RetiredRows
     DEF ApproveDelivery, TypeInv, TypeOK, RunHistoryKept
<1> QED
  BY <1>5, TypedWithoutPublication

LEMMA RejectTyped ==
    ASSUME TypeInv, NEW a \in Runs, RejectExhausted(a) \/ RejectAdopt(a)
    PROVE  TypeInv' /\ RunHistoryKept
<1>1. session \in SessionRows
  BY DEF TypeInv, TypeOK
<1>2. session' \in SessionRows
  <2>1. CASE RejectExhausted(a)
    <3>1. PICK s \in RefreshOutcomes(session) :
            session' = [Exhaust(s, "repair_attempts") EXCEPT
                            !.phase = "rejected"]
      BY <2>1 DEF RejectExhausted
    <3>2. Exhaust(s, "repair_attempts") \in SessionRows
      BY <1>1, <3>1, BudgetKeepsRow DEF ExhaustionCodes
    <3> QED
      BY <3>1, <3>2 DEF SessionRows, Phases
  <2>2. CASE RejectAdopt(a)
    BY <1>1, <2>2 DEF RejectAdopt, SessionRows, Phases
  <2> QED
    BY <2>1, <2>2
<1>3. TypeOK' /\ RunHistoryKept
  BY <1>2 DEF RejectExhausted, RejectAdopt, TypeInv, TypeOK, RunHistoryKept
<1> QED
  BY <1>3, TypedWithoutPublication

LEMMA RepairTyped ==
    ASSUME TypeInv, NEW a \in Runs, NEW j \in Jobs, NEW r \in Runs,
           RejectAndRepair(a, j, r)
    PROVE  TypeInv' /\ RunHistoryKept
<1> DEFINE retired == [k \in Jobs |->
                IF Active(k) THEN [jobs[k] EXCEPT !.status = RetiredByReview(k)]
                ELSE jobs[k]]
           closed == [q \in Runs |->
                IF Live(q) /\ runs[q].job \in ActiveJobs
                THEN [runs[q] EXCEPT !.status = "canceled"] ELSE runs[q]]
<1>1. /\ session \in SessionRows /\ session.stage \in Stages
      /\ runs \in [Runs -> RunRows] /\ jobs \in [Jobs -> JobRows]
  BY DEF TypeInv, TypeOK, SessionRows
<1>2. session' \in SessionRows
  <2>1. AfterInsert(session, TRUE) \in SessionRows
    BY <1>1, BudgetKeepsRow
  <2>2. session' = [AfterInsert(session, TRUE) EXCEPT !.phase = "rejected"]
    BY DEF RejectAndRepair
  <2> QED
    BY <2>1, <2>2 DEF SessionRows, Phases
<1>3. jobs' = [retired EXCEPT ![j] = QueuedJob(session.stage, TRUE)]
  BY DEF RejectAndRepair
<1>4. retired \in [Jobs -> JobRows]
  BY <1>1 DEF JobRows, FinalStatuses, RetiredByReview
<1>5. jobs' \in [Jobs -> JobRows]
  <2> HIDE DEF retired
  <2> QED
    BY <1>1, <1>3, <1>4, InsertedJobTyped
<1>6. /\ runs' = [closed EXCEPT ![r] = QueuedRun(j, session.stage)]
      /\ runs[r].status = "absent"
  BY DEF RejectAndRepair, Unused
<1>7. closed \in [Runs -> RunRows]
  BY <1>1 DEF RunRows, FinalStatuses
<1>8. \A q \in Runs : \/ closed[q] = runs[q]
                      \/ /\ runs[q].status # "success"
                         /\ closed[q].status # "success"
                         /\ closed[q].version = 0
  BY <1>1 DEF TypeInv, OnlyPublishedVersioned, Live, ActiveStatuses, RunRows
<1>9. runs' \in [Runs -> RunRows] /\ RunHistoryKept
  <2> HIDE DEF closed
  <2> QED
    BY <1>1, <1>6, <1>7, <1>8, InsertedHistoryKept
<1>10. TypeOK'
  BY <1>2, <1>5, <1>9 DEF RejectAndRepair, TypeInv, TypeOK
<1> QED
  BY <1>9, <1>10, TypedWithoutPublication

LEMMA RerouteTyped ==
    ASSUME TypeInv, NEW t \in Stages, NEW rework \in BOOLEAN, NEW j \in Jobs,
           NEW r \in Runs, Reroute(t, rework, j, r)
    PROVE  TypeInv' /\ RunHistoryKept
<1>1. /\ session \in SessionRows /\ runs \in [Runs -> RunRows]
      /\ jobs \in [Jobs -> JobRows]
      /\ completed \in [Stages -> Runs \cup {None}]
      /\ invalidated \subseteq Runs
  BY DEF TypeInv, TypeOK
<1>2. PICK s \in RefreshOutcomes(session) :
        IF Exhausted(s) \/ (rework /\ RepairsSpent(s))
        THEN /\ session' = Exhaust(s, "repair_attempts")
             /\ UNCHANGED <<jobs, runs, completed, invalidated>>
        ELSE /\ Unused(j, r)
             /\ session' = [AfterInsert(s, rework) EXCEPT
                                !.stage = t, !.artifact = None,
                                !.version = StageVersion(t),
                                !.phase = "rejected"]
             /\ jobs' = [CanceledJobs EXCEPT ![j] = QueuedJob(t, rework)]
             /\ runs' = [CanceledRuns EXCEPT ![r] = QueuedRun(j, t)]
             /\ completed' = CompletionsBefore(t)
             /\ invalidated' = invalidated \cup
                    {q \in Runs : runs[q].version > 0 /\ runs[q].stage >= t}
  BY DEF Reroute
<1>3. /\ s \in SessionRows /\ AfterInsert(s, rework) \in SessionRows
      /\ Exhaust(s, "repair_attempts") \in SessionRows
      /\ StageVersion(t) \in Nat
  BY <1>1, <1>2, BudgetKeepsRow, StageVersionIsMaximum DEF ExhaustionCodes
<1>4. session' \in SessionRows
  BY <1>2, <1>3 DEF SessionRows, Phases
<1>5. jobs' \in [Jobs -> JobRows]
  <2>1. CASE UNCHANGED jobs
    BY <1>1, <2>1
  <2>2. CASE jobs' = [CanceledJobs EXCEPT ![j] = QueuedJob(t, rework)]
    BY <2>2, InsertedJobTyped, RetiredRows
  <2> QED
    BY <1>2, <2>1, <2>2
<1>6. runs' \in [Runs -> RunRows] /\ RunHistoryKept
  <2>1. CASE UNCHANGED runs
    BY <1>1, <2>1 DEF RunHistoryKept
  <2>2. CASE /\ runs[r].status = "absent"
             /\ runs' = [CanceledRuns EXCEPT ![r] = QueuedRun(j, t)]
    BY <2>2, RetiredRows, CanceledHistoryKept, InsertedHistoryKept
  <2> QED
    BY <1>2, <2>1, <2>2 DEF Unused
<1>7. completed' \in [Stages -> Runs \cup {None}] /\ invalidated' \subseteq Runs
  BY <1>1, <1>2 DEF CompletionsBefore
<1>8. TypeOK'
  BY <1>4, <1>5, <1>6, <1>7 DEF Reroute, TypeInv, TypeOK
<1> QED
  BY <1>6, <1>8, TypedWithoutPublication

LEMMA CancelTyped ==
    ASSUME TypeInv, NEW x,
           Cancel(x) \/ \E done \in BOOLEAN : Archive(done)
    PROVE  TypeInv' /\ RunHistoryKept
<1>1. session \in SessionRows
  BY DEF TypeInv, TypeOK
<1>2. session' \in SessionRows
  BY <1>1 DEF Cancel, Archive, SessionRows, Phases
<1>3. jobs' = CanceledJobs /\ runs' = CanceledRuns
  BY DEF Cancel, Archive
<1>4. TypeOK'
  BY <1>2, <1>3, RetiredRows DEF Cancel, Archive, TypeInv, TypeOK
<1>5. RunHistoryKept
  BY <1>3, CanceledHistoryKept DEF RunHistoryKept
<1> QED
  BY <1>4, <1>5, TypedWithoutPublication

LEMMA ControlTyped ==
    ASSUME TypeInv, Unarchive \/ SetRelease \/ ReadBudget \/ UNCHANGED vars
    PROVE  TypeInv' /\ RunHistoryKept
<1>1. RunHistoryKept
  BY DEF Unarchive, SetRelease, ReadBudget, vars, RunHistoryKept
<1>2. TypeOK'
  <2>1. CASE Unarchive
    BY <2>1 DEF Unarchive, TypeInv, TypeOK, SessionRows
  <2>2. CASE SetRelease
    BY <2>2 DEF SetRelease, TypeInv, TypeOK
  <2>3. CASE ReadBudget
    BY <2>3, BudgetKeepsRow DEF ReadBudget, TypeInv, TypeOK
  <2>4. CASE UNCHANGED vars
    BY <2>4 DEF vars, TypeInv, TypeOK
  <2> QED
    BY <2>1, <2>2, <2>3, <2>4
<1> QED
  BY <1>1, <1>2, TypedWithoutPublication

LEMMA StepTyped == TypeInv /\ [Next]_vars => TypeInv'
<1> SUFFICES ASSUME TypeInv, [Next]_vars PROVE TypeInv'
  OBVIOUS
<1>1. CASE WorkerStep
  BY <1>1, ClaimTyped, StartTyped, PublishTyped, CompleteTyped, FailTyped,
     DeferTyped DEF WorkerStep
<1>2. CASE ReviewStep
  BY <1>2, ApproveTyped, DeliveryTyped, RejectTyped, RepairTyped
     DEF ReviewStep
<1>3. CASE ControlStep
  BY <1>3, EnqueueTyped, RerouteTyped, CancelTyped, ControlTyped
     DEF ControlStep
<1>4. CASE UNCHANGED vars
  BY <1>4, ControlTyped
<1> QED
  BY <1>1, <1>2, <1>3, <1>4 DEF Next

(* Typing as an invariant, with what it rests on. *)
LEMMA TypeInvariance == Spec => []TypeInv
  BY InitTyped, StepTyped, PTL DEF Spec

(* Every row always holds values of its columns' types: in particular the   *)
(* version of a stage is a number whatever was published and rerouted.      *)
THEOREM TypeCorrectness == Spec => []TypeOK
<1>1. TypeInv => TypeOK
  BY DEF TypeInv
<1> QED
  BY <1>1, TypeInvariance, PTL

-----------------------------------------------------------------------------
(* History *)

JobHistoryKept == \A j \in Jobs : jobs[j].status \in FinalStatuses =>
                                    jobs'[j].status = jobs[j].status
PublishedKept == \A r \in Runs : runs[r].status = "success" =>
                                    runs'[r] = runs[r]

LEMMA WorkerKeepsHistory ==
    ASSUME TypeInv, WorkerStep
    PROVE  JobHistoryKept /\ PublishedKept
<1> USE DEF JobHistoryKept, FinalStatuses
<1>1. jobs \in [Jobs -> JobRows] /\ runs \in [Runs -> RunRows]
  BY DEF TypeInv, TypeOK
<1>2. RunHistoryKept => PublishedKept
  BY DEF RunHistoryKept, PublishedKept
<1>3. ASSUME NEW j \in Jobs, Claim(j)
      PROVE  JobHistoryKept /\ PublishedKept
  BY <1>1, <1>2, <1>3, ClaimTyped DEF Claim, JobRows
<1>4. ASSUME NEW j \in Jobs, NEW n \in ClaimNumbers, NEW st \in Stages,
             NEW v \in VersionNumbers, NEW r \in Runs, Start(j, n, st, v, r)
      PROVE  JobHistoryKept /\ PublishedKept
  BY <1>2, <1>4, StartTyped DEF Start
<1>5. ASSUME NEW j \in Jobs, NEW n \in ClaimNumbers, NEW r \in Runs,
             NEW v \in VersionNumbers,
             Publish(j, n, r, v) \/ PublishDirect(j, n, r, v)
      PROVE  JobHistoryKept /\ PublishedKept
  <2>1. PublishedKept
    BY <1>1, <1>5 DEF Publish, PublishDirect, PublishAllowed, RecordArtifact,
                      PublishedKept
  <2>2. JobHistoryKept
    BY <1>1, <1>5 DEF Publish, PublishDirect, PublishAllowed, OwnsClaim, JobRows
  <2> QED
    BY <2>1, <2>2
<1>6. ASSUME NEW j \in Jobs, NEW n \in ClaimNumbers, NEW r \in Runs,
             Complete(j, n, r)
      PROVE  JobHistoryKept /\ PublishedKept
  BY <1>1, <1>2, <1>6, CompleteTyped DEF Complete, JobRows
<1>7. ASSUME NEW j \in Jobs, NEW n \in ClaimNumbers, NEW r \in Runs \cup {None},
             NEW retry \in BOOLEAN, Fail(j, n, r, retry)
      PROVE  JobHistoryKept /\ PublishedKept
  <2>1. jobs[j].status = "running" /\ \A k \in Jobs \ {j} : jobs'[k] = jobs[k]
    BY <1>1, <1>7 DEF Fail, OwnsClaim
  <2> QED
    BY <1>2, <1>7, <2>1, FailTyped
<1>8. ASSUME NEW j \in Jobs, NEW n \in ClaimNumbers, Defer(j, n)
      PROVE  JobHistoryKept /\ PublishedKept
  BY <1>1, <1>2, <1>8, DeferTyped DEF Defer, OwnsClaim, JobRows
<1> QED
  BY <1>3, <1>4, <1>5, <1>6, <1>7, <1>8 DEF WorkerStep

(* What reviews and control leave of jobs that are not active. *)
LEMMA EndedJobsKept ==
    ASSUME NEW j \in Jobs, ~Active(j)
    PROVE  CanceledJobs[j] = jobs[j] /\ SettledJobs[j] = jobs[j]
  BY DEF CanceledJobs, SettledJobs

LEMMA ReviewKeepsHistory ==
    ASSUME TypeInv, ReviewStep \/ ControlStep
    PROVE  JobHistoryKept /\ PublishedKept
<1>1. RunHistoryKept
  BY ApproveTyped, DeliveryTyped, RejectTyped, RepairTyped, EnqueueTyped,
     RerouteTyped, CancelTyped, ControlTyped DEF ReviewStep, ControlStep
<1>2. PublishedKept
  BY <1>1 DEF RunHistoryKept, PublishedKept
<1>3. ASSUME NEW k \in Jobs, jobs[k].status \in FinalStatuses
      PROVE  jobs'[k].status = jobs[k].status
  <2>1. /\ ~Active(k) /\ jobs[k].status # "absent"
        /\ CanceledJobs[k] = jobs[k] /\ SettledJobs[k] = jobs[k]
    BY <1>3, EndedJobsKept DEF Active, ActiveStatuses, FinalStatuses
  <2>2. CASE UNCHANGED jobs
    BY <2>2
  <2>3. CASE jobs' = CanceledJobs \/ jobs' = SettledJobs
    BY <2>1, <2>3
  <2>4. ASSUME NEW j \in Jobs, jobs[j].status = "absent", NEW row,
               jobs' = [SettledJobs EXCEPT ![j] = row]
                 \/ jobs' = [CanceledJobs EXCEPT ![j] = row]
                 \/ jobs' = [jobs EXCEPT ![j] = row]
                 \/ jobs' = [[i \in Jobs |-> IF Active(i)
                        THEN [jobs[i] EXCEPT !.status = RetiredByReview(i)]
                        ELSE jobs[i]] EXCEPT ![j] = row]
        PROVE  jobs'[k].status = jobs[k].status
    <3>1. jobs \in [Jobs -> JobRows] /\ k # j
      BY <2>1, <2>4 DEF TypeInv, TypeOK
    <3> QED
      BY <2>1, <2>4, <3>1 DEF SettledJobs, CanceledJobs
  <2>5. CASE ReviewStep
    BY <2>2, <2>3, <2>4, <2>5
       DEF ReviewStep, ApproveAndAdvance, ApproveDelivery, RejectExhausted,
           RejectAdopt, RejectAndRepair, Unused
  <2>6. CASE ControlStep
    BY <2>2, <2>3, <2>4, <2>6
       DEF ControlStep, Enqueue, Reroute, Cancel, Archive, Unarchive,
           SetRelease, ReadBudget, Unused
  <2> QED
    BY <2>5, <2>6
<1> QED
  BY <1>2, <1>3 DEF JobHistoryKept

(* A job that ended keeps its verdict and a published run is never changed, *)
(* whatever workers, reviewers, Linear and the release switch interleave.   *)
THEOREM HistoryKept == Spec => HistoryIsImmutable
<1>1. TypeInv /\ [Next]_vars => [JobHistoryKept /\ PublishedKept]_vars
  BY WorkerKeepsHistory, ReviewKeepsHistory DEF Next
<1>2. [JobHistoryKept /\ PublishedKept]_vars =>
        [/\ \A j \in Jobs : jobs[j].status \in FinalStatuses =>
                                jobs'[j].status = jobs[j].status
         /\ \A r \in Runs : runs[r].status = "success" =>
                                runs'[r] = runs[r]]_vars
  BY DEF JobHistoryKept, PublishedKept
<1> QED
  BY <1>1, <1>2, TypeInvariance, PTL DEF Spec, HistoryIsImmutable
=============================================================================
