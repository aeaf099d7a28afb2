------------------------ MODULE SessionOwnershipProofs ------------------------
(* TLAPS proof that one execution owns a session, from an inductive invariant *)
(* that ties the rows of a session together.                                  *)
EXTENDS SessionLifecycleProofs

-----------------------------------------------------------------------------
(* The inductive invariant *)

(* A run belongs to a job and to the stage of that job.                     *)
RowsAgree ==
    \A r \in Runs :
        IF runs[r].status = "absent"
        THEN runs[r].job = None /\ runs[r].attempt = 0
        ELSE /\ runs[r].job \in Jobs
             /\ jobs[runs[r].job].status # "absent"
             /\ jobs[runs[r].job].stage = runs[r].stage

(* A job left active by a worker that published and has not completed it    *)
(* yet keeps its session out of progress.                                   *)
PublishedIsReviewed ==
    \A r \in Runs : (runs[r].status = "success" /\ Active(runs[r].job))
                        => session.phase # "in_progress"

OwnershipInv == /\ RowsAgree
                /\ OneActiveJob
                /\ RunningRunOwnsSession
                /\ OneRunPerClaim
                /\ InProgressHasWork
                /\ PublishedJobIsSettled
                /\ PublishedIsReviewed

(* Only a session in progress has a running run. *)
NoneRunning == \A r \in Runs : runs[r].status # "running"

LEMMA IdleSession ==
    ASSUME OwnershipInv, session.phase # "in_progress" \/ session.archived
    PROVE  NoneRunning
  BY DEF OwnershipInv, RunningRunOwnsSession, NoneRunning

(* What the invariant says of the claim a worker owns. *)
LEMMA OwnedClaim ==
    ASSUME TypeInv, OwnershipInv, NEW j \in Jobs, jobs[j].status = "running"
    PROVE  /\ \A k \in Jobs : Active(k) => k = j
           /\ \A q \in Runs : runs[q].status = "running" =>
                    runs[q].job = j /\ runs[q].attempt = jobs[j].attempt
           /\ \A q \in Runs : (runs[q].status = "success" /\ runs[q].job = j)
                    => runs[q].attempt = jobs[j].attempt
  BY DEF OwnershipInv, OneActiveJob, RunningRunOwnsSession,
         PublishedJobIsSettled, ActiveJobs, Active, ActiveStatuses

(* The same job and stage throughout the history of a job. *)
LEMMA StageAgrees ==
    ASSUME OwnershipInv, NEW j \in Jobs
    PROVE  /\ jobs[j].stage = session.stage => StageMatches(j)
           /\ StageMatches(j) => jobs[j].stage = session.stage
  BY NoneAssumption DEF OwnershipInv, RowsAgree, StageMatches, RunsOf

-----------------------------------------------------------------------------
(* Steps by the rows they write *)

(* The rows are left alone and the session stays in or out of progress.     *)
SessionKept ==
    IF session.phase = "in_progress"
    THEN /\ session'.phase = session.phase /\ session'.stage = session.stage
         /\ session'.archived = session.archived
    ELSE session'.phase # "in_progress"

LEMMA OwnershipWithoutRows ==
    ASSUME OwnershipInv, UNCHANGED <<jobs, runs>>, SessionKept
    PROVE  OwnershipInv'
<1>1. RunningRunOwnsSession'
  BY IdleSession DEF NoneRunning, OwnershipInv, RunningRunOwnsSession, SessionKept
<1>2. InProgressHasWork'
  BY DEF OwnershipInv, InProgressHasWork, SessionKept, ActiveJobs, Active
<1>3. PublishedIsReviewed'
  BY DEF OwnershipInv, PublishedIsReviewed, SessionKept, Active
<1> QED
  BY <1>1, <1>2, <1>3
     DEF OwnershipInv, RowsAgree, OneActiveJob, ActiveJobs, Active,
         OneRunPerClaim, PublishedJobIsSettled

(* Every job is ended and every run closed, each in its place.              *)
Retired(f, g) ==
    /\ \A k \in Jobs :
        /\ f[k].status \notin ActiveStatuses
        /\ f[k].stage = jobs[k].stage /\ f[k].attempt = jobs[k].attempt
        /\ f[k].status = "absent" <=> jobs[k].status = "absent"
        /\ \/ f[k].status \in {"success", "canceled"}
           \/ f[k].status = jobs[k].status
           \/ PublishedRuns(k) = {}
    /\ \A q \in Runs :
        /\ g[q].job = runs[q].job /\ g[q].attempt = runs[q].attempt
        /\ g[q].stage = runs[q].stage /\ g[q].status # "running"
        /\ g[q].status = "success" <=> runs[q].status = "success"
        /\ g[q].status = "absent" <=> runs[q].status = "absent"

LEMMA RetiredOwnership ==
    ASSUME TypeInv, OwnershipInv, Retired(jobs', runs'),
           session'.phase # "in_progress"
    PROVE  OwnershipInv'
<1> USE DEF OwnershipInv, Retired
<1>1. RowsAgree'
  BY DEF RowsAgree
<1>2. OneActiveJob'
  BY DEF OneActiveJob, ActiveJobs, Active
<1>3. RunningRunOwnsSession'
  BY DEF RunningRunOwnsSession
<1>4. OneRunPerClaim'
  BY DEF OneRunPerClaim
<1>5. PublishedJobIsSettled'
  BY NoneAssumption
     DEF PublishedJobIsSettled, RowsAgree, PublishedRuns, RunsOf
<1>6. InProgressHasWork' /\ PublishedIsReviewed'
  BY DEF InProgressHasWork, PublishedIsReviewed
<1> QED
  BY <1>1, <1>2, <1>3, <1>4, <1>5, <1>6

(* ... and a new job is queued with its placeholder. *)
LEMMA RequeuedOwnership ==
    ASSUME TypeInv, OwnershipInv,
           NEW f \in [Jobs -> JobRows], NEW g \in [Runs -> RunRows],
           Retired(f, g),
           NEW j \in Jobs, NEW r \in Runs, NEW st \in Stages,
           NEW repair \in BOOLEAN, Unused(j, r),
           jobs' = [f EXCEPT ![j] = QueuedJob(st, repair)],
           runs' = [g EXCEPT ![r] = QueuedRun(j, st)],
           session'.phase = "in_progress" =>
                ~session'.archived /\ session'.stage = st
    PROVE  OwnershipInv'
<1> DEFINE job == QueuedJob(st, repair)
           run == QueuedRun(j, st)
<1>1. /\ job.status = "queued" /\ job.stage = st
      /\ run.status = "queued" /\ run.job = j /\ run.attempt = 0
      /\ run.stage = st
  BY DEF QueuedJob, QueuedRun, NoJob, NoRun
<1>2. /\ jobs'[j] = job /\ \A k \in Jobs \ {j} : jobs'[k] = f[k]
      /\ runs'[r] = run /\ \A q \in Runs \ {r} : runs'[q] = g[q]
  OBVIOUS
<1> HIDE DEF job, run
<1>3. \A q \in Runs : runs[q].job # j
  BY NoneAssumption DEF OwnershipInv, RowsAgree, Unused
<1>4. /\ \A k \in Jobs : Active(k)' => k = j
      /\ Active(j)'
  BY <1>1, <1>2 DEF Active, ActiveStatuses, Retired
<1>5. \A q \in Runs : runs'[q].status # "running"
  BY <1>1, <1>2 DEF Retired
<1>6. \A q \in Runs : runs'[q].status = "success" =>
            /\ q # r /\ runs'[q] = g[q] /\ runs[q].status = "success"
            /\ g[q].job = runs[q].job /\ runs[q].job \in Jobs \ {j}
            /\ g[q].attempt = runs[q].attempt
  BY <1>1, <1>2, <1>3 DEF Retired, OwnershipInv, RowsAgree
<1>7. RowsAgree'
  BY <1>1, <1>2, <1>3 DEF RowsAgree, OwnershipInv, Retired, Unused
<1>8. OneActiveJob'
  BY <1>4 DEF OneActiveJob, ActiveJobs
<1>9. RunningRunOwnsSession'
  BY <1>5 DEF RunningRunOwnsSession
<1>10. OneRunPerClaim'
  BY <1>1, <1>2 DEF OneRunPerClaim, OwnershipInv, Retired
<1>11. InProgressHasWork'
  BY <1>1, <1>2, <1>4 DEF InProgressHasWork, ActiveJobs
<1>12. PublishedJobIsSettled'
  BY <1>2, <1>6
     DEF PublishedJobIsSettled, OwnershipInv, Retired, PublishedRuns, RunsOf
<1>13. PublishedIsReviewed'
  BY <1>4, <1>6 DEF PublishedIsReviewed
<1> QED
  BY <1>7, <1>8, <1>9, <1>10, <1>11, <1>12, <1>13 DEF OwnershipInv

(* The budget's operators touch neither phase, stage nor archive mark.      *)
SameSession(s, t) == /\ t.phase = s.phase /\ t.stage = s.stage
                     /\ t.archived = s.archived

LEMMA BudgetKeepsSession ==
    ASSUME NEW s \in SessionRows
    PROVE  /\ \A t \in RefreshOutcomes(s) : SameSession(s, t)
           /\ \A code \in ExhaustionCodes : SameSession(s, Exhaust(s, code))
           /\ SameSession(s, Reserve(s))
           /\ \A repair \in BOOLEAN : SameSession(s, AfterInsert(s, repair))
<1> USE DEF SameSession, SessionRows
<1>1. \A code : SameSession(s, Exhaust(s, code))
  BY DEF Exhaust
<1>2. \A t \in RefreshOutcomes(s) : SameSession(s, t)
  BY <1>1 DEF RefreshOutcomes
<1>3. SameSession(s, Reserve(s))
  BY <1>1 DEF Reserve
<1>4. \A repair \in BOOLEAN : SameSession(s, AfterInsert(s, repair))
  BY <1>3 DEF AfterInsert
<1> QED
  BY <1>1, <1>2, <1>3, <1>4

-----------------------------------------------------------------------------
(* Workers *)

LEMMA ClaimOwnership ==
    ASSUME TypeInv, OwnershipInv, NEW j \in Jobs, Claim(j)
    PROVE  OwnershipInv'
<1> USE DEF OwnershipInv
<1>1. /\ jobs[j].status = "queued" /\ jobs'[j].status = "running"
      /\ jobs'[j].stage = jobs[j].stage
      /\ \A k \in Jobs \ {j} : jobs'[k] = jobs[k]
      /\ UNCHANGED <<session, runs>>
  BY DEF Claim, TypeInv, TypeOK, JobRows
<1>2. \A k \in Jobs : /\ Active(k)' <=> Active(k)
                      /\ jobs'[k].stage = jobs[k].stage
                      /\ Active(k) => k = j
  BY <1>1 DEF Active, ActiveStatuses, OneActiveJob, ActiveJobs
<1>3. NoneRunning
  BY <1>1, <1>2
     DEF RunningRunOwnsSession, NoneRunning, Active, ActiveStatuses
<1>4. RowsAgree'
  BY <1>1, <1>2 DEF RowsAgree
<1>5. OneActiveJob' /\ OneRunPerClaim'
  BY <1>1, <1>2 DEF OneActiveJob, ActiveJobs, OneRunPerClaim
<1>6. RunningRunOwnsSession'
  BY <1>1, <1>3 DEF NoneRunning, RunningRunOwnsSession
<1>7. InProgressHasWork'
  BY <1>1, <1>2 DEF InProgressHasWork, ActiveJobs
<1>8. PublishedJobIsSettled' /\ PublishedIsReviewed'
  BY <1>1, <1>2 DEF PublishedJobIsSettled, PublishedIsReviewed, RowsAgree
<1> QED
  BY <1>4, <1>5, <1>6, <1>7, <1>8

LEMMA StartOwnership ==
    ASSUME TypeInv, OwnershipInv, NEW j \in Jobs, NEW n \in ClaimNumbers,
           NEW st \in Stages, NEW v \in VersionNumbers, NEW r \in Runs,
           Start(j, n, st, v, r)
    PROVE  OwnershipInv'
<1> DEFINE started == [QueuedRun(j, session.stage) EXCEPT
                          !.status = "running", !.attempt = n]
<1>1. session \in SessionRows /\ runs \in [Runs -> RunRows]
  BY DEF TypeInv, TypeOK
<1>2. PICK s \in RefreshOutcomes(session) :
        \/ session' = s /\ UNCHANGED runs
        \/ /\ StartAllowed(j, n, st, v)
           /\ IF Placeholders(j) = {} THEN runs[r].status = "absent"
                                      ELSE r \in Placeholders(j)
           /\ runs' = [q \in Runs |->
                CASE q = r -> started
                  [] q # r /\ runs[q].job = j /\ Live(q)
                       /\ runs[q].attempt \in 1..(n - 1) ->
                       [runs[q] EXCEPT !.status = "error"]
                  [] OTHER -> runs[q]]
           /\ session' = [s EXCEPT !.phase = "in_progress"]
  BY DEF Start
<1>3. SameSession(session, s) /\ s \in SessionRows
  BY <1>1, <1>2, BudgetKeepsSession, BudgetKeepsRow
<1>4. UNCHANGED jobs /\ jobs[j].status = "running" /\ jobs[j].attempt = n
  BY DEF Start, OwnsClaim
<1>5. CASE session' = s /\ UNCHANGED runs
  BY <1>3, <1>4, <1>5, OwnershipWithoutRows DEF SameSession, SessionKept
<1>6. CASE ~(session' = s /\ UNCHANGED runs)
  <2>1. /\ started.status = "running" /\ started.job = j
        /\ started.attempt = n /\ started.stage = session.stage
    BY DEF QueuedRun, NoRun
  <2> HIDE DEF started
  <2>2. /\ StartAllowed(j, n, st, v)
        /\ runs'[r] = started
        /\ runs[r].status # "success"
        /\ \A q \in Runs \ {r} :
              \/ runs'[q] = runs[q]
              \/ /\ runs'[q] = [runs[q] EXCEPT !.status = "error"]
                 /\ runs[q].status # "absent" /\ runs[q].status # "success"
    BY <1>2, <1>6 DEF Placeholders, Live, ActiveStatuses
  <2>3. /\ session'.phase = "in_progress" /\ session'.stage = session.stage
        /\ session'.archived = session.archived /\ ~session.archived
    BY <1>2, <1>3, <1>6 DEF SameSession, SessionRows, StartAllowed
  <2>4. jobs[j].stage = session.stage
    BY <2>2 DEF StartAllowed, StageMatches
  <2>5. \A q \in Runs \ {r} :
            /\ runs'[q].job = runs[q].job /\ runs'[q].attempt = runs[q].attempt
            /\ runs'[q].stage = runs[q].stage
            /\ runs'[q].status = "success" <=> runs[q].status = "success"
            /\ runs'[q].status = "absent" <=> runs[q].status = "absent"
            /\ runs'[q].status = "running" => runs[q].status = "running"
    BY <1>1, <2>2 DEF RunRows
  <2>6. \A q \in Runs : runs[q].job = j => runs[q].attempt # n
    BY <2>2 DEF StartAllowed, RunsOf
  <2>7. \A q \in Runs \ {r} : runs'[q].status # "running"
    BY <1>4, <2>5, <2>6, OwnedClaim
  <2>8. \A q \in Runs : runs'[q].status = "success" =>
            q # r /\ runs[q].status = "success" /\ runs[q].job # j
    BY <1>4, <2>1, <2>2, <2>5, <2>6, OwnedClaim
  <2>9. RowsAgree'
    BY <1>4, <2>1, <2>2, <2>4, <2>5 DEF OwnershipInv, RowsAgree
  <2>10. OneActiveJob'
    BY <1>4 DEF OwnershipInv, OneActiveJob, ActiveJobs, Active
  <2>11. RunningRunOwnsSession'
    BY <1>4, <2>1, <2>2, <2>3, <2>4, <2>7 DEF RunningRunOwnsSession
  <2>12. OneRunPerClaim'
    BY <2>1, <2>2, <2>5, <2>6 DEF OwnershipInv, OneRunPerClaim
  <2>13. InProgressHasWork'
    BY <1>4, <2>3, <2>4
       DEF InProgressHasWork, ActiveJobs, Active, ActiveStatuses
  <2>14. PublishedJobIsSettled'
    BY <1>4, <2>5, <2>8 DEF OwnershipInv, PublishedJobIsSettled
  <2>15. PublishedIsReviewed'
    <3>1. ASSUME NEW q \in Runs, runs'[q].status = "success"
          PROVE  jobs'[runs'[q].job].status \notin ActiveStatuses
      <4>1. runs[q].job \in Jobs \ {j} /\ runs'[q].job = runs[q].job
        BY <2>5, <2>8, <3>1 DEF OwnershipInv, RowsAgree
      <4> QED
        BY <1>4, <4>1, OwnedClaim DEF Active
    <3> QED
      BY <3>1 DEF PublishedIsReviewed, Active
  <2> QED
    BY <2>9, <2>10, <2>11, <2>12, <2>13, <2>14, <2>15 DEF OwnershipInv
<1> QED
  BY <1>5, <1>6

(* A publication ends the only running run; the job may be completed with   *)
(* it or stay active for a second call.                                     *)
LEMMA PublishOwnership ==
    ASSUME TypeInv, OwnershipInv, NEW j \in Jobs, NEW n \in ClaimNumbers,
           NEW r \in Runs, NEW v \in VersionNumbers,
           Publish(j, n, r, v) \/ PublishDirect(j, n, r, v)
    PROVE  OwnershipInv'
<1> USE DEF OwnershipInv
<1>1. /\ jobs \in [Jobs -> JobRows] /\ runs \in [Runs -> RunRows]
      /\ session \in SessionRows
  BY DEF TypeInv, TypeOK
<1>2. /\ jobs[j].status = "running" /\ jobs[j].attempt = n /\ n > 0
      /\ runs[r].job = j /\ runs[r].attempt = n /\ runs[r].status = "running"
  BY DEF Publish, PublishDirect, PublishAllowed, OwnsClaim
<1>3. RecordArtifact(j, r, v)
  BY DEF Publish, PublishDirect
<1>4. session'.phase = "awaiting_review"
  BY <1>1, <1>3 DEF RecordArtifact, SessionRows
<1>5. /\ runs'[r].status = "success"
      /\ \A q \in Runs \ {r} : runs'[q] = runs[q]
      /\ \A q \in Runs : /\ runs'[q].job = runs[q].job
                         /\ runs'[q].attempt = runs[q].attempt
                         /\ runs'[q].stage = runs[q].stage
  BY <1>1, <1>3 DEF RecordArtifact, RunRows
<1>6. \A k \in Jobs : /\ jobs'[k].stage = jobs[k].stage
                      /\ jobs'[k].attempt = jobs[k].attempt
                      /\ \/ jobs'[k].status = jobs[k].status
                         \/ k = j /\ jobs'[k].status = "success"
  BY <1>1 DEF Publish, PublishDirect, JobRows
<1>7. \A q \in Runs \ {r} : runs[q].status # "running"
  BY <1>2, OwnedClaim DEF OneRunPerClaim
<1>8. RowsAgree'
  BY <1>2, <1>5, <1>6 DEF RowsAgree
<1>9. OneActiveJob'
  BY <1>6 DEF OneActiveJob, ActiveJobs, Active, ActiveStatuses
<1>10. RunningRunOwnsSession'
  BY <1>5, <1>7 DEF RunningRunOwnsSession
<1>11. OneRunPerClaim'
  BY <1>5 DEF OneRunPerClaim
<1>12. InProgressHasWork' /\ PublishedIsReviewed'
  BY <1>4 DEF InProgressHasWork, PublishedIsReviewed
<1>13. PublishedJobIsSettled'
  BY <1>2, <1>5, <1>6 DEF PublishedJobIsSettled, RowsAgree
<1> QED
  BY <1>8, <1>9, <1>10, <1>11, <1>12, <1>13

LEMMA CompleteOwnership ==
    ASSUME TypeInv, OwnershipInv, NEW j \in Jobs, NEW n \in ClaimNumbers,
           NEW r \in Runs, Complete(j, n, r)
    PROVE  OwnershipInv'
<1> USE DEF OwnershipInv
<1>1. /\ runs[r].status = "success" /\ runs[r].job = j
      /\ jobs[j].status \in {"running", "success"}
      /\ UNCHANGED <<session, runs>>
  BY DEF Complete
<1>2. /\ jobs'[j].status = "success"
      /\ \A k \in Jobs : /\ jobs'[k].stage = jobs[k].stage
                         /\ jobs'[k].attempt = jobs[k].attempt
                         /\ k # j => jobs'[k] = jobs[k]
  BY DEF Complete, TypeInv, TypeOK, JobRows
<1>3. CASE session.phase = "in_progress"
  <2>1. jobs[j].status = "success"
    BY <1>1, <1>3 DEF PublishedIsReviewed, Active, ActiveStatuses
  <2>2. UNCHANGED jobs
    BY <2>1 DEF Complete, TypeInv, TypeOK, JobRows
  <2> QED
    BY <1>1, <1>3, <2>2, OwnershipWithoutRows DEF SessionKept
<1>4. CASE session.phase # "in_progress"
  <2>1. NoneRunning
    BY <1>4, IdleSession
  <2>2. RowsAgree'
    BY <1>1, <1>2 DEF RowsAgree
  <2>3. OneActiveJob'
    BY <1>2 DEF OneActiveJob, ActiveJobs, Active, ActiveStatuses
  <2>4. RunningRunOwnsSession' /\ OneRunPerClaim'
    BY <1>1, <2>1 DEF NoneRunning, RunningRunOwnsSession, OneRunPerClaim
  <2>5. InProgressHasWork' /\ PublishedIsReviewed'
    BY <1>1, <1>4 DEF InProgressHasWork, PublishedIsReviewed
  <2>6. PublishedJobIsSettled'
    BY <1>1, <1>2 DEF PublishedJobIsSettled, RowsAgree
  <2> QED
    BY <2>2, <2>3, <2>4, <2>5, <2>6
<1> QED
  BY <1>3, <1>4

(* A failed or deferred claim leaves no running run and no published one.   *)
LEMMA GivenUpOwnership ==
    ASSUME TypeInv, OwnershipInv, NEW j \in Jobs,
           jobs[j].status = "running",
           jobs'[j].status \in {"queued", "error"},
           \A k \in Jobs : /\ jobs'[k].stage = jobs[k].stage
                           /\ jobs'[k].attempt = jobs[k].attempt
                           /\ k # j => jobs'[k] = jobs[k],
           \A q \in Runs :
              /\ runs'[q].job = runs[q].job /\ runs'[q].attempt = runs[q].attempt
              /\ runs'[q].stage = runs[q].stage
              /\ runs'[q].status # "running"
              /\ runs'[q].status = "success" <=> runs[q].status = "success"
              /\ runs'[q].status = "absent" <=> runs[q].status = "absent",
           \A q \in Runs : runs[q].job = j => runs[q].status # "success",
           session'.phase = "in_progress" =>
              /\ session.phase = "in_progress" /\ session'.stage = session.stage
              /\ session'.archived = session.archived
              /\ jobs'[j].status = "queued"
    PROVE  OwnershipInv'
<1> USE DEF OwnershipInv
<1>1. \A k \in Jobs : Active(k) => k = j
  BY OwnedClaim
<1>2. RowsAgree'
  BY DEF RowsAgree
<1>3. OneActiveJob'
  BY <1>1 DEF OneActiveJob, ActiveJobs, Active
<1>4. RunningRunOwnsSession' /\ OneRunPerClaim'
  BY DEF RunningRunOwnsSession, OneRunPerClaim
<1>5. InProgressHasWork'
  BY <1>1 DEF InProgressHasWork, ActiveJobs, Active, ActiveStatuses
<1>6. \A q \in Runs : runs'[q].status = "success" =>
            /\ runs[q].status = "success" /\ runs[q].job \in Jobs \ {j}
            /\ runs'[q].job = runs[q].job
            /\ jobs'[runs[q].job] = jobs[runs[q].job]
  BY DEF RowsAgree
<1>7. PublishedJobIsSettled'
  BY <1>6 DEF PublishedJobIsSettled
<1>8. PublishedIsReviewed'
  BY <1>1, <1>6 DEF PublishedIsReviewed, Active
<1> QED
  BY <1>2, <1>3, <1>4, <1>5, <1>7, <1>8

LEMMA FailOwnership ==
    ASSUME TypeInv, OwnershipInv, NEW j \in Jobs, NEW n \in ClaimNumbers,
           NEW r \in Runs \cup {None}, NEW retry \in BOOLEAN,
           Fail(j, n, r, retry)
    PROVE  OwnershipInv'
<1>1. /\ session \in SessionRows /\ jobs \in [Jobs -> JobRows]
      /\ runs \in [Runs -> RunRows]
  BY DEF TypeInv, TypeOK
<1>2. /\ jobs[j].status = "running" /\ jobs[j].attempt = n /\ n > 0
      /\ FailsClaim(j, n, r) /\ runs' = FailedRuns(j, r)
  BY DEF Fail, OwnsClaim
<1>3. PICK s \in RefreshOutcomes(session) :
        /\ \E status \in {"queued", "error"} :
                jobs' = [jobs EXCEPT ![j].status = status]
        /\ \E after \in {s, Reserve(s)} :
             session' = IF OwnsCurrentStage(j)
                        THEN [after EXCEPT !.phase = "rejected"] ELSE after
  BY DEF Fail
<1>4. /\ jobs'[j].status \in {"queued", "error"}
      /\ \A k \in Jobs : /\ jobs'[k].stage = jobs[k].stage
                         /\ jobs'[k].attempt = jobs[k].attempt
                         /\ k # j => jobs'[k] = jobs[k]
  BY <1>1, <1>3 DEF JobRows
<1>5. \A q \in Runs : runs[q].job = j => runs[q].status # "success"
  <2>1. CASE r = None
    BY <1>2, <2>1, OwnedClaim DEF FailsClaim, BoundRuns, RunsOf
  <2>2. CASE r # None
    BY <1>2, <2>2, OwnedClaim
       DEF FailsClaim, Live, ActiveStatuses, OwnershipInv, OneRunPerClaim
  <2> QED
    BY <2>1, <2>2
<1>6. \A q \in Runs : runs[q].status = "running" => q = r
  <2>1. CASE r = None
    BY <1>2, <2>1, OwnedClaim DEF FailsClaim, BoundRuns, RunsOf
  <2>2. CASE r # None
    BY <1>2, <2>2, OwnedClaim DEF FailsClaim, OwnershipInv, OneRunPerClaim
  <2> QED
    BY <2>1, <2>2
<1>7. \A q \in Runs : \/ q # r /\ runs'[q] = runs[q]
                      \/ /\ runs'[q] = [runs[q] EXCEPT !.status = "error"]
                         /\ runs[q].status \in ActiveStatuses
  BY <1>2, NoneAssumption
     DEF FailedRuns, FailsClaim, Placeholders, Live, ActiveStatuses
<1>8. \A q \in Runs :
        /\ runs'[q].job = runs[q].job /\ runs'[q].attempt = runs[q].attempt
        /\ runs'[q].stage = runs[q].stage /\ runs'[q].status # "running"
        /\ runs'[q].status = "success" <=> runs[q].status = "success"
        /\ runs'[q].status = "absent" <=> runs[q].status = "absent"
  BY <1>1, <1>6, <1>7 DEF RunRows, ActiveStatuses
<1>9. session'.phase # "in_progress"
  <2>1. /\ s \in SessionRows /\ SameSession(session, s)
        /\ Reserve(s) \in SessionRows /\ SameSession(s, Reserve(s))
    BY <1>1, <1>3, BudgetKeepsSession, BudgetKeepsRow
  <2>2. session.phase = "in_progress" => OwnsCurrentStage(j)
    <3>1. session.phase = "in_progress" =>
            ~session.archived /\ jobs[j].stage = session.stage
      BY <1>2, OwnedClaim DEF OwnershipInv, InProgressHasWork, ActiveJobs
    <3> QED
      BY <3>1, StageAgrees DEF OwnsCurrentStage
  <2> QED
    BY <1>3, <2>1, <2>2 DEF SameSession, SessionRows
<1> QED
  BY <1>2, <1>4, <1>5, <1>8, <1>9, GivenUpOwnership

LEMMA DeferOwnership ==
    ASSUME TypeInv, OwnershipInv, NEW j \in Jobs, NEW n \in ClaimNumbers,
           Defer(j, n)
    PROVE  OwnershipInv'
<1>1. /\ jobs[j].status = "running" /\ jobs[j].attempt = n
      /\ UNCHANGED <<session, runs>>
  BY DEF Defer, OwnsClaim
<1>2. /\ jobs'[j].status = "queued"
      /\ \A k \in Jobs : /\ jobs'[k].stage = jobs[k].stage
                         /\ jobs'[k].attempt = jobs[k].attempt
                         /\ k # j => jobs'[k] = jobs[k]
  BY DEF Defer, TypeInv, TypeOK, JobRows
<1>3. \A q \in Runs : runs[q].job = j =>
        /\ runs[q].status # "success"
        /\ runs[q].attempt = n => runs[q].status # "running"
  BY <1>1, OwnedClaim DEF Defer, NeverRan, RunsOf, Live, ActiveStatuses
<1>4. NoneRunning
  BY <1>1, <1>3, OwnedClaim DEF NoneRunning
<1> QED
  BY <1>1, <1>2, <1>3, <1>4, GivenUpOwnership DEF NoneRunning

-----------------------------------------------------------------------------
(* Reviews and control *)

LEMMA CanceledRetires ==
    ASSUME TypeInv PROVE Retired(CanceledJobs, CanceledRuns)
  BY DEF TypeInv, TypeOK, Retired, CanceledJobs, CanceledRuns, Active, Live,
         ActiveStatuses, JobRows, RunRows

LEMMA SettledRetires ==
    ASSUME TypeInv, NoneRunning PROVE Retired(SettledJobs, runs)
  BY DEF TypeInv, TypeOK, Retired, SettledJobs, NoneRunning, Active,
         ActiveStatuses, JobRows

LEMMA AwaitedReview ==
    ASSUME OwnershipInv, NEW a, ReviewOf(a)
    PROVE  session.phase = "awaiting_review" /\ NoneRunning
  BY IdleSession DEF ReviewOf

LEMMA ApproveOwnership ==
    ASSUME TypeInv, OwnershipInv, NEW a \in Runs, NEW j \in Jobs, NEW r \in Runs,
           ApproveAndAdvance(a, j, r)
    PROVE  OwnershipInv'
<1>1. session \in SessionRows /\ runs \in [Runs -> RunRows]
  BY DEF TypeInv, TypeOK
<1>2. PICK s \in RefreshOutcomes(session) :
        \/ session' = s /\ UNCHANGED <<jobs, runs>>
        \/ /\ Unused(j, r)
           /\ session' = [s EXCEPT !.stage = @ + 1, !.artifact = None,
                                   !.version = StageVersion(s.stage + 1),
                                   !.phase = "in_progress"]
           /\ jobs' = [SettledJobs EXCEPT ![j] = QueuedJob(s.stage + 1, FALSE)]
           /\ runs' = [runs EXCEPT ![r] = QueuedRun(j, s.stage + 1)]
  BY DEF ApproveAndAdvance
<1>3. s \in SessionRows /\ SameSession(session, s)
  BY <1>1, <1>2, BudgetKeepsSession, BudgetKeepsRow
<1>4. session.phase = "awaiting_review" /\ ~session.archived /\ NoneRunning
  BY AwaitedReview DEF ApproveAndAdvance, ReviewOf
<1>5. CASE session' = s /\ UNCHANGED <<jobs, runs>>
  BY <1>3, <1>4, <1>5, OwnershipWithoutRows DEF SameSession, SessionKept
<1>6. CASE ~(session' = s /\ UNCHANGED <<jobs, runs>>)
  <2>1. s.stage + 1 \in Stages
    BY <1>1, <1>3, StageAssumption
       DEF ApproveAndAdvance, HasLaterStage, SameSession, SessionRows, Stages
  <2>2. ~session'.archived /\ session'.stage = s.stage + 1
    BY <1>2, <1>3, <1>4, <1>6 DEF SameSession, SessionRows
  <2>3. SettledJobs \in [Jobs -> JobRows] /\ Retired(SettledJobs, runs)
    BY <1>4, RetiredRows, SettledRetires
  <2>4. /\ Unused(j, r)
        /\ jobs' = [SettledJobs EXCEPT ![j] = QueuedJob(s.stage + 1, FALSE)]
        /\ runs' = [runs EXCEPT ![r] = QueuedRun(j, s.stage + 1)]
    BY <1>2, <1>6
  <2> QED
    BY <1>1, <2>1, <2>2, <2>3, <2>4, RequeuedOwnership
<1> QED
  BY <1>5, <1>6

LEMMA DeliveryOwnership ==
    ASSUME TypeInv, OwnershipInv, NEW a \in Runs, ApproveDelivery(a)
    PROVE  OwnershipInv'
<1>1. NoneRunning /\ jobs' = SettledJobs /\ runs' = runs
  BY AwaitedReview DEF ApproveDelivery
<1>2. Retired(jobs', runs')
  BY <1>1, SettledRetires
<1>3. session'.phase # "in_progress"
  <2>1. PICK s \in RefreshOutcomes(session) :
            session' = [s EXCEPT !.phase = "approved", !.archived = ~ManualMerge]
    BY DEF ApproveDelivery
  <2>2. s \in SessionRows
    BY <2>1, BudgetKeepsRow DEF TypeInv, TypeOK
  <2> QED
    BY <2>1, <2>2 DEF SessionRows
<1> QED
  BY <1>2, <1>3, RetiredOwnership

LEMMA RejectOwnership ==
    ASSUME TypeInv, OwnershipInv, NEW a \in Runs,
           RejectExhausted(a) \/ RejectAdopt(a)
    PROVE  OwnershipInv'
<1>1. session \in SessionRows
  BY DEF TypeInv, TypeOK
<1>2. session.phase = "awaiting_review" /\ UNCHANGED <<jobs, runs>>
  BY DEF RejectExhausted, RejectAdopt, ReviewOf
<1>3. session'.phase # "in_progress"
  <2>1. CASE RejectExhausted(a)
    <3>1. PICK s \in RefreshOutcomes(session) :
            session' = [Exhaust(s, "repair_attempts") EXCEPT
                            !.phase = "rejected"]
      BY <2>1 DEF RejectExhausted
    <3>2. Exhaust(s, "repair_attempts") \in SessionRows
      BY <1>1, <3>1, BudgetKeepsRow DEF ExhaustionCodes
    <3> QED
      BY <3>1, <3>2 DEF SessionRows
  <2>2. CASE RejectAdopt(a)
    BY <1>1, <2>2 DEF RejectAdopt, SessionRows
  <2> QED
    BY <2>1, <2>2
<1> QED
  BY <1>2, <1>3, OwnershipWithoutRows DEF SessionKept

LEMMA RepairOwnership ==
    ASSUME TypeInv, OwnershipInv, NEW a \in Runs, NEW j \in Jobs, NEW r \in Runs,
           RejectAndRepair(a, j, r)
    PROVE  OwnershipInv'
<1> DEFINE retired == [k \in Jobs |->
                IF Active(k) THEN [jobs[k] EXCEPT !.status = RetiredByReview(k)]
                ELSE jobs[k]]
           closed == [q \in Runs |->
                IF Live(q) /\ runs[q].job \in ActiveJobs
                THEN [runs[q] EXCEPT !.status = "canceled"] ELSE runs[q]]
<1>1. /\ session \in SessionRows /\ session.stage \in Stages
      /\ runs \in [Runs -> RunRows] /\ jobs \in [Jobs -> JobRows]
  BY DEF TypeInv, TypeOK, SessionRows
<1>2. NoneRunning
  BY AwaitedReview DEF RejectAndRepair
<1>3. /\ jobs' = [retired EXCEPT ![j] = QueuedJob(session.stage, TRUE)]
      /\ runs' = [closed EXCEPT ![r] = QueuedRun(j, session.stage)]
      /\ Unused(j, r)
  BY DEF RejectAndRepair
<1>4. retired \in [Jobs -> JobRows] /\ closed \in [Runs -> RunRows]
  BY <1>1 DEF JobRows, RunRows, FinalStatuses, RetiredByReview
<1>5. Retired(retired, closed)
  <2>1. ASSUME NEW k \in Jobs
        PROVE  /\ retired[k].status \notin ActiveStatuses
               /\ retired[k].stage = jobs[k].stage
               /\ retired[k].attempt = jobs[k].attempt
               /\ retired[k].status = "absent" <=> jobs[k].status = "absent"
               /\ \/ retired[k].status \in {"success", "canceled"}
                  \/ retired[k].status = jobs[k].status
                  \/ PublishedRuns(k) = {}
    BY <1>1 DEF JobRows, Active, ActiveStatuses, RetiredByReview
  <2>2. ASSUME NEW q \in Runs
        PROVE  /\ closed[q].job = runs[q].job
               /\ closed[q].attempt = runs[q].attempt
               /\ closed[q].stage = runs[q].stage
               /\ closed[q].status # "running"
               /\ closed[q].status = "success" <=> runs[q].status = "success"
               /\ closed[q].status = "absent" <=> runs[q].status = "absent"
    BY <1>1, <1>2 DEF NoneRunning, RunRows, Live, ActiveStatuses
  <2> HIDE DEF retired, closed
  <2> QED
    BY <2>1, <2>2 DEF Retired
<1>6. session'.phase = "rejected"
  <2>1. AfterInsert(session, TRUE) \in SessionRows
    BY <1>1, BudgetKeepsRow
  <2> QED
    BY <2>1 DEF RejectAndRepair, SessionRows
<1> HIDE DEF retired, closed
<1> QED
  BY <1>1, <1>3, <1>4, <1>5, <1>6, RequeuedOwnership

LEMMA EnqueueOwnership ==
    ASSUME TypeInv, OwnershipInv, NEW j \in Jobs, NEW r \in Runs, Enqueue(j, r)
    PROVE  OwnershipInv'
<1>1. /\ session \in SessionRows /\ runs \in [Runs -> RunRows]
      /\ jobs \in [Jobs -> JobRows]
  BY DEF TypeInv, TypeOK
<1>2. PICK s \in RefreshOutcomes(session) :
        \/ /\ session' = AfterInsert(s, TRUE)
           /\ jobs' = [jobs EXCEPT ![j] = QueuedJob(s.stage, TRUE)]
           /\ runs' = [runs EXCEPT ![r] = QueuedRun(j, s.stage)]
        \/ session' = Reserve(s) /\ UNCHANGED <<jobs, runs>>
  BY DEF Enqueue
<1>3. /\ s \in SessionRows /\ s.stage \in Stages
      /\ SameSession(session, s) /\ SameSession(s, Reserve(s))
      /\ SameSession(s, AfterInsert(s, TRUE))
  BY <1>1, <1>2, BudgetKeepsSession, BudgetKeepsRow DEF SessionRows
<1>4. ActiveJobs = {} /\ Unused(j, r)
  BY DEF Enqueue
<1>5. session.phase # "in_progress" /\ session'.phase # "in_progress"
  BY <1>2, <1>3, <1>4 DEF OwnershipInv, InProgressHasWork, SameSession
<1>6. NoneRunning
  BY <1>5, IdleSession
<1>7. Retired(jobs, runs)
  BY <1>4, <1>6 DEF Retired, NoneRunning, ActiveJobs, Active
<1>8. CASE UNCHANGED <<jobs, runs>>
  BY <1>5, <1>8, OwnershipWithoutRows DEF SessionKept
<1>9. CASE /\ jobs' = [jobs EXCEPT ![j] = QueuedJob(s.stage, TRUE)]
           /\ runs' = [runs EXCEPT ![r] = QueuedRun(j, s.stage)]
  BY <1>1, <1>3, <1>4, <1>5, <1>7, <1>9, RequeuedOwnership
<1> QED
  BY <1>2, <1>8, <1>9

LEMMA RerouteOwnership ==
    ASSUME TypeInv, OwnershipInv, NEW t \in Stages, NEW rework \in BOOLEAN,
           NEW j \in Jobs, NEW r \in Runs, Reroute(t, rework, j, r)
    PROVE  OwnershipInv'
<1>1. session \in SessionRows
  BY DEF TypeInv, TypeOK
<1>2. PICK s \in RefreshOutcomes(session) :
        \/ /\ session' = Exhaust(s, "repair_attempts")
           /\ UNCHANGED <<jobs, runs>>
        \/ /\ Unused(j, r)
           /\ session' = [AfterInsert(s, rework) EXCEPT
                                !.stage = t, !.artifact = None,
                                !.version = StageVersion(t),
                                !.phase = "rejected"]
           /\ jobs' = [CanceledJobs EXCEPT ![j] = QueuedJob(t, rework)]
           /\ runs' = [CanceledRuns EXCEPT ![r] = QueuedRun(j, t)]
  BY DEF Reroute
<1>3. /\ s \in SessionRows /\ SameSession(session, s)
      /\ SameSession(s, Exhaust(s, "repair_attempts"))
      /\ AfterInsert(s, rework) \in SessionRows
  BY <1>1, <1>2, BudgetKeepsSession, BudgetKeepsRow DEF ExhaustionCodes
<1>4. CASE session' = Exhaust(s, "repair_attempts") /\ UNCHANGED <<jobs, runs>>
  BY <1>3, <1>4, OwnershipWithoutRows DEF SameSession, SessionKept
<1>5. CASE ~(session' = Exhaust(s, "repair_attempts") /\ UNCHANGED <<jobs, runs>>)
  <2>1. session'.phase = "rejected"
    BY <1>2, <1>3, <1>5 DEF SessionRows
  <2>2. /\ CanceledJobs \in [Jobs -> JobRows] /\ CanceledRuns \in [Runs -> RunRows]
        /\ Retired(CanceledJobs, CanceledRuns)
    BY RetiredRows, CanceledRetires
  <2>3. /\ Unused(j, r)
        /\ jobs' = [CanceledJobs EXCEPT ![j] = QueuedJob(t, rework)]
        /\ runs' = [CanceledRuns EXCEPT ![r] = QueuedRun(j, t)]
    BY <1>2, <1>5
  <2> QED
    BY <2>1, <2>2, <2>3, RequeuedOwnership
<1> QED
  BY <1>4, <1>5

LEMMA CancelOwnership ==
    ASSUME TypeInv, OwnershipInv, NEW x,
           Cancel(x) \/ \E done \in BOOLEAN : Archive(done)
    PROVE  OwnershipInv'
<1>1. session \in SessionRows
  BY DEF TypeInv, TypeOK
<1>2. jobs' = CanceledJobs /\ runs' = CanceledRuns
  BY DEF Cancel, Archive
<1>3. session'.phase # "in_progress"
  BY <1>1 DEF Cancel, Archive, SessionRows, OwnershipInv, InProgressHasWork
<1> QED
  BY <1>2, <1>3, CanceledRetires, RetiredOwnership

LEMMA ControlOwnership ==
    ASSUME TypeInv, OwnershipInv,
           Unarchive \/ SetRelease \/ ReadBudget \/ UNCHANGED vars
    PROVE  OwnershipInv'
<1>1. session \in SessionRows
  BY DEF TypeInv, TypeOK
<1>2. UNCHANGED <<jobs, runs>>
  BY DEF Unarchive, SetRelease, ReadBudget, vars
<1>3. SessionKept
  <2>1. CASE Unarchive
    BY <1>1, <2>1
       DEF Unarchive, SessionKept, SessionRows, OwnershipInv, InProgressHasWork
  <2>2. CASE SetRelease \/ UNCHANGED vars
    BY <2>2 DEF SetRelease, vars, SessionKept
  <2>3. CASE ReadBudget
    BY <1>1, <2>3, BudgetKeepsSession DEF ReadBudget, SameSession, SessionKept
  <2> QED
    BY <2>1, <2>2, <2>3
<1> QED
  BY <1>2, <1>3, OwnershipWithoutRows

-----------------------------------------------------------------------------

LEMMA InitOwned == Init => OwnershipInv
<1> SUFFICES ASSUME Init PROVE OwnershipInv
  OBVIOUS
<1>1. PICK j \in Jobs, r \in Runs :
        /\ jobs = [k \in Jobs |-> IF k = j THEN QueuedJob(1, FALSE) ELSE NoJob]
        /\ runs = [q \in Runs |-> IF q = r THEN QueuedRun(j, 1) ELSE NoRun]
  BY DEF Init
<1>2. /\ jobs[j].status = "queued" /\ jobs[j].stage = 1
      /\ \A k \in Jobs \ {j} : jobs[k].status = "absent"
      /\ runs[r].status = "queued" /\ runs[r].job = j /\ runs[r].stage = 1
      /\ runs[r].attempt = 0
      /\ \A q \in Runs \ {r} : /\ runs[q].status = "absent"
                               /\ runs[q].job = None /\ runs[q].attempt = 0
  BY <1>1 DEF QueuedJob, QueuedRun, NoJob, NoRun
<1>3. session.stage = 1 /\ ~session.archived
  BY DEF Init
<1>4. RowsAgree
  BY <1>2 DEF RowsAgree
<1>5. OneActiveJob
  BY <1>2 DEF OneActiveJob, ActiveJobs, Active, ActiveStatuses
<1>6. /\ RunningRunOwnsSession /\ OneRunPerClaim /\ PublishedJobIsSettled
      /\ PublishedIsReviewed
  BY <1>2 DEF RunningRunOwnsSession, OneRunPerClaim, PublishedJobIsSettled,
              PublishedIsReviewed
<1>7. InProgressHasWork
  BY <1>2, <1>3 DEF InProgressHasWork, ActiveJobs, Active, ActiveStatuses
<1> QED
  BY <1>4, <1>5, <1>6, <1>7 DEF OwnershipInv

LEMMA StepOwned == TypeInv /\ OwnershipInv /\ [Next]_vars => OwnershipInv'
<1> SUFFICES ASSUME TypeInv, OwnershipInv, [Next]_vars PROVE OwnershipInv'
  OBVIOUS
<1>1. CASE WorkerStep
  BY <1>1, ClaimOwnership, StartOwnership, PublishOwnership,
     CompleteOwnership, FailOwnership, DeferOwnership DEF WorkerStep
<1>2. CASE ReviewStep
  BY <1>2, ApproveOwnership, DeliveryOwnership, RejectOwnership,
     RepairOwnership DEF ReviewStep
<1>3. CASE ControlStep
  BY <1>3, EnqueueOwnership, RerouteOwnership, CancelOwnership,
     ControlOwnership DEF ControlStep
<1>4. CASE UNCHANGED vars
  BY <1>4, ControlOwnership
<1> QED
  BY <1>1, <1>2, <1>3, <1>4 DEF Next

LEMMA OwnershipInvariance == Spec => []OwnershipInv
  BY InitOwned, StepOwned, TypeInvariance, PTL DEF Spec

(* One job of a session is active, and a run that may still publish is the  *)
(* newest claim of that job at the session's current stage: however late    *)
(* an older worker, a reviewer or Linear acts, it has nothing to act with.  *)
THEOREM ExecutionOwnership == Spec => []ExclusiveOwnership
<1>1. OwnershipInv => ExclusiveOwnership
  BY DEF OwnershipInv, ExclusiveOwnership
<1> QED
  BY <1>1, OwnershipInvariance, PTL

(* A session shown as in progress always has an active job at its stage: no *)
(* order of failures, reviews, cancels and archives strands it.             *)
THEOREM ProgressHasWork == Spec => []InProgressHasWork
<1>1. OwnershipInv => InProgressHasWork
  BY DEF OwnershipInv
<1> QED
  BY <1>1, OwnershipInvariance, PTL

(* The claim that published is the last one of its job, which is never      *)
(* queued again nor reported as failed.                                     *)
THEOREM PublicationSettlesJob == Spec => []PublishedJobIsSettled
<1>1. OwnershipInv => PublishedJobIsSettled
  BY DEF OwnershipInv
<1> QED
  BY <1>1, OwnershipInvariance, PTL
=============================================================================
