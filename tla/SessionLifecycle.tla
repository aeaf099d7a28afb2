-------------------------- MODULE SessionLifecycle --------------------------
(***************************************************************************)
(* The durable life of ONE pipeline session: its row, its jobs, the runs   *)
(* (attempts) of those jobs, the artifacts they publish, the stages their  *)
(* reviews complete, and the release switch that admits execution.         *)
(*                                                                         *)
(* Every RPC locks session -> jobs -> runs before it decides, so one RPC   *)
(* is one action.  Between two RPCs anything may happen: a caller may be   *)
(* arbitrarily late, so each action takes the handle its caller holds (a   *)
(* job, a claim number, a run, an artifact) from everything ever handed    *)
(* out, and the guards decide whether the handle still owns anything.      *)
(*                                                                         *)
(* Abstractions.  An artifact is named by the run that published it.  Time *)
(* is left out: a due retry is claimable at once, and the elapsed, token   *)
(* and spend limits of a pinned execution policy may or may not have been  *)
(* reached whenever the code looks (RefreshOutcomes).                      *)
(***************************************************************************)
EXTENDS Integers, FiniteSets

CONSTANTS
    Jobs,           \* identities of agent_jobs rows
    Runs,           \* identities of agent_runs rows (and of their artifacts)
    None,           \* SQL null
    LastStage,      \* the session selected stages 1..LastStage, by position
    MaxRetries,     \* WORKER_MAX_RETRIES, the p_max_retries of every caller
    MaxRepairs,     \* maxRepairAttempts of the pinned execution policy
    PolicyPinned,   \* does the session have an execution policy?
    ManualMerge,    \* Linear-routed session whose land stage is a human merge
    LegacyWorkers,  \* may a worker publish and complete in two transactions?
    MaxAttempts,    \* BOUND on agent_jobs.attempt_count
    MaxRevision     \* BOUND on the release control's revision

ASSUME NoneAssumption == None \notin Jobs \cup Runs
ASSUME StageAssumption == LastStage \in Nat \ {0}
ASSUME LimitAssumption == /\ MaxRetries \in Nat
                          /\ MaxRepairs \in Nat
                          /\ MaxAttempts \in Nat \ {0}
                          /\ MaxRevision \in Nat \ {0}
ASSUME FlagAssumption == /\ PolicyPinned \in BOOLEAN
                         /\ ManualMerge \in BOOLEAN
                         /\ LegacyWorkers \in BOOLEAN

VARIABLES
    session,    \* the sessions row
    jobs,       \* the agent_jobs rows
    runs,       \* the agent_runs rows, with the version each one published
    completed,  \* session_phase_completions: stage -> the artifact approved
    control,    \* git_continuity_release_control
    deferrals,  \* session_job_release_deferrals: {<<job, claim number>>}
    retries,    \* history: automatic retries queued for each job
    invalidated \* history: artifacts a reroute has withdrawn from review

vars == <<session, jobs, runs, completed, control, deferrals,
          retries, invalidated>>

-----------------------------------------------------------------------------
(* The shape of the state *)

Stages == 1..LastStage
Phases == {"in_progress", "awaiting_review", "rejected", "approved"}
ActiveStatuses == {"queued", "running"}
FinalStatuses == {"success", "error", "canceled"}

NoJob == [status |-> "absent", stage |-> 1, attempt |-> 0,
          repair |-> FALSE, release |-> 0]
NoRun == [status |-> "absent", job |-> None, attempt |-> 0,
          stage |-> 1, version |-> 0]

Active(j) == jobs[j].status \in ActiveStatuses
Live(r)   == runs[r].status \in ActiveStatuses
ActiveJobs == {j \in Jobs : Active(j)}
RunsOf(j)  == {r \in Runs : runs[r].job = j}

(* attempt_count is null on a placeholder: 0 here. *)
Placeholders(j) == {r \in RunsOf(j) : runs[r].attempt = 0
                                      /\ runs[r].status = "queued"}
BoundRuns(j, n) == {r \in RunsOf(j) : runs[r].attempt = n /\ n > 0}
PublishedRuns(j) == {r \in RunsOf(j) : runs[r].status = "success"}

(* mutant: the maximum without its coalesce *)
StageVersionOrNull(st) ==
    LET vs == {runs[r].version : r \in {q \in Runs : runs[q].stage = st}}
    IN  IF vs \subseteq {0} THEN None
        ELSE CHOOSE v \in vs : \A w \in vs : w <= v

(* max(version) over the stage's artifacts, 0 when it has none. *)
Versions(st) == {runs[r].version : r \in {q \in Runs : runs[q].stage = st}}
StageVersion(st) == CHOOSE v \in Versions(st) \cup {0} :
                        \A w \in Versions(st) : w <= v

(* The history of a job names no other stage. *)
StageMatches(j) == /\ jobs[j].stage = session.stage
                   /\ \A r \in RunsOf(j) : runs[r].stage = session.stage

-----------------------------------------------------------------------------
(* Execution budget: what a pinned policy admits *)

Started(r) == runs[r].attempt > 0

(* execution_exhaustion_code, with the elapsed, token and spend limits (and *)
(* the unavailable usage they cannot be checked against) as one code.       *)
ExhaustionCodes == {"none", "usage", "repair_attempts"}
Exhausted(s) == s.exhaustion # "none"

(* mutant: a later reason replaces the first *)
ExhaustAnew(s, code) == [s EXCEPT !.exhaustion = code]

(* exhaust_session_execution: the first reason is kept. *)
Exhaust(s, code) == IF Exhausted(s) THEN s ELSE [s EXCEPT !.exhaustion = code]

(* refresh_session_execution_exhaustion: a usage limit may have been        *)
(* reached, though never before anything was executed.                      *)
RefreshOutcomes(s) ==
    IF PolicyPinned /\ \E r \in Runs : Started(r)
    THEN {s, Exhaust(s, "usage")} ELSE {s}

(* mutant: the slot beyond the last is still given out *)
RepairsOverspent(s) == PolicyPinned /\ s.repairs > MaxRepairs

RepairsSpent(s) == PolicyPinned /\ s.repairs >= MaxRepairs
RepairAdmitted(s) == ~Exhausted(s) /\ ~RepairsSpent(s)

(* reserve_session_repair_attempt: take a slot or persist the exhaustion. *)
Reserve(s) == IF RepairAdmitted(s) THEN [s EXCEPT !.repairs = @ + 1]
                                   ELSE Exhaust(s, "repair_attempts")

(* admit_agent_job_execution, the insert trigger of agent_jobs. *)
InsertAdmitted(s, repair) ==
    PolicyPinned => IF repair THEN RepairAdmitted(s) ELSE ~Exhausted(s)
AfterInsert(s, repair) == IF PolicyPinned /\ repair THEN Reserve(s) ELSE s
-----------------------------------------------------------------------------
(* Rows written by several RPCs *)

Unused(j, r) == jobs[j].status = "absent" /\ runs[r].status = "absent"

QueuedJob(st, repair) == [NoJob EXCEPT !.status = "queued", !.stage = st,
                                       !.repair = repair]
QueuedRun(j, st) == [NoRun EXCEPT !.status = "queued", !.job = j, !.stage = st]

(* mutants: queued jobs are forgotten; running runs are forgotten; the      *)
(* published run of an active job is rewritten                              *)
CanceledRunningJobs == [j \in Jobs |->
    IF jobs[j].status = "running" THEN [jobs[j] EXCEPT !.status = "canceled"]
                                  ELSE jobs[j]]
CanceledQueuedRuns == [r \in Runs |->
    IF runs[r].status = "queued" THEN [runs[r] EXCEPT !.status = "canceled"]
                                 ELSE runs[r]]
CanceledActiveRuns == [r \in Runs |->
    IF Live(r) \/ runs[r].job \in ActiveJobs
    THEN [runs[r] EXCEPT !.status = "canceled"] ELSE runs[r]]

(* What cancel_session_job_attempts leaves of the jobs and of the runs. *)
CanceledJobs == [j \in Jobs |-> IF Active(j)
                                THEN [jobs[j] EXCEPT !.status = "canceled"]
                                ELSE jobs[j]]
CanceledRuns == [r \in Runs |-> IF Live(r)
                                THEN [runs[r] EXCEPT !.status = "canceled"]
                                ELSE runs[r]]

-----------------------------------------------------------------------------
(* create_session_with_first_job: the first stage is queued with its        *)
(* placeholder run; the release control starts disabled at revision 1.      *)

Init ==
    /\ \E j \in Jobs, r \in Runs :
        /\ jobs = [k \in Jobs |-> IF k = j THEN QueuedJob(1, FALSE) ELSE NoJob]
        /\ runs = [q \in Runs |-> IF q = r THEN QueuedRun(j, 1) ELSE NoRun]
    /\ session = [phase |-> "in_progress", archived |-> FALSE, stage |-> 1,
                  version |-> 0, artifact |-> None, exhaustion |-> "none",
                  repairs |-> 0]
    /\ completed = [st \in Stages |-> None]
    /\ control = [enabled |-> FALSE, revision |-> 1]
    /\ deferrals = {}
    /\ retries = [j \in Jobs |-> 0]
    /\ invalidated = {}

-----------------------------------------------------------------------------
(* The worker: claim, start, publish, complete, fail, defer *)

Claim(j) ==
    /\ jobs[j].status = "queued"
    /\ control.enabled
    /\ jobs[j].attempt < MaxAttempts
    /\ jobs' = [jobs EXCEPT ![j].status = "running", ![j].attempt = @ + 1,
                            ![j].release = control.revision]
    /\ UNCHANGED <<session, runs, completed, control, deferrals, retries,
                   invalidated>>

OwnsClaim(j, n) == n > 0 /\ jobs[j].attempt = n /\ jobs[j].status = "running"

ReleaseAdmits(j) == control.enabled /\ jobs[j].release = control.revision

StartAllowed(j, n, st, v) ==
    /\ ~session.archived
    /\ session.stage = st /\ session.version = v
    /\ session.phase \in {"in_progress", "rejected", "awaiting_review"}
    /\ StageMatches(j)
    /\ \A r \in RunsOf(j) :
        /\ runs[r].attempt # n
        /\ Live(r) => IF runs[r].attempt = 0 THEN runs[r].status = "queued"
                                             ELSE runs[r].attempt < n
    /\ session.phase = "awaiting_review" => PublishedRuns(j) = {}
    /\ Cardinality(Placeholders(j)) <= 1

(* The attempt adopts the job's placeholder or gets a run of its own; runs  *)
(* of earlier attempts still open have lost their authority.                *)
Start(j, n, st, v, r) ==
    /\ OwnsClaim(j, n)
    /\ ReleaseAdmits(j)
    /\ \E s \in RefreshOutcomes(session) :
        \/ /\ Exhausted(s)
           /\ session' = s
           /\ UNCHANGED runs
        \/ /\ ~Exhausted(s)
           /\ StartAllowed(j, n, st, v)
           /\ IF Placeholders(j) = {} THEN runs[r].status = "absent"
                                      ELSE r \in Placeholders(j)
           /\ runs' = [q \in Runs |->
                CASE q = r -> [QueuedRun(j, session.stage) EXCEPT
                                  !.status = "running", !.attempt = n]
                  [] q # r /\ runs[q].job = j /\ Live(q)
                       /\ runs[q].attempt \in 1..(n - 1) ->
                       [runs[q] EXCEPT !.status = "error"]
                  [] OTHER -> runs[q]]
           /\ session' = [s EXCEPT !.phase = "in_progress"]
    /\ UNCHANGED <<jobs, completed, control, deferrals, retries, invalidated>>

PublishAllowed(j, n, r, v) ==
    /\ OwnsClaim(j, n)
    /\ ~session.archived
    /\ session.stage = jobs[j].stage
    /\ session.phase = "in_progress"
    /\ session.version = v
    /\ runs[r].job = j /\ runs[r].attempt = n
    /\ runs[r].stage = jobs[j].stage /\ runs[r].status = "running"

NextVersion(v, st) == IF v >= StageVersion(st) THEN v + 1
                                               ELSE StageVersion(st) + 1

(* mutant: the session keeps the version it expected *)
RecordArtifactOnly(j, r, v) ==
    /\ session' = [session EXCEPT !.phase = "awaiting_review", !.artifact = r]
    /\ runs' = [runs EXCEPT ![r].status = "success",
                            ![r].version = NextVersion(v, jobs[j].stage)]

RecordArtifact(j, r, v) ==
    LET next == NextVersion(v, jobs[j].stage)
    IN  /\ session' = [session EXCEPT !.phase = "awaiting_review",
                                      !.version = next, !.artifact = r]
        /\ runs' = [runs EXCEPT ![r].status = "success", ![r].version = next]

(* adopt_session_checkpoint_publication: publish and complete in one        *)
(* transaction, never for an exhausted session.                             *)
Publish(j, n, r, v) ==
    /\ PublishAllowed(j, n, r, v)
    /\ ~Exhausted(session)
    /\ RecordArtifact(j, r, v)
    /\ jobs' = [jobs EXCEPT ![j].status = "success"]
    /\ UNCHANGED <<completed, control, deferrals, retries, invalidated>>

(* publish_session_job_attempt alone, as a worker of an earlier deployment  *)
(* calls it; the job is completed by a second call.                         *)
PublishDirect(j, n, r, v) ==
    /\ LegacyWorkers
    /\ PublishAllowed(j, n, r, v)
    /\ RecordArtifact(j, r, v)
    /\ UNCHANGED <<jobs, completed, control, deferrals, retries, invalidated>>

(* complete_session_job_attempt *)
Complete(j, n, r) ==
    /\ n > 0 /\ jobs[j].attempt = n
    /\ jobs[j].status \in {"running", "success"}
    /\ runs[r].job = j /\ runs[r].attempt = n /\ runs[r].status = "success"
    /\ jobs' = [jobs EXCEPT ![j].status = "success"]
    /\ UNCHANGED <<session, runs, completed, control, deferrals, retries,
                   invalidated>>

(* git_continuity_effective_attempt_count: a claim the release paused is    *)
(* not counted against the retry limit.                                     *)
DeferredClaims(j, n) == {d \in deferrals : d[1] = j /\ d[2] <= n}
(* mutant: the credits are ignored *)
EffectiveAttemptUncredited(j, n) == n

EffectiveAttempt(j, n) ==
    IF n >= Cardinality(DeferredClaims(j, n))
    THEN n - Cardinality(DeferredClaims(j, n)) ELSE 0

(* May this failure be followed by another attempt of the same job? *)
RetryAllowed(j, n, r) ==
    /\ EffectiveAttempt(j, n) < MaxRetries
    /\ ~session.archived
    /\ StageMatches(j)
    /\ ~Exhausted(session)
    /\ \/ session.phase \in {"in_progress", "rejected"}
       \/ r = None /\ session.phase = "awaiting_review" /\ PublishedRuns(j) = {}

(* mutant: only a session that was already rejected is parked *)
OwnsRejectedStage(j) == /\ ~session.archived
                        /\ StageMatches(j)
                        /\ session.phase = "rejected"

OwnsCurrentStage(j) == /\ ~session.archived
                       /\ StageMatches(j)
                       /\ session.phase \in {"in_progress", "rejected"}

(* The failed run is finalized first, so that its own usage can exhaust the *)
(* budget before another repair is reserved.                                *)
FailedRuns(j, r) ==
    [q \in Runs |-> IF IF r = None THEN q \in Placeholders(j) ELSE q = r
                    THEN [runs[q] EXCEPT !.status = "error"] ELSE runs[q]]

(* mutants: only open runs count as an execution of the claim; a claim that *)
(* was never started cannot be failed                                       *)
FailsOpenClaim(j, n, r) ==
    IF r = None THEN \A q \in BoundRuns(j, n) : ~Live(q)
    ELSE runs[r].job = j /\ runs[r].attempt = n /\ Live(r)
FailsStartedClaim(j, n, r) ==
    r # None /\ runs[r].job = j /\ runs[r].attempt = n /\ Live(r)

(* The caller names the open run of its claim, or none if none was started. *)
FailsClaim(j, n, r) ==
    IF r = None THEN BoundRuns(j, n) = {}
    ELSE runs[r].job = j /\ runs[r].attempt = n /\ Live(r)

(* fail_session_job_attempt.  The stall detector's and the deadline's       *)
(* fail_stalled_session_job_attempt first tries Defer and leaves alone an   *)
(* attempt whose publication is pending: each of its calls is a step of     *)
(* Defer, of Fail, or nothing.                                              *)
Fail(j, n, r, retry) ==
    /\ OwnsClaim(j, n)
    /\ FailsClaim(j, n, r)
    /\ \E s \in RefreshOutcomes(session) :
        LET wanted   == retry /\ RetryAllowed(j, n, r) /\ ~Exhausted(s)
            retrying == wanted /\ RepairAdmitted(s)
            after    == IF wanted THEN Reserve(s) ELSE s
        IN  /\ jobs' = [jobs EXCEPT ![j].status =
                            IF retrying THEN "queued" ELSE "error"]
            /\ retries' = IF retrying THEN [retries EXCEPT ![j] = @ + 1]
                                      ELSE retries
            /\ session' = IF OwnsCurrentStage(j)
                          THEN [after EXCEPT !.phase = "rejected"] ELSE after
    /\ runs' = FailedRuns(j, r)
    /\ UNCHANGED <<completed, control, deferrals, invalidated>>

NeverRan(j, n) ==
    \A r \in RunsOf(j) :
        /\ runs[r].attempt = n => ~Live(r) /\ runs[r].status # "success"
        /\ runs[r].attempt = 0 => runs[r].status # "running"

(* defer_session_job_for_continuity_release: give back a claim the release  *)
(* paused before it executed anything, with one credit for that claim.      *)
Defer(j, n) ==
    /\ OwnsClaim(j, n)
    /\ ~ReleaseAdmits(j)
    /\ NeverRan(j, n)
    /\ deferrals' = deferrals \cup {<<j, n>>}
    /\ jobs' = [jobs EXCEPT ![j].status = "queued", ![j].release = 0]
    /\ UNCHANGED <<session, runs, completed, control, retries, invalidated>>

-----------------------------------------------------------------------------
(* People and Linear: enqueue, review, reroute, cancel, archive *)

(* enqueue_session_job_with_run for a manual retry.  An active job is       *)
(* returned as it is; an insert the budget refuses leaves only the reason.  *)
Enqueue(j, r) ==
    /\ ~session.archived
    /\ session.phase # "approved"
    /\ ActiveJobs = {}
    /\ Unused(j, r)
    /\ \E s \in RefreshOutcomes(session) :
        IF InsertAdmitted(s, TRUE)
        THEN /\ session' = AfterInsert(s, TRUE)
             /\ jobs' = [jobs EXCEPT ![j] = QueuedJob(s.stage, TRUE)]
             /\ runs' = [runs EXCEPT ![r] = QueuedRun(j, s.stage)]
        ELSE /\ session' = Reserve(s)
             /\ UNCHANGED <<jobs, runs>>
    /\ UNCHANGED <<completed, control, deferrals, retries, invalidated>>

ReviewOf(a) == /\ ~session.archived
               /\ session.phase = "awaiting_review"
               /\ session.artifact = a
               /\ runs[a].stage = session.stage
               /\ runs[a].version = session.version

(* Only the exact successful attempt may still own the queue at approval. *)
PublishedReview(j) == /\ jobs[j].status = "running"
                      /\ jobs[j].stage = session.stage
                      /\ \E r \in BoundRuns(j, jobs[j].attempt) :
                            /\ runs[r].status = "success"
                            /\ runs[r].stage = session.stage

SettledJobs == [j \in Jobs |-> IF Active(j)
                               THEN [jobs[j] EXCEPT !.status = "success"]
                               ELSE jobs[j]]

RecordCompletion(a) ==
    completed' = [completed EXCEPT ![session.stage] =
                    IF @ = None THEN a ELSE @]

HasLaterStage == session.stage < LastStage

(* approve_session_stage with a later stage to run: advance and queue it in *)
(* the same transaction, unless the budget is exhausted.                    *)
ApproveAndAdvance(a, j, r) ==
    /\ ReviewOf(a)
    /\ HasLaterStage
    /\ \E s \in RefreshOutcomes(session) :
        \/ /\ Exhausted(s)
           /\ session' = s
           /\ UNCHANGED <<jobs, runs, completed>>
        \/ /\ ~Exhausted(s)
           /\ \A k \in ActiveJobs : PublishedReview(k)
           /\ Unused(j, r)
           /\ RecordCompletion(a)
           /\ session' = [s EXCEPT !.stage = @ + 1, !.artifact = None,
                                   !.version = StageVersion(s.stage + 1),
                                   !.phase = "in_progress"]
           /\ jobs' = [SettledJobs EXCEPT ![j] = QueuedJob(s.stage + 1, FALSE)]
           /\ runs' = [runs EXCEPT ![r] = QueuedRun(j, s.stage + 1)]
    /\ UNCHANGED <<control, deferrals, retries, invalidated>>

(* approve_session_stage at the last stage: deliver. *)
ApproveDelivery(a) ==
    /\ ReviewOf(a)
    /\ ~HasLaterStage
    /\ \A k \in ActiveJobs : PublishedReview(k)
    /\ RecordCompletion(a)
    /\ \E s \in RefreshOutcomes(session) :
        session' = [s EXCEPT !.phase = "approved", !.archived = ~ManualMerge]
    /\ jobs' = SettledJobs
    /\ UNCHANGED <<runs, control, deferrals, retries, invalidated>>

(* reject_session_stage when no repair can be admitted and no queued job is *)
(* there to adopt: the rejection is recorded without an execution.          *)
RejectExhausted(a) ==
    /\ ReviewOf(a)
    /\ \A k \in ActiveJobs : jobs[k].status # "queued"
    /\ \E s \in RefreshOutcomes(session) :
        /\ Exhausted(s) \/ RepairsSpent(s)
        /\ session' = [Exhaust(s, "repair_attempts") EXCEPT
                        !.phase = "rejected"]
    /\ UNCHANGED <<jobs, runs, completed, control, deferrals, retries,
                   invalidated>>

(* Its body adopts a queued rerun that raced the review... *)
RejectAdopt(a) ==
    /\ ReviewOf(a)
    /\ \E k \in ActiveJobs :
        /\ Placeholders(k) # {}
        /\ \/ jobs[k].status = "queued"
           \/ ~Exhausted(session) /\ ~RepairsSpent(session)
    /\ session' = [session EXCEPT !.phase = "rejected"]
    /\ UNCHANGED <<jobs, runs, completed, control, deferrals, retries,
                   invalidated>>

(* ... and otherwise retires what is active and queues the repair.  When    *)
(* the budget refuses that insert the whole rejection is rolled back.       *)
RetiredByReview(k) ==
    IF PublishedRuns(k) # {} \/ \E r \in RunsOf(k) : Live(r)
    THEN "success" ELSE "error"

RejectAndRepair(a, j, r) ==
    /\ ReviewOf(a)
    /\ \A k \in ActiveJobs : Placeholders(k) = {}
    /\ Unused(j, r)
    /\ ~Exhausted(session)
    /\ InsertAdmitted(session, TRUE)
    /\ session' = [AfterInsert(session, TRUE) EXCEPT !.phase = "rejected"]
    /\ jobs' = [[k \in Jobs |-> IF Active(k)
                    THEN [jobs[k] EXCEPT !.status = RetiredByReview(k)]
                    ELSE jobs[k]] EXCEPT ![j] = QueuedJob(session.stage, TRUE)]
    /\ runs' = [[q \in Runs |-> IF Live(q) /\ runs[q].job \in ActiveJobs
                    THEN [runs[q] EXCEPT !.status = "canceled"]
                    ELSE runs[q]] EXCEPT ![r] = QueuedRun(j, session.stage)]
    /\ UNCHANGED <<completed, control, deferrals, retries, invalidated>>

(* mutants: the target stage keeps its approval; every stage loses its own *)
CompletionsUpTo(t) == [st \in Stages |-> IF st > t THEN None ELSE completed[st]]
NoCompletions(t) == [st \in Stages |-> None]

CompletionsBefore(t) ==
    [st \in Stages |-> IF st >= t THEN None ELSE completed[st]]

(* apply_linear_session_transition to a routed stage ("rework" is a repair, *)
(* "merging" is not): cancel what is active, withdraw the reviews from the  *)
(* target stage on, and queue the target, all or nothing.                   *)
Reroute(t, rework, j, r) ==
    /\ ~session.archived
    /\ \E s \in RefreshOutcomes(session) :
        IF Exhausted(s) \/ (rework /\ RepairsSpent(s))
        THEN /\ session' = Exhaust(s, "repair_attempts")
             /\ UNCHANGED <<jobs, runs, completed, invalidated>>
        ELSE /\ Unused(j, r)
             /\ session' = [AfterInsert(s, rework) EXCEPT
                                !.stage = t, !.artifact = None,
                                !.version = StageVersion(t),
                                !.phase = "rejected"]
             /\ jobs' = [CanceledJobs EXCEPT ![j] = QueuedJob(t, rework)]
             /\ runs' = [CanceledRuns EXCEPT ![r] = QueuedRun(j, t)]
             /\ completed' = CompletionsBefore(t)
             /\ invalidated' = invalidated \cup
                    {q \in Runs : runs[q].version > 0 /\ runs[q].stage >= t}
    /\ UNCHANGED <<control, deferrals, retries>>

(* cancel_session_job_attempts: everything active, provided the run the     *)
(* caller saw (if it names one) still owns the queue.                       *)
StillOwns(r) ==
    LET j == runs[r].job
    IN  /\ Live(r) /\ Active(j)
        /\ IF runs[r].attempt = 0
           THEN runs[r].status = "queued" /\ BoundRuns(j, jobs[j].attempt) = {}
           ELSE runs[r].attempt = jobs[j].attempt

Cancel(expected) ==
    /\ expected # None => StillOwns(expected)
    /\ jobs' = CanceledJobs
    /\ runs' = CanceledRuns
    /\ session' = IF session.phase = "in_progress"
                  THEN [session EXCEPT !.phase = "rejected"] ELSE session
    /\ UNCHANGED <<completed, control, deferrals, retries, invalidated>>

(* archive_session_job_attempts; "Done" in Linear archives as completed. *)
Archive(done) ==
    /\ jobs' = CanceledJobs
    /\ runs' = CanceledRuns
    /\ session' = IF session.archived /\ ~done THEN session
                  ELSE [session EXCEPT !.archived = TRUE, !.phase =
                          IF done THEN "approved"
                          ELSE IF @ = "in_progress" THEN "rejected" ELSE @]
    /\ UNCHANGED <<completed, control, deferrals, retries, invalidated>>

(* unarchiveSession: clears the mark and queues nothing. *)
Unarchive ==
    /\ session.archived
    /\ session' = [session EXCEPT !.archived = FALSE]
    /\ UNCHANGED <<jobs, runs, completed, control, deferrals, retries,
                   invalidated>>

-----------------------------------------------------------------------------
(* Operators and the clock *)

(* set_git_continuity_release: a change of the switch is a new revision. *)
SetRelease ==
    /\ control.revision < MaxRevision
    /\ control' = [enabled |-> ~control.enabled,
                   revision |-> control.revision + 1]
    /\ UNCHANGED <<session, jobs, runs, completed, deferrals, retries,
                   invalidated>>

(* record_session_run_usage and get_session_execution_budget: what they     *)
(* look at may have reached a limit.                                        *)
ReadBudget ==
    /\ session' \in RefreshOutcomes(session)
    /\ UNCHANGED <<jobs, runs, completed, control, deferrals, retries,
                   invalidated>>

(* The handles in circulation: claim numbers and artifact versions.  A run  *)
(* publishes at most one version.                                           *)
ClaimNumbers == 1..MaxAttempts
VersionNumbers == 0..Cardinality(Runs)

WorkerStep ==
    \/ \E j \in Jobs : Claim(j)
    \/ \E j \in Jobs, n \in ClaimNumbers, st \in Stages,
          v \in VersionNumbers, r \in Runs : Start(j, n, st, v, r)
    \/ \E j \in Jobs, n \in ClaimNumbers, r \in Runs, v \in VersionNumbers :
          Publish(j, n, r, v)
    \/ \E j \in Jobs, n \in ClaimNumbers, r \in Runs, v \in VersionNumbers :
          PublishDirect(j, n, r, v)
    \/ \E j \in Jobs, n \in ClaimNumbers, r \in Runs : Complete(j, n, r)
    \/ \E j \in Jobs, n \in ClaimNumbers, r \in Runs \cup {None},
          retry \in BOOLEAN : Fail(j, n, r, retry)
    \/ \E j \in Jobs, n \in ClaimNumbers : Defer(j, n)

ReviewStep ==
    \/ \E a \in Runs, j \in Jobs, r \in Runs : ApproveAndAdvance(a, j, r)
    \/ \E a \in Runs : ApproveDelivery(a)
    \/ \E a \in Runs : RejectExhausted(a)
    \/ \E a \in Runs : RejectAdopt(a)
    \/ \E a \in Runs, j \in Jobs, r \in Runs : RejectAndRepair(a, j, r)

ControlStep ==
    \/ \E j \in Jobs, r \in Runs : Enqueue(j, r)
    \/ \E t \in Stages, rework \in BOOLEAN, j \in Jobs, r \in Runs :
          Reroute(t, rework, j, r)
    \/ \E expected \in Runs \cup {None} : Cancel(expected)
    \/ \E done \in BOOLEAN : Archive(done)
    \/ Unarchive
    \/ SetRelease
    \/ ReadBudget

Next == WorkerStep \/ ReviewStep \/ ControlStep

Spec == Init /\ [][Next]_vars

-----------------------------------------------------------------------------
(* Type invariant *)

SessionRows == [phase : Phases, archived : BOOLEAN, stage : Stages,
                version : Nat, artifact : Runs \cup {None},
                exhaustion : ExhaustionCodes, repairs : Nat]
JobRows == [status : ActiveStatuses \cup FinalStatuses \cup {"absent"},
            stage : Stages, attempt : Nat, repair : BOOLEAN, release : Nat]
RunRows == [status : ActiveStatuses \cup FinalStatuses \cup {"absent"},
            job : Jobs \cup {None}, attempt : Nat, stage : Stages,
            version : Nat]

(* Every row holds values of its columns' types. *)
TypeOK ==
    /\ session \in SessionRows
    /\ jobs \in [Jobs -> JobRows]
    /\ runs \in [Runs -> RunRows]
    /\ completed \in [Stages -> Runs \cup {None}]
    /\ control \in [enabled : BOOLEAN, revision : Nat]
    /\ deferrals \subseteq Jobs \X Nat
    /\ retries \in [Jobs -> Nat]
    /\ invalidated \subseteq Runs

-----------------------------------------------------------------------------
(* Safety *)

(* The session's queue key is never held twice: whatever reviewers, Linear  *)
(* and workers interleave, at most one job of a session is active.          *)
OneActiveJob == \A j, k \in ActiveJobs : j = k

(* A run that may still publish is the newest claim of the active job, at   *)
(* the session's current stage, of a session that is in progress: a worker  *)
(* that lost its claim to a retry, a cancel, a reroute or an archive has no *)
(* running run to publish with.                                             *)
RunningRunOwnsSession ==
    \A r \in Runs : runs[r].status = "running" =>
        LET j == runs[r].job
        IN  /\ j \in Jobs
            /\ jobs[j].status = "running" /\ jobs[j].attempt = runs[r].attempt
            /\ jobs[j].stage = runs[r].stage /\ runs[r].stage = session.stage
            /\ session.phase = "in_progress" /\ ~session.archived

(* No two executions of one claim: (agent_job_id, attempt_count) is unique. *)
OneRunPerClaim ==
    \A p, q \in Runs :
        (/\ runs[p].attempt > 0
         /\ runs[p].job = runs[q].job
         /\ runs[p].attempt = runs[q].attempt) => p = q

(* All three: whoever executes holds the session's only active job, by its  *)
(* newest claim, and is alone in executing it.                              *)
ExclusiveOwnership == OneActiveJob /\ RunningRunOwnsSession /\ OneRunPerClaim

(* A session shown as in progress has work behind it at the current stage:  *)
(* no order of failures, reviews, cancels and archives strands it there.    *)
InProgressHasWork ==
    session.phase = "in_progress" =>
        /\ ~session.archived
        /\ \E j \in ActiveJobs : jobs[j].stage = session.stage

(* What is under review is a published artifact of the current stage, the   *)
(* latest version of it, and none that a reroute has withdrawn ...          *)
ReviewedIsLatest ==
    session.phase = "awaiting_review" =>
        LET a == session.artifact
        IN  /\ a \in Runs \ invalidated
            /\ runs[a].status = "success" /\ runs[a].stage = session.stage
            /\ runs[a].version = session.version
            /\ \A r \in Runs : (runs[r].stage = session.stage =>
                                    runs[r].version <= session.version)

(* ... and a version names one artifact of its stage, across reroutes that  *)
(* lead back to the stage.                                                  *)
VersionsNameArtifacts ==
    \A p, q \in Runs :
        (/\ runs[p].version > 0
         /\ runs[p].stage = runs[q].stage
         /\ runs[p].version = runs[q].version) => p = q

(* A review decides on the one artifact its version names: the latest of    *)
(* the current stage that was not withdrawn.                                *)
ReviewIsCurrentArtifact == ReviewedIsLatest /\ VersionsNameArtifacts

(* A job that published is done: its publishing claim is its last one, it   *)
(* is never queued for another attempt and never reported as failed.        *)
PublishedJobIsSettled ==
    \A r \in Runs : runs[r].status = "success" =>
        /\ jobs[runs[r].job].attempt = runs[r].attempt
        /\ jobs[runs[r].job].status \in {"running", "success", "canceled"}

(* The stages recorded as completed lie behind the current one (or the      *)
(* session is delivered), and each was approved on an artifact of that      *)
(* stage that no later reroute has withdrawn.                               *)
CompletionsAreCurrent ==
    \A st \in Stages : completed[st] # None =>
        /\ completed[st] \in Runs \ invalidated
        /\ runs[completed[st]].status = "success"
        /\ runs[completed[st]].stage = st
        /\ st < session.stage \/ session.phase = "approved"

(* Every claim of a job is accounted for: it was paused by the release (one *)
(* credit) and never executed anything, it failed and was retried, or it is *)
(* the last one.  What the failure path compares with the retry limit       *)
(* counts exactly the claims that were not paused: pauses neither use up    *)
(* the limit nor extend it.                                                 *)
ClaimsAccounted ==
    /\ \A d \in deferrals : BoundRuns(d[1], d[2]) = {}
    /\ \A j \in Jobs :
        LET paid == jobs[j].attempt - Cardinality({d \in deferrals : d[1] = j})
        IN  /\ paid \in {retries[j], retries[j] + 1}
            /\ jobs[j].status = "queued" => paid = retries[j]
            /\ jobs[j].status = "running" =>
                    /\ paid = retries[j] + 1
                    /\ EffectiveAttempt(j, jobs[j].attempt) = paid
            /\ retries[j] > 0 => retries[j] < MaxRetries

(* With a pinned policy every repair, asked for or automatic, has taken     *)
(* exactly one slot, and there are never more than the policy allows.       *)
RepairsAccounted ==
    PolicyPinned =>
        /\ session.repairs <= MaxRepairs
        /\ session.repairs =
             Cardinality({j \in Jobs : jobs[j].repair})
             + Cardinality({p \in Jobs \X (1..MaxRetries) : p[2] <= retries[p[1]]})

-----------------------------------------------------------------------------
(* What a step may never do *)

(* After the budget is exhausted nothing is executed and nothing new is     *)
(* queued, and the exhaustion is never taken back.                          *)
ExhaustionStopsExecution ==
    [][Exhausted(session) =>
        /\ session'.exhaustion = session.exhaustion
        /\ retries' = retries
        /\ \A j \in Jobs : jobs[j].status = "absent" => jobs'[j] = jobs[j]
        /\ \A r \in Runs : runs[r].status # "running" =>
                                runs'[r].status # "running"]_vars

(* A job that ended never becomes active again and keeps its verdict; a     *)
(* published run and its version are immutable history.                     *)
HistoryIsImmutable ==
    [][/\ \A j \in Jobs : jobs[j].status \in FinalStatuses =>
                            jobs'[j].status = jobs[j].status
       /\ \A r \in Runs : runs[r].status = "success" =>
                            runs'[r] = runs[r]]_vars

(* A decision on a stage (an approval) is withdrawn only by the reroute     *)
(* that takes the session back to that stage or before it.                  *)
ApprovalsAreKept ==
    [][\A st \in Stages : (completed[st] # None /\ completed'[st] # completed[st])
            => /\ session'.stage <= st
               /\ completed[st] \in invalidated']_vars

-----------------------------------------------------------------------------
(* Liveness *)

(* The stall detector, or the claim's deadline, retires a claim that makes  *)
(* no progress.                                                             *)
Sweep == \E j \in Jobs, n \in ClaimNumbers :
            \/ Defer(j, n)
            \/ \E r \in Runs \cup {None} : Fail(j, n, r, TRUE)

(* Workers poll the queue and the maintenance timer sweeps; nobody is bound *)
(* to publish, review, retry or toggle the release.                         *)
Fairness == /\ WF_vars(\E j \in Jobs : Claim(j))
            /\ WF_vars(Sweep)

FairSpec == Spec /\ Fairness

(* While the release stays enabled, a session whose workers crash at any    *)
(* point does not stay in progress: it reaches a review or is parked for a  *)
(* person to act on.                                                        *)
CrashedWorkIsRecovered ==
    <>[]control.enabled =>
        (session.phase = "in_progress" ~> session.phase # "in_progress")

-----------------------------------------------------------------------------
(* What the repository says and the code does not do *)

RejectStep(a) == \/ RejectExhausted(a)
                 \/ RejectAdopt(a)
                 \/ \E j \in Jobs, r \in Runs : RejectAndRepair(a, j, r)

(* "Return a durable rejected receipt when a new repair cannot be admitted": *)
(* a reviewer can always reject what is under review.  It fails when a       *)
(* queued job without a placeholder is to be replaced (a manual retry that   *)
(* failed before it started and was requeued) and the budget refuses the     *)
(* replacement: the rejection is rolled back.                                *)
RejectionLeavesReceipt ==
    (/\ session.phase = "awaiting_review"
     /\ ~session.archived
     /\ \E j \in Jobs, r \in Runs : Unused(j, r))
    => ENABLED RejectStep(session.artifact)

(* "A repair job that is admitted with the final slot may finish": running  *)
(* out of repair slots does not strand a repair that holds one of them.     *)
AdmittedRepairMayFinish ==
    [][(/\ session.exhaustion = "none"
        /\ session'.exhaustion = "repair_attempts")
       => ~\E j \in Jobs : /\ jobs[j].repair
                           /\ Active(j)
                           /\ jobs'[j] = jobs[j]]_vars
=============================================================================
