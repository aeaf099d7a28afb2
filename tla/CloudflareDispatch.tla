-------------------------- MODULE CloudflareDispatch --------------------------
(***************************************************************************)
(* The Cloudflare deployment of the worker.  One Durable Object, woken by  *)
(* an alarm, claims jobs in the database and delivers each claim as a      *)
(* durable workflow; the workflow executes the claim at most once and      *)
(* recovers it when the execution was cut short.                           *)
(*                                                                         *)
(* Three parties interleave: the batch of the Durable Object, which may    *)
(* lose any reply and be reset at any await; the workflow engine, which    *)
(* may create late, run a step again or give it up while its body still    *)
(* runs; and the execution, whose effect on the job is kept to what        *)
(* dispatch and recovery look at.  Time is abstract: an alarm may fire,    *)
(* and the deadline of a current claim may pass, at any moment.            *)
(***************************************************************************)
EXTENDS Integers, FiniteSets

CONSTANTS
    DJobs,          \* agent_jobs rows
    MaxRunning,     \* WORKER_MAX_CONCURRENT_JOBS
    MaxTries,       \* attempts of a job before it is left to a person
    NoClaim         \* no claim

ASSUME DispatchAssumption == /\ MaxRunning \in Nat \ {0}
                             /\ MaxTries \in Nat \ {0}
                             /\ NoClaim \notin DJobs \X (1..MaxTries)

VARIABLES
    work,       \* the jobs, each with the run of its newest claim
    rows,       \* worker_dispatches
    engine,     \* the SessionAttemptWorkflow of each claim; late: its creation
                \* failed and may still take effect
    executing,  \* claims whose runClaimedJob is under way
    entered,    \* history: how often runClaimedJob was entered
    batch       \* the Durable Object's dispatch in progress

dispatchVars == <<work, rows, engine, executing, entered, batch>>

-----------------------------------------------------------------------------
DispatchedClaims == DJobs \X (1..MaxTries)

NoRow == [present |-> FALSE, acked |-> FALSE, started |-> FALSE, due |-> FALSE]
NoBatch == [step |-> "idle", todo |-> {}, slots |-> 0, at |-> NoClaim, saw |-> "-"]

RunStatuses == {"none", "running", "success", "error"}
EngineSteps == {"none", "late", "execute", "inspect", "recover", "again",
                "reinspect", "over"}
BatchSteps == {"idle", "load", "next", "create", "ack",
               "inspect", "recover", "reinspect", "again"}

DispatchInit ==
    /\ work = [j \in DJobs |-> [status |-> "queued", attempt |-> 0, run |-> "none"]]
    /\ rows = [c \in DispatchedClaims |-> NoRow]
    /\ engine = [c \in DispatchedClaims |-> [step |-> "none", saw |-> "-"]]
    /\ executing = {}
    /\ entered = [c \in DispatchedClaims |-> 0]
    /\ batch = NoBatch

(* The job runs at exactly this attempt. *)
IsCurrentClaim(c) == /\ work[c[1]].status = "running"
                     /\ work[c[1]].attempt = c[2]
RunOf(c) == IF work[c[1]].attempt = c[2] THEN work[c[1]].run ELSE "error"

(* The job after an attempt that failed, and after one that was published. *)
AfterFailure(c, retry) ==
    [work EXCEPT ![c[1]] =
        [@ EXCEPT !.status = IF retry /\ c[2] < MaxTries THEN "queued" ELSE "ended",
                  !.run = IF @ = "none" THEN "none" ELSE "error"]]

AfterCompletion(c) == [work EXCEPT ![c[1]].status = "ended"]

-----------------------------------------------------------------------------
(* recoverAttempt: look at the claim's run, then settle what was seen; a    *)
(* claim found stale without a run is looked at once more.                  *)

(* mutant: a run seen is failed whatever became of it meanwhile *)
FailsLate(c, saw) == IsCurrentClaim(c) /\ saw \in {"none", "running"}

(* fail_stalled_session_job_attempt fails the claim as it was seen. *)
FailsAsSeen(c, saw) == /\ IsCurrentClaim(c)
                       /\ saw \in {"none", "running"}
                       /\ saw = RunOf(c)

SettlesAsSeen(c, saw, retry) ==
    \/ /\ saw = "success" /\ IsCurrentClaim(c) /\ RunOf(c) = "success"
       /\ work' = AfterCompletion(c)
    \/ /\ FailsAsSeen(c, saw)
       /\ work' = AfterFailure(c, retry)
    \/ /\ ~(saw = "success" /\ IsCurrentClaim(c) /\ RunOf(c) = "success")
       /\ ~FailsAsSeen(c, saw)
       /\ UNCHANGED work

FoundStale(c, saw) == saw = "none" /\ ~FailsAsSeen(c, saw)

-----------------------------------------------------------------------------
(* The Durable Object *)

(* An alarm set by the schedule, the page, a workflow that ended or the     *)
(* batch before it: one that fires during a batch shares it, otherwise a    *)
(* batch begins, which first arms the recovery alarm.                       *)
AlarmFires ==
    /\ batch.step = "idle"
    /\ batch' = [NoBatch EXCEPT !.step = "load"]
    /\ UNCHANGED <<work, rows, engine, executing, entered>>

LoadPending ==
    /\ batch.step = "load"
    /\ batch' = [batch EXCEPT !.step = "next", !.slots = MaxRunning,
                   !.todo = {c \in DispatchedClaims :
                                rows[c].present /\ ~rows[c].acked}]
    /\ UNCHANGED <<work, rows, engine, executing, entered>>

NextDelivery == batch' = [batch EXCEPT !.step = "next", !.at = NoClaim, !.saw = "-"]

(* deliverJob, up to its first effect.  A claim that is no longer current   *)
(* never becomes so again: reading it and deleting its row is one step.     *)
Inspected(c) ==
    IF rows[c].due
    THEN [batch EXCEPT !.step = "inspect", !.at = c, !.todo = @ \ {c}]
    ELSE [batch EXCEPT !.step = "create", !.at = c, !.todo = @ \ {c}]

DeliverPending ==
    /\ batch.step = "next"
    /\ \E c \in batch.todo :
          IF IsCurrentClaim(c)
          THEN batch' = Inspected(c) /\ UNCHANGED rows
          ELSE /\ batch' = [batch EXCEPT !.todo = @ \ {c}]
               /\ rows' = [rows EXCEPT ![c] = NoRow]
    /\ UNCHANGED <<work, engine, executing, entered>>

(* mutant: the rows are counted, which outlive their claims *)
CapacityByRows ==
    Cardinality({c \in DispatchedClaims : rows[c].present}) < MaxRunning

Capacity == Cardinality({j \in DJobs : work[j].status = "running"}) < MaxRunning

(* claim_next_worker_dispatch, one transaction under its advisory lock: the *)
(* claim and its row.                                                       *)
ClaimDispatch ==
    /\ batch.step = "next" /\ batch.todo = {} /\ batch.slots > 0
    /\ Capacity
    /\ \E j \in DJobs :
          LET c == <<j, work[j].attempt + 1>>
          IN  /\ work[j].status = "queued"
              /\ work' = [work EXCEPT ![j] = [status |-> "running",
                                              attempt |-> c[2], run |-> "none"]]
              /\ rows' = [rows EXCEPT ![c] = [NoRow EXCEPT !.present = TRUE]]
              /\ batch' = [batch EXCEPT !.todo = {c}, !.slots = @ - 1]
    /\ UNCHANGED <<engine, executing, entered>>

NothingToClaim ==
    /\ batch.step = "next" /\ batch.todo = {}
    /\ \/ batch.slots = 0 \/ ~Capacity
       \/ \A j \in DJobs : work[j].status # "queued"
    /\ batch' = NoBatch
    /\ UNCHANGED <<work, rows, engine, executing, entered>>

Absent(c) == engine[c].step \in {"none", "late"}
Created(c) == [engine EXCEPT ![c].step = IF Absent(c) THEN "execute" ELSE @]

(* What get(id).status() answers of a workflow that exists. *)
Confirmed(c) == engine'[c].step \notin {"none", "late"}

(* ensureWorkflow: the creation took effect and was answered or not, or it  *)
(* may still take effect; what cannot be confirmed is left for a retry.     *)
EnsureWorkflow ==
    LET c == batch.at
    IN  /\ batch.step = "create"
        /\ \/ engine' = Created(c)
           \/ engine' = [engine EXCEPT ![c].step = IF @ = "none" THEN "late" ELSE @]
        /\ \/ Confirmed(c) /\ batch' = [batch EXCEPT !.step = "ack"]
           \/ NextDelivery
        /\ UNCHANGED <<work, rows, executing, entered>>

CreationLands(c) ==
    /\ engine[c].step = "late"
    /\ engine' = Created(c)
    /\ UNCHANGED <<work, rows, executing, entered, batch>>

(* The update; when it fails the row stays pending. *)
AckDispatch ==
    /\ batch.step = "ack"
    /\ rows' \in {rows, [rows EXCEPT ![batch.at].acked = rows[batch.at].present]}
    /\ NextDelivery
    /\ UNCHANGED <<work, engine, executing, entered>>

(* The deadline passed before delivery: recover without another attempt. *)
BatchLooks ==
    /\ batch.step \in {"inspect", "reinspect"}
    /\ batch' = [batch EXCEPT !.saw = RunOf(batch.at),
                   !.step = IF @ = "inspect" THEN "recover" ELSE "again"]
    /\ UNCHANGED <<work, rows, engine, executing, entered>>

BatchSettles ==
    /\ batch.step \in {"recover", "again"}
    /\ SettlesAsSeen(batch.at, batch.saw, FALSE)
    /\ IF batch.step = "recover" /\ FoundStale(batch.at, batch.saw)
       THEN batch' = [batch EXCEPT !.step = "reinspect"] ELSE NextDelivery
    /\ UNCHANGED <<rows, engine, executing, entered>>

(* A call of one delivery throws: the batch goes on with the next. *)
DeliveryFails ==
    /\ \/ /\ batch.step = "next"
          /\ \E c \in batch.todo : batch' = [batch EXCEPT !.todo = @ \ {c}]
       \/ /\ batch.step \in {"inspect", "recover", "reinspect", "again"}
          /\ NextDelivery
    /\ UNCHANGED <<work, rows, engine, executing, entered>>

(* A call of the batch throws out of dispatchWork, or the object is reset:  *)
(* the promise is settled and the next alarm begins a new batch.            *)
BatchFails ==
    /\ batch.step # "idle" /\ batch' = NoBatch
    /\ UNCHANGED <<work, rows, engine, executing, entered>>

-----------------------------------------------------------------------------
(* The workflow of a claim *)

(* mutant: a step that is run again executes the claim again *)
MayBeginAgain(c) == IsCurrentClaim(c) /\ rows[c].present /\ ~rows[c].due

(* begin_worker_dispatch, under the lock of the job. *)
MayBegin(c) == /\ IsCurrentClaim(c)
               /\ rows[c].present /\ ~rows[c].started /\ ~rows[c].due

(* The step's body.  The engine may run it again, since it records only     *)
(* that a step has ended.                                                   *)
BeginExecution(c) ==
    /\ engine[c].step = "execute"
    /\ IF MayBegin(c)
       THEN /\ rows' = [rows EXCEPT ![c].started = TRUE]
            /\ executing' = executing \cup {c}
            /\ entered' = [entered EXCEPT ![c] = @ + 1]
            /\ UNCHANGED engine
       ELSE /\ engine' = [engine EXCEPT ![c].step = "inspect"]
            /\ UNCHANGED <<rows, executing, entered>>
    /\ UNCHANGED <<work, batch>>

(* The step times out or its isolate is lost: the workflow goes on to       *)
(* recover while the body may still run.                                    *)
ExecutionInterrupted(c) ==
    /\ engine[c].step = "execute" /\ rows[c].started
    /\ engine' = [engine EXCEPT ![c].step = "inspect"]
    /\ UNCHANGED <<work, rows, executing, entered, batch>>

ExecutionDies(c) ==
    /\ c \in executing
    /\ executing' = executing \ {c}
    /\ UNCHANGED <<work, rows, engine, entered, batch>>

(* runClaimedJob settles, and with it the step, unless it was given up. *)
ExecutionEnds(c) ==
    /\ c \in executing
    /\ executing' = executing \ {c}
    /\ engine' = [engine EXCEPT ![c].step = IF @ = "execute" THEN "over" ELSE @]
    /\ UNCHANGED <<work, rows, entered, batch>>

(* What the execution does to its claim: start, publish, complete, fail. *)
ExecutionWrites(c) ==
    /\ c \in executing /\ IsCurrentClaim(c)
    /\ \/ RunOf(c) = "none" /\ work' = [work EXCEPT ![c[1]].run = "running"]
       \/ RunOf(c) = "running" /\ work' = [work EXCEPT ![c[1]].run = "success"]
       \/ RunOf(c) = "success" /\ work' = AfterCompletion(c)
       \/ /\ RunOf(c) \in {"none", "running"}
          /\ \E retry \in BOOLEAN : work' = AfterFailure(c, retry)
    /\ UNCHANGED <<rows, engine, executing, entered, batch>>

(* Recovery of a claim that has moved on finds it stale and changes nothing. *)
EngineLooks(c) ==
    /\ engine[c].step \in {"inspect", "reinspect"}
    /\ engine' = [engine EXCEPT ![c] =
          IF ~IsCurrentClaim(c) THEN [step |-> "over", saw |-> "-"]
          ELSE [saw |-> RunOf(c),
                step |-> IF @.step = "inspect" THEN "recover" ELSE "again"]]
    /\ UNCHANGED <<work, rows, executing, entered, batch>>

EngineSettles(c) ==
    /\ engine[c].step \in {"recover", "again"}
    /\ SettlesAsSeen(c, engine[c].saw, TRUE)
    /\ engine' = [engine EXCEPT ![c] =
          IF @.step = "recover" /\ FoundStale(c, @.saw)
          THEN [@ EXCEPT !.step = "reinspect"]
          ELSE [step |-> "over", saw |-> "-"]]
    /\ UNCHANGED <<rows, executing, entered, batch>>

(* Recovery failed as often as the engine retries it. *)
RecoveryFails(c) ==
    /\ engine[c].step \in {"inspect", "reinspect", "recover", "again"}
    /\ engine' = [engine EXCEPT ![c] = [step |-> "over", saw |-> "-"]]
    /\ UNCHANGED <<work, rows, executing, entered, batch>>

(* The maintenance workflow's stall sweep, for claims nobody executes. *)
StallSweep(c) ==
    /\ IsCurrentClaim(c) /\ c \notin executing
    /\ SettlesAsSeen(c, RunOf(c), TRUE)
    /\ UNCHANGED <<rows, engine, executing, entered, batch>>

DeadlinePasses(c) ==
    /\ IsCurrentClaim(c) /\ rows[c].present /\ ~rows[c].due
    /\ rows' = [rows EXCEPT ![c].due = TRUE]
    /\ UNCHANGED <<work, engine, executing, entered, batch>>

-----------------------------------------------------------------------------
BatchStep == \/ LoadPending \/ DeliverPending \/ ClaimDispatch \/ NothingToClaim
             \/ EnsureWorkflow \/ AckDispatch
             \/ BatchLooks \/ BatchSettles
EngineStep(c) == \/ BeginExecution(c) \/ EngineLooks(c) \/ EngineSettles(c)
ClaimStep(c) == \/ EngineStep(c) \/ ExecutionInterrupted(c) \/ RecoveryFails(c)
                \/ ExecutionWrites(c) \/ ExecutionEnds(c) \/ ExecutionDies(c)
                \/ CreationLands(c) \/ StallSweep(c) \/ DeadlinePasses(c)

DispatchNext == \/ AlarmFires \/ BatchStep \/ DeliveryFails \/ BatchFails
                \/ \E c \in DispatchedClaims : ClaimStep(c)

-----------------------------------------------------------------------------
(* Properties *)

(* Every variable holds values of its type. *)
DispatchTypeOK ==
    /\ work \in [DJobs -> [status : {"queued", "running", "ended"},
                           attempt : 0..MaxTries, run : RunStatuses]]
    /\ rows \in [DispatchedClaims -> [present : BOOLEAN, acked : BOOLEAN,
                                      started : BOOLEAN, due : BOOLEAN]]
    /\ engine \in [DispatchedClaims ->
                     [step : EngineSteps, saw : RunStatuses \cup {"-"}]]
    /\ executing \subseteq DispatchedClaims
    /\ entered \in [DispatchedClaims -> Nat]
    /\ batch \in [step : BatchSteps, todo : SUBSET DispatchedClaims,
                  slots : 0..MaxRunning, at : DispatchedClaims \cup {NoClaim},
                  saw : RunStatuses \cup {"-"}]

(* However often a creation is repeated, a step run again or a reply lost:  *)
(* a claim is executed at most once, and only a claim whose workflow exists *)
(* counts as delivered.                                                     *)
DeliveredOnce ==
    \A c \in DispatchedClaims :
        /\ entered[c] <= 1
        /\ rows[c].acked => ~Absent(c)

(* Recovery that acts on what it saw a moment ago never fails an attempt    *)
(* that published in between.                                               *)
PublishedClaimsAreKept ==
    [][\A j \in DJobs : work[j].run = "success" =>
          work'[j].run = "success" /\ work'[j].status \in {"running", "ended"}
      ]_dispatchVars
=============================================================================
