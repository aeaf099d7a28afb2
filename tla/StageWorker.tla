------------------------------ MODULE StageWorker ------------------------------
(***************************************************************************)
(* The program between a claim and its publication, for the attempts of    *)
(* one job: the processor that runs a stage in a sandbox, the supervisor   *)
(* that bounds it, and the others that end attempts and stop sandboxes     *)
(* from what they read earlier: the stall detector, the sandbox reaper, a  *)
(* user's cancel, and the recovery of failed acquisitions.                 *)
(*                                                                         *)
(* One step is what happens between two awaits, together with the effect   *)
(* of the call awaited.  A call that takes effect may still report an      *)
(* error.  A sandbox counts as stopped from the moment its stop is asked   *)
(* for.  SandboxCustody is what these programs promise together.           *)
(***************************************************************************)
EXTENDS Naturals

CONSTANTS
    MaxClaims,     \* BOUND on the claims of the job
    Others,        \* who acts besides the workers, of OtherActors
    Budgeted,      \* the session's policy limits its elapsed execution
    Unlucky        \* BOUND the attempts whose process may die or exceed its deadline

OtherActors == {"sweep", "reaper", "user", "provider"}

ASSUME StageAssumption ==
    MaxClaims \in Nat \ {0} /\ Others \subseteq OtherActors /\ Budgeted \in BOOLEAN

Attempts == 1..MaxClaims

VARIABLES
    job,        \* agent_jobs: its status and attempt_count
    run,        \* agent_runs by attempt: status, sandbox recorded, marker
    intent,     \* session_checkpoint_publications by attempt
    copied,     \* the output is in private storage or in the database
    box,        \* the provider's sandboxes
    op,         \* workspace_resource_operations of the acquisition
    worker,     \* runStage of each attempt
    sup,        \* runClaimedJob of each attempt
    sweep,      \* one call of sweepStalledRuns
    reaper,     \* one call of reapOrphanSandboxes
    receipt,    \* runs a cancel ended, whose sandboxes it still has to stop
    beat        \* worker_heartbeats, as far as they list the job

ledger == <<job, run, intent, copied>>
boxes == <<box, op>>
programs == <<worker, sup>>
recovery == <<sweep, reaper, receipt, beat>>
vars == <<ledger, boxes, programs, recovery>>

-----------------------------------------------------------------------------
RunStates == {"none", "running", "success", "error", "canceled"}
Terminal == {"success", "error", "canceled"}
WorkerSteps == {"off", "starting", "creating", "recording", "attaching",
                "settingUp", "working", "marking", "finishing", "preparing",
                "publishing", "failing", "ending", "done", "dead"}
SupSteps == {"off", "racing", "lookup", "retire", "retired", "unresolved",
             "released", "dead"}

(* How failPipelineJob is called: which run it names, p_retry, and whether  *)
(* the variant that spares a recorded publication is used.                  *)
Failure(named, retry, preserve) ==
    [named |-> named, retry |-> retry, preserve |-> preserve]
NoFailure == Failure(FALSE, FALSE, FALSE)

NewWorker == [at |-> "off", handle |-> FALSE, retain |-> FALSE, abort |-> "none",
              fail |-> NoFailure, rejects |-> FALSE]
NewSup == [at |-> "off", lookup |-> 1, found |-> FALSE]
IdleSweep == [at |-> "idle", claim |-> 0, seen |-> "none", box |-> FALSE]
IdleReaper == [at |-> "idle", listed |-> {}, orphans |-> {}, published |-> {}]

Init ==
    /\ job = [status |-> "queued", claim |-> 0]
    /\ run = [a \in Attempts |-> [status |-> "none", box |-> FALSE, marked |-> FALSE]]
    /\ intent = [a \in Attempts |-> "none"]
    /\ copied = [a \in Attempts |-> FALSE]
    /\ box = [a \in Attempts |-> "none"] /\ op = [a \in Attempts |-> "none"]
    /\ worker = [a \in Attempts |-> NewWorker]
    /\ sup = [a \in Attempts |-> NewSup]
    /\ sweep = IdleSweep /\ reaper = IdleReaper /\ receipt = {}
    /\ beat = [lists |-> FALSE, missed |-> FALSE]

Owned(a) == job.status = "claimed" /\ job.claim = a
Holds(a) == sup[a].at \in {"racing", "lookup", "retire"}
At(a, step) == worker[a].at = step
Goto(a, step) == worker' = [worker EXCEPT ![a].at = step]

-----------------------------------------------------------------------------
(* The RPCs, as far as one job sees them *)

(* fail_session_job_attempt: by the open run of the claim, or by the claim  *)
(* when it has no run.                                                      *)
FailApplies(a, named) ==
    Owned(a) /\ run[a].status = IF named THEN "running" ELSE "none"

(* A retry that was asked for may be refused: the limit is reached, or the  *)
(* session has no use for it.                                               *)
AfterFailure(retry) == IF retry THEN {"queued", "done"} ELSE {"done"}

Recorded == {"open", "lapsed"}
Settled(a) == [intent EXCEPT ![a] = IF @ \in Recorded THEN "settled" ELSE @]

FailAttempt(a, named, retry) ==
    IF FailApplies(a, named)
    THEN /\ \E status \in AfterFailure(retry) : job' = [job EXCEPT !.status = status]
         /\ run' = [run EXCEPT ![a].status = IF named THEN "error" ELSE @]
         /\ intent' = Settled(a)
    ELSE UNCHANGED <<job, run, intent>>

(* A recorded publication is spared while it is current and within its      *)
(* deadline.                                                                *)
Spares(a) == intent[a] = "open"

(* fail_stalled_session_job_attempt *)
FailStalled(a, named, retry) ==
    IF Spares(a) THEN UNCHANGED <<job, run, intent>>
                 ELSE FailAttempt(a, named, retry)

(* claim_next_agent_job, and the scheduler's call of runClaimedJob.         *)
Claim ==
    /\ job.status = "queued" /\ job.claim < MaxClaims
    /\ job' = [status |-> "claimed", claim |-> job.claim + 1]
    /\ worker' = [worker EXCEPT ![job.claim + 1].at = "starting"]
    /\ sup' = [sup EXCEPT ![job.claim + 1].at = "racing"]
    /\ UNCHANGED <<run, intent, copied, boxes, recovery>>

-----------------------------------------------------------------------------
(* The processor: start and acquisition *)

(* What runStage makes of an exception: the attempt is failed, but after an *)
(* abort only by its own budget, for good; a supervisor does that itself.   *)
Fails(a, failure) ==
    worker' = [worker EXCEPT
        ![a].at = IF worker[a].abort = "deadline" THEN "ending" ELSE "failing",
        ![a].fail = IF worker[a].abort = "none" THEN failure
                                                ELSE Failure(TRUE, FALSE, FALSE)]

(* start_session_job_attempt takes effect only for the current claim, once. *)
StartApplies(a) == Owned(a) /\ run[a].status = "none"
Opened(a) == [run EXCEPT ![a].status = "running"]

(* The reply is a run, null, or an error; an error may hide a run.  Without *)
(* a run there is no authority, and the failure names none.                 *)
Start(a) ==
    /\ At(a, "starting")
    /\ \/ /\ StartApplies(a) /\ run' = Opened(a)
          /\ Goto(a, "creating")
       \/ /\ ~StartApplies(a) /\ UNCHANGED run
          /\ Fails(a, Failure(FALSE, FALSE, FALSE))
       \/ /\ run' \in {run} \cup IF StartApplies(a) THEN {Opened(a)} ELSE {}
          /\ Fails(a, Failure(FALSE, TRUE, FALSE))
    /\ UNCHANGED <<job, intent, copied, boxes, sup, recovery>>

(* The provider has created the sandbox; its creation may also fail, or the *)
(* activity check before it finds the run closed.                           *)
Create(a) ==
    /\ At(a, "creating") /\ worker[a].abort = "none"
    /\ \/ box' = [box EXCEPT ![a] = "up"] /\ Goto(a, "recording")
       \/ run[a].status # "running" /\ Goto(a, "ending") /\ UNCHANGED box
       \/ Fails(a, Failure(TRUE, TRUE, FALSE)) /\ UNCHANGED box
    /\ UNCHANGED <<ledger, op, sup, recovery>>

(* recordWorkspaceSandbox comes before the run learns of the sandbox.       *)
Record(a) ==
    /\ At(a, "recording") /\ worker[a].abort = "none"
    /\ op' = [op EXCEPT ![a] = "recorded"]
    /\ Goto(a, "attaching")
    /\ UNCHANGED <<ledger, box, sup, recovery>>

(* updateRunSandbox attaches to an open run only; otherwise the sandbox is  *)
(* stopped at once and the processor ends.                                  *)
Attach(a) ==
    /\ At(a, "attaching") /\ worker[a].abort = "none"
    /\ IF run[a].status = "running"
       THEN /\ run' = [run EXCEPT ![a].box = TRUE]
            /\ Goto(a, "settingUp") /\ UNCHANGED boxes
       ELSE /\ box' = [box EXCEPT ![a] = IF @ = "up" THEN "stopped" ELSE @]
            /\ \E left \in {"recorded", "failed"} : op' = [op EXCEPT ![a] = left]
            /\ Goto(a, "ending") /\ UNCHANGED run
    /\ UNCHANGED <<job, intent, copied, sup, recovery>>

(* Acquisition ends: the operation is handed over to the run, or its        *)
(* settlement fails, and then nobody holds the sandbox.                     *)
Acquired(a) ==
    /\ At(a, "settingUp") /\ worker[a].abort = "none"
    /\ \/ /\ op' = [op EXCEPT ![a] = "none"]
          /\ worker' = [worker EXCEPT ![a].at = "working", ![a].handle = TRUE]
       \/ /\ \E left \in {"none", "recorded", "failed"} : op' = [op EXCEPT ![a] = left]
          /\ Fails(a, Failure(TRUE, TRUE, FALSE))
    /\ UNCHANGED <<ledger, box, sup, recovery>>

(* Acquisition fails or is aborted: what exists is stopped, and what was    *)
(* recorded is left to recovery.  A call under way may still take effect,   *)
(* and noting the failure may fail.                                         *)
AcquisitionFails(a) ==
    /\ worker[a].at \in {"creating", "recording", "attaching", "settingUp"}
    /\ box' = [box EXCEPT ![a] = IF @ = "up" THEN "stopped" ELSE @]
    /\ \E left \in IF At(a, "creating") THEN {op[a]}
                   ELSE {op[a], "recorded", "failed"} : op' = [op EXCEPT ![a] = left]
    /\ \/ UNCHANGED run
       \/ /\ At(a, "attaching") /\ run[a].status = "running"
          /\ run' = [run EXCEPT ![a].box = TRUE]
    /\ Fails(a, Failure(TRUE, TRUE, FALSE))
    /\ UNCHANGED <<job, intent, copied, sup, recovery>>

-----------------------------------------------------------------------------
(* The processor: the agent, its output, and the end *)

(* stopSandbox: a no-op without a handle or while the source is retained.   *)
StopsBox(a) == worker[a].handle /\ ~worker[a].retain
BoxAfterStop(a) ==
    [box EXCEPT ![a] = IF StopsBox(a) /\ @ = "up" THEN "stopped" ELSE @]

(* mutant: the failure does not ask whether the output was recorded         *)
UnpreparedForGood == Failure(TRUE, FALSE, FALSE)

(* SourcePreservationError: no retry, and a recorded output is spared.      *)
Unprepared == Failure(TRUE, FALSE, TRUE)

(* The agent fails, or the output is unusable: no retry is asked for while  *)
(* the source is retained.                                                  *)
AgentFails(a) ==
    /\ worker[a].at \in {"working", "finishing"}
    /\ \E preserve \in IF At(a, "working") THEN {FALSE} ELSE BOOLEAN :
          Fails(a, IF preserve THEN Unprepared
                   ELSE Failure(TRUE, ~worker[a].retain, FALSE))
    /\ UNCHANGED <<ledger, boxes, sup, recovery>>

(* A write guarded by the run finds it closed: another party ended it.      *)
OwnershipLost(a) ==
    /\ worker[a].at \in {"working", "finishing"} /\ run[a].status # "running"
    /\ Goto(a, "ending")
    /\ UNCHANGED <<ledger, boxes, sup, recovery>>

(* The agent reports completion: from this moment the sandbox is retained,  *)
(* before anything is awaited.                                              *)
AgentCompletes(a) ==
    /\ At(a, "working")
    /\ worker' = [worker EXCEPT ![a].at = "marking", ![a].retain = TRUE]
    /\ UNCHANGED <<ledger, boxes, sup, recovery>>

MayMark(a) == run[a].status = "running"
Marked(a) == [run EXCEPT ![a].marked = TRUE]

(* The marker is recorded, refused because the run was closed, or its write *)
(* fails or times out, and may or may not have taken effect.                *)
Mark(a) ==
    /\ At(a, "marking")
    /\ \/ MayMark(a) /\ run' = Marked(a) /\ Goto(a, "finishing")
       \/ /\ ~MayMark(a) /\ UNCHANGED run
          /\ worker' = [worker EXCEPT ![a].at = "ending", ![a].retain = FALSE]
       \/ UNCHANGED run /\ Goto(a, "finishing")
    /\ UNCHANGED <<job, intent, copied, boxes, sup, recovery>>

(* prepareSourceDelivery: the bundle is uploaded (or there is nothing to    *)
(* upload), which makes it durable; otherwise it goes with the next call.   *)
Upload(a) ==
    /\ At(a, "finishing")
    /\ \/ /\ copied' = [copied EXCEPT ![a] = TRUE]
          /\ worker' = [worker EXCEPT ![a].at = "preparing", ![a].retain = FALSE]
       \/ Goto(a, "preparing") /\ UNCHANGED copied
    /\ UNCHANGED <<job, run, intent, boxes, sup, recovery>>

(* Source and intent are recorded and the marker is cleared in one          *)
(* transaction; it refuses a run that is not current; its reply may be lost.*)
MayPrepare(a) == Owned(a) /\ run[a].status = "running"
Prepared(a) ==
    /\ intent' = [intent EXCEPT ![a] = "open"]
    /\ copied' = [copied EXCEPT ![a] = TRUE]
    /\ run' = [run EXCEPT ![a].marked = FALSE]

Prepare(a) ==
    /\ At(a, "preparing")
    /\ \/ /\ MayPrepare(a) /\ Prepared(a)
          /\ worker' = [worker EXCEPT ![a].at = "publishing", ![a].retain = FALSE]
       \/ /\ ~MayPrepare(a) /\ Goto(a, "ending")
          /\ UNCHANGED <<intent, copied, run>>
       \/ /\ \/ MayPrepare(a) /\ Prepared(a)
             \/ UNCHANGED <<intent, copied, run>>
          /\ Fails(a, Unprepared)
    /\ UNCHANGED <<job, boxes, sup, recovery>>

(* publishSessionCheckpoint is over: adopted, given up, or still pending.   *)
Publish(a) ==
    /\ At(a, "publishing")
    /\ Goto(a, "ending")
    /\ UNCHANGED <<ledger, boxes, sup, recovery>>

(* failPipelineJob; when the call itself fails, the processor rejects.      *)
Fail(a) ==
    /\ At(a, "failing")
    /\ LET f == worker[a].fail
       IN  \/ /\ IF f.preserve THEN FailStalled(a, f.named, f.retry)
                               ELSE FailAttempt(a, f.named, f.retry)
              /\ worker' = [worker EXCEPT ![a].at = "ending", ![a].fail = NoFailure]
           \/ /\ UNCHANGED <<job, run, intent>>
              /\ worker' = [worker EXCEPT ![a].at = "ending", ![a].fail = NoFailure,
                                          ![a].rejects = TRUE]
    /\ UNCHANGED <<copied, boxes, sup, recovery>>

(* finally: the sandbox is let go, and stopped unless it is retained.       *)
End(a) ==
    /\ At(a, "ending")
    /\ box' = BoxAfterStop(a)
    /\ worker' = [worker EXCEPT ![a] =
          [NewWorker EXCEPT !.at = "done", !.rejects = worker[a].rejects /\ Holds(a)]]
    /\ UNCHANGED <<ledger, op, sup, recovery>>

(* The signal is checked after each call. *)
ObserveAbort(a) ==
    /\ worker[a].abort # "none"
    /\ worker[a].at \in {"working", "finishing", "preparing", "publishing"}
    /\ Fails(a, NoFailure)
    /\ UNCHANGED <<ledger, boxes, sup, recovery>>

(* onAbort asks for the stop at once, since the awaited step may hang.      *)
(* Once the processor handles a failure, it reads the signal no more.       *)
Abort(a, cause) ==
    worker' = [worker EXCEPT
        ![a].abort = IF worker[a].at \in {"failing", "ending"} THEN @ ELSE cause,
        ![a].handle = @ /\ ~StopsBox(a)]

(* The timer of the session's execution budget. *)
BudgetExpires(a) ==
    /\ Budgeted
    /\ worker[a].at \notin {"off", "starting", "failing", "ending", "done", "dead"}
    /\ worker[a].abort = "none"
    /\ Abort(a, "budget") /\ box' = BoxAfterStop(a)
    /\ UNCHANGED <<ledger, op, sup, recovery>>

-----------------------------------------------------------------------------
(* The supervisor *)

GotoSup(a, step) == sup' = [sup EXCEPT ![a].at = step]

(* The processor settled: its claim is released, or recovered.              *)
Settles(a) ==
    /\ sup[a].at = "racing" /\ At(a, "done")
    /\ GotoSup(a, IF worker[a].rejects THEN "lookup" ELSE "released")
    /\ UNCHANGED <<ledger, boxes, worker, recovery>>

(* The claim's deadline: abort, and recover without waiting.                *)
DeadlinePasses(a) ==
    /\ a \in Unlucky
    /\ sup[a].at = "racing" /\ ~At(a, "done")
    /\ GotoSup(a, "lookup")
    /\ Abort(a, "deadline") /\ box' = BoxAfterStop(a)
    /\ UNCHANGED <<ledger, op, recovery>>

Lookup(a) ==
    /\ sup[a].at = "lookup"
    /\ sup' = [sup EXCEPT ![a].at = "retire", ![a].found = run[a].status # "none"]
    /\ UNCHANGED <<ledger, boxes, worker, recovery>>

(* mutant: a run that started between the lookup and the failure is missed  *)
RetriesNever(a) == FALSE

(* A failure without a run was refused: a run appeared after the lookup, or *)
(* the attempt is over.                                                     *)
RetriesLookup(a) ==
    /\ ~sup[a].found /\ sup[a].lookup = 1
    /\ ~Spares(a) /\ ~FailApplies(a, FALSE)

Retire(a) ==
    /\ sup[a].at = "retire"
    /\ FailStalled(a, sup[a].found, FALSE)
    /\ sup' = [sup EXCEPT ![a] = IF RetriesLookup(a)
                                THEN [NewSup EXCEPT !.at = "lookup", !.lookup = 2]
                                ELSE [NewSup EXCEPT !.at = "retired"]]
    /\ UNCHANGED <<copied, boxes, worker, recovery>>

(* Recovery has ten seconds, and its calls may fail. *)
RecoveryFails(a) ==
    /\ sup[a].at \in {"lookup", "retire"}
    /\ sup' = [sup EXCEPT ![a] = [NewSup EXCEPT !.at = "unresolved"]]
    /\ UNCHANGED <<ledger, boxes, worker, recovery>>

(* The process dies: neither the program nor its supervisor goes on.        *)
Crash(a) ==
    /\ a \in Unlucky
    /\ Holds(a) \/ worker[a].at \notin {"off", "done", "dead"}
    /\ worker' = [worker EXCEPT ![a] = [NewWorker EXCEPT !.at = "dead"]]
    /\ sup' = [sup EXCEPT ![a] = [NewSup EXCEPT !.at = "dead"]]
    /\ UNCHANGED <<ledger, boxes, recovery>>

-----------------------------------------------------------------------------
(* Publication, a user, the provider *)

(* adopt_session_checkpoint_publication: success of run and job.            *)
Adopt(a) ==
    /\ intent[a] = "open" /\ Owned(a) /\ run[a].status = "running"
    /\ intent' = Settled(a)
    /\ run' = [run EXCEPT ![a].status = "success"]
    /\ job' = [job EXCEPT !.status = "done"]
    /\ beat' = [beat EXCEPT !.missed = ~beat.lists]
    /\ UNCHANGED <<copied, boxes, programs, sweep, reaper, receipt>>

(* The deadline of the execution passes, or the session, its workspace or   *)
(* its repository is no longer as the output needs it.  (Were it to be so   *)
(* again before anybody looked, nothing would have happened.)               *)
IntentLapses(a) ==
    /\ intent[a] = "open"
    /\ intent' = [intent EXCEPT ![a] = "lapsed"]
    /\ UNCHANGED <<job, run, copied, boxes, programs, recovery>>

(* Maintenance gives a lapsed intent up: at its deadline it fails the run   *)
(* too, otherwise it leaves the run to the stall detector.                  *)
GiveUpIntent(a) ==
    /\ intent[a] = "lapsed"
    /\ \/ FailAttempt(a, TRUE, FALSE)
       \/ intent' = Settled(a) /\ UNCHANGED <<job, run>>
    /\ UNCHANGED <<copied, boxes, programs, recovery>>

(* cancel_session_job_attempts: the runs it ended are its receipt.          *)
Cancel ==
    /\ job.status # "done"
    /\ job' = [job EXCEPT !.status = "done"]
    /\ LET ended == {a \in Attempts : run[a].status = "running"}
       IN  /\ run' = [a \in Attempts |-> IF a \in ended
                        THEN [run[a] EXCEPT !.status = "canceled"] ELSE run[a]]
           /\ intent' = [a \in Attempts |-> IF a \in ended /\ intent[a] \in Recorded
                                            THEN "settled" ELSE intent[a]]
           /\ receipt' = receipt \cup ended
    /\ UNCHANGED <<copied, boxes, programs, sweep, reaper, beat>>

Stopped(a) == [box EXCEPT ![a] = IF @ = "up" THEN "stopped" ELSE @]

(* cleanupSessionWorkReceipt stops what its runs have recorded by now; it   *)
(* may fail, or die, before it comes to a run.                              *)
CleanUp(a) ==
    /\ a \in receipt /\ receipt' = receipt \ {a}
    /\ box' \in {box, IF run[a].box THEN Stopped(a) ELSE box}
    /\ UNCHANGED <<ledger, op, programs, sweep, reaper, beat>>

(* The provider's lifetime of a sandbox is over. *)
Expire(a) ==
    /\ box[a] = "up"
    /\ box' = [box EXCEPT ![a] = "expired"]
    /\ UNCHANGED <<ledger, op, programs, recovery>>

(* hasRetainedSandboxSource: the provider knows of no filesystem any more.  *)
ConfirmGone(a) ==
    /\ run[a].marked /\ run[a].status \in Terminal
    /\ box[a] \in {"stopped", "expired"}
    /\ run' = [run EXCEPT ![a].marked = FALSE]
    /\ UNCHANGED <<job, intent, copied, boxes, programs, recovery>>

(* mutant: only what its creator settled is recovered                       *)
SettledOnly(a) == op[a] = "failed"

(* An acquisition that was settled as failed, or whose recovery is due,     *)
(* which is after any acquisition has ended.                                *)
RecoveryDue(a) ==
    \/ op[a] = "failed"
    \/ op[a] = "recorded" /\ worker[a].at \notin {"attaching", "settingUp"}

(* cleanupResourceReservations of one acquisition. *)
RecoverOperation(a) ==
    /\ RecoveryDue(a)
    /\ box' = Stopped(a) /\ op' = [op EXCEPT ![a] = "none"]
    /\ UNCHANGED <<ledger, programs, recovery>>

-----------------------------------------------------------------------------
(* Heartbeats: does a row at most 60 s old list the job?  The history       *)
(* "missed" says that none did at some moment since the output was          *)
(* published.                                                               *)

(* A process that holds a claim of the job writes its list.  (A write that  *)
(* lands after the claim was released only lets the row list it longer.)    *)
Heartbeat ==
    /\ ~beat.lists /\ \E a \in Attempts : Holds(a)
    /\ beat' = [beat EXCEPT !.lists = TRUE]
    /\ UNCHANGED <<ledger, boxes, programs, sweep, reaper, receipt>>

(* Writes fail for a minute, or an older list lands last, or the claim was  *)
(* released: WorkerProcess.                                                 *)
HeartbeatLapses ==
    /\ beat.lists
    /\ beat' = [lists |-> FALSE,
                missed |-> beat.missed \/ \E a \in Attempts : run[a].status = "success"]
    /\ UNCHANGED <<ledger, boxes, programs, sweep, reaper, receipt>>

-----------------------------------------------------------------------------
(* The stall detector: each of its reads may be stale when it is used *)

(* mutant: the statuses of an active job instead of a claimed one           *)
SweepsActive == job.status # "done"

SweepsClaimed == job.status = "claimed"

(* A claimed job that no fresh heartbeat lists.  (The job is read first: a  *)
(* claim that is over when the heartbeats are read has nothing left to fail.)*)
SweepJobs ==
    /\ sweep.at = "idle" /\ SweepsClaimed /\ ~beat.lists
    /\ sweep' = [IdleSweep EXCEPT !.at = "runs", !.claim = job.claim]
    /\ UNCHANGED <<ledger, boxes, programs, reaper, receipt, beat>>

SweepRuns ==
    /\ sweep.at = "runs"
    /\ LET r == run[sweep.claim]
       IN  sweep' = IF r.status \in Terminal THEN IdleSweep
                    ELSE [sweep EXCEPT !.at = "fail", !.seen = r.status, !.box = r.box]
    /\ UNCHANGED <<ledger, boxes, programs, reaper, receipt, beat>>

SweepFail ==
    /\ sweep.at = "fail"
    /\ LET a == sweep.claim  named == sweep.seen = "running"
       IN  /\ FailStalled(a, named, TRUE)
           /\ sweep' = IF ~Spares(a) /\ FailApplies(a, named) /\ sweep.box
                       THEN [sweep EXCEPT !.at = "reread"] ELSE IdleSweep
    /\ UNCHANGED <<copied, boxes, programs, reaper, receipt, beat>>

MayStopRetired(a) ==
    run[a].status = "error" /\ ~run[a].marked /\ run[a].box = sweep.box

SweepReread ==
    /\ sweep.at = "reread"
    /\ sweep' = IF MayStopRetired(sweep.claim) THEN [sweep EXCEPT !.at = "stop"]
                                               ELSE IdleSweep
    /\ UNCHANGED <<ledger, boxes, programs, reaper, receipt, beat>>

SweepStop ==
    /\ sweep.at = "stop"
    /\ box' = Stopped(sweep.claim) /\ sweep' = IdleSweep
    /\ UNCHANGED <<ledger, op, programs, reaper, receipt, beat>>

SweepDies ==
    /\ sweep.at # "idle" /\ sweep' = IdleSweep
    /\ UNCHANGED <<ledger, boxes, programs, reaper, receipt, beat>>

-----------------------------------------------------------------------------
(* The sandbox reaper: the provider's list, then runs, then jobs *)

ReaperList ==
    /\ reaper.at = "idle" /\ \E a \in Attempts : box[a] = "up"
    /\ reaper' = [IdleReaper EXCEPT !.at = "runs",
                     !.listed = {a \in Attempts : box[a] = "up"}]
    /\ UNCHANGED <<ledger, boxes, programs, sweep, receipt, beat>>

(* Only what a run recorded is known; open and marked runs keep theirs.     *)
Orphaned(a) == run[a].box /\ run[a].status \in Terminal /\ ~run[a].marked

ReaperRuns ==
    /\ reaper.at = "runs"
    /\ LET found == {a \in reaper.listed : Orphaned(a)}
       IN  reaper' = [reaper EXCEPT !.at = "jobs", !.listed = {}, !.orphans = found,
                        !.published = {a \in found : run[a].status = "success"}]
    /\ UNCHANGED <<ledger, boxes, programs, sweep, receipt, beat>>

(* mutant: a finished job protects nothing *)
ProtectedWhileOpen(a) == job.claim = a /\ job.status # "done"

(* loadSandboxProtectedJobAttempts: a published run keeps its sandbox while *)
(* its claim is open, or a fresh heartbeat lists its job.                   *)
Protected(a) == job.claim = a /\ (job.status # "done" \/ beat.lists)

ReaperJobs ==
    /\ reaper.at = "jobs"
    /\ LET left == reaper.orphans \ {a \in reaper.published : Protected(a)}
       IN  reaper' = IF left = {} THEN IdleReaper
                     ELSE [IdleReaper EXCEPT !.at = "stop", !.orphans = left]
    /\ UNCHANGED <<ledger, boxes, programs, sweep, receipt, beat>>

ReaperStop ==
    /\ reaper.at = "stop"
    /\ \E a \in reaper.orphans :
          /\ box' = Stopped(a)
          /\ reaper' = IF reaper.orphans = {a} THEN IdleReaper
                       ELSE [reaper EXCEPT !.orphans = @ \ {a}]
    /\ UNCHANGED <<ledger, op, programs, sweep, receipt, beat>>

-----------------------------------------------------------------------------
ProcessorStep(a) ==
    \/ Start(a) \/ Create(a) \/ Record(a) \/ Attach(a) \/ Acquired(a)
    \/ AcquisitionFails(a) \/ AgentFails(a) \/ OwnershipLost(a)
    \/ AgentCompletes(a) \/ Mark(a) \/ Upload(a) \/ Prepare(a) \/ Publish(a)
    \/ Fail(a) \/ End(a) \/ ObserveAbort(a) \/ BudgetExpires(a)
SupervisorStep(a) ==
    \/ Settles(a) \/ DeadlinePasses(a) \/ Lookup(a) \/ Retire(a)
    \/ RecoveryFails(a) \/ Crash(a)
LedgerStep(a) == Adopt(a) \/ IntentLapses(a) \/ GiveUpIntent(a) \/ RecoverOperation(a)
UserStep == Cancel \/ \E a \in Attempts : CleanUp(a)
ProviderStep(a) == Expire(a) \/ ConfirmGone(a)
Sweep == SweepJobs \/ SweepRuns \/ SweepFail \/ SweepReread \/ SweepStop \/ SweepDies
Reap == ReaperList \/ ReaperRuns \/ ReaperJobs \/ ReaperStop

Next ==
    \/ Claim \/ Heartbeat \/ HeartbeatLapses
    \/ \E a \in Attempts : ProcessorStep(a) \/ SupervisorStep(a) \/ LedgerStep(a)
    \/ "sweep" \in Others /\ Sweep
    \/ "reaper" \in Others /\ Reap
    \/ "user" \in Others /\ UserStep
    \/ "provider" \in Others /\ \E a \in Attempts : ProviderStep(a)

Spec == Init /\ [][Next]_vars

-----------------------------------------------------------------------------
(* Fairness: the maintenance timers call the stall detector, the reaper and *)
(* the recovery of acquisitions every 30 s (index.ts), and a publication is *)
(* adopted or reaches its deadline.  A stall sweep may die, though not      *)
(* every time at the same place.  A supervisor whose processor settled goes *)
(* on, within its ten seconds.  What nobody holds is not listed for longer  *)
(* than a minute.  No processor and no heartbeat is bound to do anything.   *)
SweepDead == SweepJobs /\ ~Holds(job.claim)
Fairness ==
    /\ WF_vars(SweepDead) /\ SF_vars(SweepRuns) /\ SF_vars(SweepFail)
    /\ WF_vars(SweepReread) /\ WF_vars(SweepStop)
    /\ WF_vars(HeartbeatLapses /\ \A a \in Attempts : ~Holds(a))
    /\ WF_vars(ReaperList) /\ WF_vars(ReaperRuns) /\ WF_vars(ReaperJobs)
    /\ \A a \in Attempts : /\ WF_vars(Settles(a) \/ Lookup(a) \/ Retire(a)
                                       \/ RecoveryFails(a))
                            /\ WF_vars(IntentLapses(a)) /\ WF_vars(GiveUpIntent(a))
                            /\ WF_vars(RecoverOperation(a))
                            /\ WF_vars(ReaperStop /\ a \in reaper.orphans)
FairSpec == Spec /\ Fairness

-----------------------------------------------------------------------------
(* Properties *)

(* Rows and programs hold values of their types; a run has a recorded       *)
(* sandbox or a marker only once it was started.                            *)
StageTypeOK ==
    /\ job \in [status : {"queued", "claimed", "done"}, claim : 0..MaxClaims]
    /\ run \in [Attempts -> [status : RunStates, box : BOOLEAN, marked : BOOLEAN]]
    /\ \A a \in Attempts : run[a].box \/ run[a].marked => run[a].status # "none"
    /\ intent \in [Attempts -> {"none", "open", "lapsed", "settled"}]
    /\ copied \in [Attempts -> BOOLEAN]
    /\ box \in [Attempts -> {"none", "up", "stopped", "expired"}]
    /\ op \in [Attempts -> {"none", "recorded", "failed"}]
    /\ worker \in [Attempts -> [at : WorkerSteps, handle : BOOLEAN, retain : BOOLEAN,
                    abort : {"none", "deadline", "budget"}, rejects : BOOLEAN,
                    fail : [named : BOOLEAN, retry : BOOLEAN, preserve : BOOLEAN]]]
    /\ sup \in [Attempts -> [at : SupSteps, lookup : 1..2, found : BOOLEAN]]
    /\ sweep \in [at : {"idle", "runs", "fail", "reread", "stop"}, claim : 0..MaxClaims,
                  seen : RunStates, box : BOOLEAN]
    /\ sweep.at # "idle" => sweep.claim \in Attempts
    /\ reaper \in [at : {"idle", "runs", "jobs", "stop"}, listed : SUBSET Attempts,
                   orphans : SUBSET Attempts, published : SUBSET Attempts]
    /\ receipt \subseteq Attempts
    /\ beat \in [lists : BOOLEAN, missed : BOOLEAN]

(* A published run is in force for its worker's cleanup while the claim is  *)
(* held and has been listed by a fresh heartbeat ever since it published:   *)
(* after a minute without one the reaper takes the sandbox for abandoned.   *)
(* A canceled run was discarded by a user.                                  *)
AuthorityOf(a) ==
    CASE run[a].status = "none" -> "none"
      [] run[a].status = "running" -> "open"
      [] run[a].status = "canceled" -> "discarded"
      [] run[a].status = "error" -> "over"
      [] OTHER -> IF worker[a].handle /\ Holds(a) /\ ~beat.missed
                  THEN "open" ELSE "over"
WorkOf(a) == IF copied[a] THEN "copied" ELSE IF run[a].marked THEN "boxed" ELSE "none"

Custody == INSTANCE SandboxCustody WITH
    authority <- [a \in Attempts |-> AuthorityOf(a)],
    used <- [a \in Attempts |-> worker[a].handle],
    work <- [a \in Attempts |-> WorkOf(a)]

(* Whatever the stall detector, the reaper, a cancel or the recovery of     *)
(* acquisitions read before they act: no sandbox in use is taken from its   *)
(* worker while the attempt is in force (AuthorityOf), and none that holds  *)
(* the only copy of completed work is stopped.                              *)
SandboxesAreInCustody == Custody!Spec

(* When retireAttempt returns, the attempt is over or had its output        *)
(* recorded: a start that was under way has not left a run behind.          *)
RetireMeansOver ==
    \A a \in Attempts : sup[a].at = "retired" /\ Owned(a) => intent[a] # "none"

(* Once the output of an attempt is recorded, and until it lapses, only the *)
(* session's elapsed budget fails it, and without a retry: neither a sweep  *)
(* or a supervisor that takes the worker for dead, nor a processor that     *)
(* never learned that its output was recorded, starts the work again.       *)
(* (Lapsed output is failed and retried like any other.)                    *)
OnlyBudgetFailsPreparedWork ==
    [][\A a \in Attempts :
         intent[a] = "open" /\ run[a].status = "running" /\ run'[a].status = "error"
         => job'.status # "queued" /\ worker[a].abort = "budget"]_vars

(* The worker is gone, and some record names the sandbox.                   *)
Abandoned(a) ==
    /\ box[a] = "up" /\ worker[a].at \in {"done", "dead"} /\ ~run[a].marked
    /\ run[a].box \/ op[a] # "none"

(* A sandbox that outlives its worker, and holds nothing to keep, does not  *)
(* run for ever: wherever the worker died, some record leads to its stop.   *)
AbandonedSandboxIsStopped ==
    \A a \in Attempts : Abandoned(a) ~> box[a] # "up" \/ run[a].marked
=============================================================================
