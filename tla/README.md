# TLA+ model of the Wallie pipeline

Wallie turns a session (an issue, or a prompt) into a pull request. A session
runs through an ordered list of pipeline stages. A worker executes one stage
in a sandbox and publishes one reviewable artifact; a person, or Linear,
approves it (advance) or rejects it (repair). Durable state lives in Postgres
and is written by security-fenced RPCs (`src/supabase/migrations`); workers,
maintenance timers, web routes and webhooks call those RPCs concurrently, with
handles that may be minutes old.

This directory models the durable core of that system (what the RPCs do to a
session, and the protocols that run across several RPCs, processes and the Git
remote) and the programs that run around it: the worker process, the stage
program in it, the recovery programs that act on what they read earlier, the
Cloudflare dispatcher, and the claims under which pull requests are published
and users are signed in.

| Part | Modules | State of the work |
|---|---|---|
| A session in the database | `SessionLifecycle` | checked, proved about |
| Publication and cleanup of checkpoints | `CheckpointPublication`, `CheckpointCleanup` | checked, proved about; both implement `SessionLifecycle` |
| The attempt of a stage and its sandbox | `StageWorker`, which implements `SandboxCustody` | checked, proved about |
| The worker process | `WorkerProcess` | checked, proved about |
| The pull request of a session | `CanonicalPr` | checked, proved about |
| Moves of a Linear issue | `LinearTransitions`; run with the two former in `WorkerServices` (safety) and with the process in `ReconcilingWorker` (liveness) | checked, proved about |
| The Cloudflare deployment | `CloudflareDispatch` | checked, proved about |
| Signing in to Cursor | `CursorAuth`, which implements `FencedLease`; run together with the former in `CloudflareServices` | checked, proved about |

The `MC…` modules hold model values, sets and symmetry for the runs, the
`…Proofs` modules the proofs.

## 1. Inventory

| Component | State it keeps | Operations | Talks to | Hard behaviour | What makes it correct |
|---|---|---|---|---|---|
| **Session lifecycle RPCs** (`20261002235347_execution_ownership_contract.sql`, `20261002215533_canonical_session_queue.sql`, `20261011015321_enforce_publication_attempt_deadline.sql`, and their latest replacements in `20261106200000…`, `20261106220000…`) | `sessions`, `agent_jobs`, `agent_runs`, `session_artifacts`, `session_phase_completions` | claim, start, publish, complete, fail, enqueue, approve, reject, reroute, cancel, archive, unarchive | workers, web routes, Linear, maintenance | late callers with old claims; a review racing a retry for the one queue key; stage numbers that recur after a reroute | one execution owns a session; published history stands; nothing strands a session in progress |
| **Execution budgets** (`20261106220000_execution_budgets_usage_accounting.sql`) | `repair_attempts_used`, `execution_exhausted_at/code`, usage of runs | refresh, reserve a repair, exhaust, insert trigger | every lifecycle RPC | a limit reached between two RPCs; a reservation inside a transaction that is rolled back | a repair takes exactly one slot; nothing runs after exhaustion |
| **Release control** (`20261105155835…`, `20261105170916…`) | one row `enabled, revision`; `session_job_release_deferrals` | switch, defer a claim | claim and start | a pause between claim and start; a deferral whose reply is lost | a paused claim costs no retry and never executed anything |
| **Checkpoint publication** (`20261105063617…`, `checkpoint-publication.ts`, `source-delivery-git-core.ts`) | `session_checkpoint_publications`, retained refs on the remote | prepare, claim, assert, push, adopt, release, settle | lifecycle RPCs, GitHub, maintenance | leases that expire under a push; pushes that land after their sender died; the stall detector beside it | artifacts rest on a proved ref; completed work is not given up |
| **Checkpoint cleanup** (`20261105160211…`, `checkpoint-cleanup.ts`) | `session_checkpoint_cleanup`, retained refs | claim, assert, delete, finish, fail, guard of new consumers | publication, GitHub, other sessions | deletions that land after their cleaner gave up; new consumers of the same commit | no accepted or consumed ref is deleted; a recorded deletion is true |
| **Git lineage and handoff** (`20261105053321…`, `20261105135108…`, `git-input.ts`) | roots, pinned inputs, checkpoints, heads | pin input, record checkpoint, advance head | start, publish, approve | the head follows reviewed checkpoints although pushes are retried | every stage starts from the last accepted output |
| **Stage review and delivery gate** (`20261106200000…`) | reviews, completions | approve, deliver | lifecycle, readiness | approval racing a change | no delivery without an approval of the attempt |
| **Pull request readiness** (`pr-readiness.ts`) | readiness evidence | evaluate | GitHub checks, delivery gate | evidence that is stale when used | no delivery on stale evidence |
| **Linear transitions** (`reconciler.ts`, `apply_linear_session_transition`) | receipts of state spans | reroute, continue, done, cancel | lifecycle | late, duplicated, reordered webhooks | a span is applied once, never behind a newer one |
| **Stage worker** (`processor.ts`, `loop.ts`) | captured session snapshot, sandbox handle, abort signals | the program between claim and publication, and its supervisor | all of the above | the claim deadline against the processor; a call that fails after it took effect | an attempt has one end; the only copy of finished work is kept |
| **Worker process** (`scheduler.ts`, `lifecycle.ts`, `shutdown.ts`, `heartbeat.ts`, `index.ts`) | slots, timers, drain state | poll, run, heartbeat, drain, stop | stage worker, maintenance | stop during drain, drain during claims | no claimed job is dropped by a drain |
| **Stall detector** (`stall-detector.ts`), **sandbox reaper** (`sandbox-reaper.ts`) | snapshots of jobs, heartbeats, sandboxes | retire, reap | lifecycle, provider | reads one after the other, acted on together | a live execution is never reaped |
| **Cloudflare dispatch** (`cloudflare/dispatch.ts`, `dispatcher.ts`, `session-attempt-workflow.ts`) | dispatch rows, workflows, an alarm | claim, create workflow, acknowledge, execute, recover | lifecycle | workflow created, reply lost; a batch reset at any await | a claim is executed once, and ends |
| **Source delivery, canonical PR** (`source-delivery.ts`, `canonical-pr-publisher.ts`, `20261105151156…`) | epochs, PR operations with leases, a sync row per session | enqueue, claim, promote the branch, create, observe, finish | GitHub, webhooks | pushes and POSTs that land after their sender lost its lease | one PR per epoch; the branch only moves forward |
| **PR refresh queue** (`20261106011917…`) | queue rows with generations and leases | enqueue, claim, finish | webhooks | a webhook during a refresh | no refresh is lost |
| **Credential leases** (`lib/cursor`, `lib/codex`) | sign-in flows with a claim token, the saved credential | start, claim, poll, renew, complete, cancel, disconnect | settings page, worker, workflow | a worker that lost its claim obtains the key | a disconnected user stays disconnected |
| **Web, sandbox providers, infrastructure** | — | — | — | — | not modelled, see section 14 |

`PROJECT.json` lists each component with its sources and its hazards with the
line where each bites and the properties that watch it.

## 2. SessionLifecycle

One session: its row, its jobs, their runs, its completed stages, and the
release control. Every RPC locks `sessions`, then `agent_jobs`, then
`agent_runs` before it decides, so **one RPC is one action**. What happens
between two RPCs of a caller is arbitrary delay: an action therefore takes the
handles its caller holds (a job, a claim number, a run, an artifact, an
expected version) from everything ever handed out, and only the guards of the
code decide whether a handle still owns something.

| Variable | Table |
|---|---|
| `session` | `sessions` (phase, archived, current stage, artifact and version, exhaustion, repairs used) |
| `jobs` | `agent_jobs`: `attempt` is `attempt_count`, `release` the control revision of its claim, `repair` whether its insert asked for a repair slot |
| `runs` | `agent_runs` with the version each published; a *placeholder* is a queued run whose attempt is null (0) |
| `completed` | `session_phase_completions` |
| `control`, `deferrals` | `git_continuity_release_control`, `session_job_release_deferrals` |
| `retries`, `invalidated` | history variables (automatic retries queued; artifacts a reroute withdrew); no guard reads them |

| Action | RPC |
|---|---|
| `Claim` | `claim_next_agent_job` |
| `Start` | `start_session_job_attempt` (adopts the placeholder, closes runs of lost attempts) |
| `Publish` | `adopt_session_checkpoint_publication`: artifact and job in one transaction |
| `PublishDirect`, `Complete` | `publish_session_job_attempt` and `complete_session_job_attempt` as two calls of a worker from an earlier deployment |
| `Fail` | `fail_session_job_attempt`, with retry, repair reservation and exhaustion |
| `Defer` | `defer_session_job_for_continuity_release` |
| `Enqueue` | `enqueue_session_job_with_run` (manual retry) |
| `ApproveAndAdvance`, `ApproveDelivery` | `approve_session_stage` |
| `RejectExhausted`, `RejectAdopt`, `RejectAndRepair` | the three outcomes of `reject_session_stage` |
| `Reroute` | `apply_linear_session_transition` to a routed stage |
| `Cancel`, `Archive`, `Unarchive` | `cancel_session_job_attempts`, `archive_session_job_attempts`, `unarchiveSession` |
| `SetRelease`, `ReadBudget` | `set_git_continuity_release`, `record_session_run_usage` / `get_session_execution_budget` |

Abstractions. An artifact is named by the run that published it. Elapsed time,
tokens and spend are one nondeterministic choice (`RefreshOutcomes`): whenever
the code refreshes the exhaustion, a limit may have been reached, though never
before anything was executed. A due retry is claimable at once.
`MaxRetries` is one constant although a workspace may configure it. Stages are
positions 1..`LastStage`; renamed or aliased slugs and pipelines edited while
a session runs are not modelled. `ManualMerge` says whether the final approval
archives the session. The limit on concurrent claims of other sessions only
delays `Claim`.

### Properties

* `TypeOK` — columns hold values of their types; the version of a stage is a
  number even before anything was published (the `coalesce` of the maximum).
* `ExclusiveOwnership` — at most one active job (`OneActiveJob`); a run that
  may still publish is the newest claim of it, at the current stage of a session
  in progress (`RunningRunOwnsSession`); no claim has two runs
  (`OneRunPerClaim`).
* `InProgressHasWork` — a session shown as in progress has an active job there.
* `PublishedJobIsSettled`, `HistoryIsImmutable` — the publishing claim is its
  job's last; finished jobs and published runs never change.
* `ReviewIsCurrentArtifact` (what is under review is the newest artifact of the
  stage, and a version names one artifact), `CompletionsAreCurrent`,
  `ApprovalsAreKept` — what is reviewed, named and approved, across reroutes
  that lead back to a stage.
* `RepairsAccounted`, `ExhaustionStopsExecution` — one slot per repair, asked
  for or automatic; nothing is executed or queued after exhaustion.
* `ClaimsAccounted` — the release's credits and the retry limit agree claim by
  claim, and a claim that was credited back never executed anything.
* `CrashedWorkIsRecovered` (liveness) — while the release stays enabled, a
  session does not stay in progress behind crashed workers.

### Two disagreements between text and code

* `RejectionLeavesReceipt` (run `reject_receipt`): the migration says a
  rejection returns "a durable rejected receipt when a new repair cannot be
  admitted". A rejection that has to replace a *requeued* job without a
  placeholder skips the budget check, errors the job, is refused the
  replacement by the insert trigger, and is rolled back entirely: the reviewer
  can neither reject nor exhaust the session.
* `AdmittedRepairMayFinish` (run `final_repair`): `docs/EXECUTION-BUDGETS.md`
  says a repair admitted with the final slot may finish. A further request
  refused at the limit (a manual retry, a rework transition) marks the session
  exhausted while that repair is active; it can then neither start nor publish.

## 3. CheckpointPublication

`CheckpointPublication` EXTENDS `SessionLifecycle` and replaces its one-step
publication by the protocol that implements it. The worker records its output
as a durable *intent* (`Prepare`); from then on any *drainer*, a call of
`drainCheckpointPublications` in the original worker, in maintenance or in the
reconciler, may drive it.

| Variable | Code |
|---|---|
| `intents` | `session_checkpoint_publications`, by run: status, claim id, lease, deadline, expected version, and whether the output has code |
| `drains` | local state of each drainer: its run, the claim id it was given, its step |
| `pushes` | pushes on their way to the remote, whatever became of their sender |
| `refs` | retained refs on the remote (`refs/heads/wallie/checkpoints/<run>/<sha>`) |
| `connected` | the GitHub installation is not suspended and the repository not archived |

The claim RPC loops over candidates; each turn of its loop takes all row locks
and is one action: `SettleStale`, `SettleOverdue` or `TakeIntent`.
A drainer then asserts its claim and pushes (`BeginPush`), reads the remote
(`Verify`), adopts (`Adopt`, with or without its reply arriving), releases
after an error (`Release`), or vanishes (`Abandon`). `PushLands` and
`PushIsLost` belong to the remote: `restoreAndPushSource` pushes with an empty
expected lease, so a push creates the ref or finds it, and the code trusts only
the remote read that follows. `LeaseExpires` and `DeadlinePasses` are time.
`WorkerFail`, `RetireStalled` and `PublishUnprepared` are the lifecycle's
failure and legacy publication under the guards this protocol adds to them.

`WorkerFail` carries a fact of `processor.ts:722-759`: once the output is
prepared, only an elapsed session budget makes the worker fail the attempt, and
without a retry; every other error ends in the pending result, in the guarded
`fail_stalled_session_job_attempt`, or touches nothing.

Abstractions. The claim id is the attempt count at which it was given out
(both are fresh for each claim). Two pushes of one output create the same ref
and count as one. A backoff is over at once. The bundle, the source rows and
the usage columns are left out.

### Properties

* `PubTypeOK` — types, and the columns of an intent agree with its status.
* `ArtifactHasProof` — a run is published exactly when its intent was adopted
  (or it never had one, in an earlier deployment's worker), and an artifact of
  code has its ref on the remote.
* `CompletedWorkIsKept` — while an output is recorded, wanted and within its
  deadline, no sweep, claim deadline or unsure worker fails its attempt.
* `Spec` — the **abstract specification is `SessionLifecycle`'s**: every step
  here is a step of it or leaves its variables alone. The refinement mapping is
  the identity on the eight lifecycle variables.
* `IntentIsSettled` (liveness) — an open intent, which blocks the stall
  detector, does not block it for ever.

## 4. CheckpointCleanup

`CheckpointCleanup` EXTENDS `CheckpointPublication` with the collection of
retained refs that were never adopted: a week after an intent's deadline, a
*cleaner* (a call of `drainCheckpointCleanup`) may lease the ref and delete it.

| Variable | Code |
|---|---|
| `cleanups` | `session_checkpoint_cleanup`, by run: status, claim id, lease, count of claims |
| `cleaners` | local state of each cleaner: its run, the claim id it was given, its step |
| `deletes` | deletions on their way to the remote, whatever became of their sender |
| `aged` | runs whose publication deadline was a week ago |
| `consumers` | runs whose retained commit another session's root or input row names |

The claim RPC is `TakeCleanup` or `BlockCleanup` per candidate of its loop;
both begin with `GiveUpAttempt`, which fails an attempt that still runs and
makes the intent stale, so that no drainer can adopt it any more. A cleaner
then reads the remote, confirms its lease and sends the deletion
(`BeginDelete`), reads the remote again (`ReadAbsent`), records the receipt
(`FinishCleanup`, with or without its reply arriving), reports an error
(`FailCleanup`) or vanishes (`AbandonCleanup`). `DeleteLands` and
`DeleteIsLost` belong to the remote. `Consume` is the insert of another
session's source row, under the trigger that refuses a commit whose cleanup was
ever claimed.

`Ages` makes the one assumption about real time: a push, whose sender gives up
after a minute, has reached the remote or is lost a week after the deadline.
Nothing in the code prevents an older push from recreating a deleted ref; the
week is what makes it safe, and `DeletedStaysAbsent` rests on it. `aged` is the
database's clock at its earliest, so that a cleaner may come at once.

Abstractions. A consumer needs this very ref; one whose commit a different
adopted ref keeps reachable (`checkpoint_cleanup_has_safe_ref`) does not count,
and neither does a ref of other content. Backoffs are over at once. The
repository's numeric identity is part of `connected`.

### Properties

* `CleanTypeOK` — types, and the table's checks on claim, lease and status.
* `ArtifactHasProof` (proved for `CleanSpec`) — no cleaner, however late, takes
  the proof from an artifact.
* `ConsumedRefIsKept` — what an artifact rests on, or a session that was admitted
  builds on, stays on the remote. This is why a cleaner's claim makes the intent
  stale, whoever holds it, and why a positive claim count is a tombstone even
  during a backoff.
* `DeletedStaysAbsent` — a receipt is true and stays true.
* `CompletedWorkIsKept` (proved for `CleanSpec`) — as above, with cleaners as
  one more party that fails attempts.

## 5. StageWorker and SandboxCustody

`StageWorker` is the program that `PublishDirect`, `Prepare` and `WorkerFail`
of the modules above leave open: what happens to one claimed job between its
claim and the end of its sandbox. Seven programs act on it: `runStage` of the
processor, `runClaimedJob` that bounds it, the publication of its output, the
stall detector, the sandbox reaper, a user's cancel with its cleanup, and the
recovery of failed acquisitions. **One step is what runs between two awaits**,
with the effect of the call awaited; a call that takes effect may still report
an error, and each read of the recovery programs is a step of its own, since
the rows move on before the next one.

| Variable | Code |
|---|---|
| `job`, `run`, `intent` | the rows: status and claim of the job; status, recorded sandbox and recovery marker of each run; whether an output is recorded, in force (`open`) or `lapsed` |
| `copied` | the output is in private storage or in the database |
| `box`, `op` | the provider's sandboxes, and the `workspace_resource_operations` of their acquisition |
| `worker` | `runStage`: its step, whether it holds the sandbox and retains its source, the abort, and how it will fail the attempt |
| `sup` | `runClaimedJob`: the race with the deadline, then lookup and retirement |
| `sweep`, `reaper`, `receipt` | one call each of `sweepStalledRuns` and `reapOrphanSandboxes`, and the runs of a cancel whose sandboxes are still to stop |
| `beat` | whether a row of `worker_heartbeats` at most 60 s old lists the job, and (a history) whether none did at some moment since the output was published |

`Create`, `Record`, `Attach`, `Acquired` and `AcquisitionFails` are the
acquisition; `AgentCompletes`, `Mark`, `Upload`, `Prepare`, `Publish` the way
of the output; `Fail`, `End` and `ObserveAbort` the ways out; `Settles`,
`DeadlinePasses`, `Lookup`, `Retire` the supervisor; `Crash` ends both.

What a recovery program knows of a live worker is the heartbeat row, never the
truth: `Heartbeat` and `HeartbeatLapses` say that a worker which holds a claim
may or may not be listed, since writes fail, time out and overtake each other
(`WorkerProcess` models how, and promises no more than that a held job is listed
eventually). The stall detector takes a claimed job that is not listed for
stalled, and the reaper then protects a finished one no longer.

A recorded output is spared by `fail_stalled_session_job_attempt` only while its
intent is current and within its deadline (`Spares`). `IntentLapses` ends that at
any moment; from then on the call fails the attempt like
`fail_session_job_attempt`, with the retry its caller asked for (the stall
detector's is true, the supervisor's false), until maintenance gives the intent
up (`GiveUpIntent`) or the failure settles it.

*Abstract specification.* `SandboxCustody` says what these programs promise
together: authority over an attempt is given once and does not come back; a
sandbox in use is not taken from its worker; a sandbox that holds the only copy
of completed work is not stopped, unless a user discarded the run. The mapping
takes `authority` from the run's status and `work` from the marker and the copy
(`WorkOf`). A published run is still in force for its worker's cleanup while the
claim is held and a fresh heartbeat has listed the job ever since it published
(`AuthorityOf`). This is all the code promises: after a minute without a
heartbeat the reaper stops the sandbox of a published attempt although its worker
may still be in it, and the lifecycle does not depend on it, since the output is
copied by then.

Abstractions. Attempts of one job matter to each other only through `job`; the
run has one attempt with every fault. Prompts, validation and kinds of failure
collapse into whether a retry is asked for; a retry may be refused
(`AfterFailure`), for a budget, a limit or the session's state. A sandbox counts
as stopped from the moment its stop is asked for. A heartbeat that lands after
its claim was released, or that lists an older claim, only prolongs what
`beat.lists` already allows until it lapses. An intent that stops being current
stays lapsed: were it current again before anybody looked, nothing would have
happened.

### Properties

* `StageTypeOK` — types; a run has a sandbox or a marker only once started.
* `SandboxesAreInCustody` — the refinement: `SandboxCustody!Spec`. Its mutant
  drops the heartbeat's protection of a finished job.
* `RetireMeansOver` — when the deadline's recovery returns, the attempt is over
  or its output is recorded, even if the run started between its reads.
* `OnlyBudgetFailsPreparedWork` — once an output is recorded, and until it
  lapses, only the elapsed budget fails the attempt, and without a retry.
  `CheckpointPublication` assumes exactly this of its `WorkerFail`. Lapsed output
  is failed and, by the sweep, retried like any other, as that module's
  `RetireStalled` has it.
* `AbandonedSandboxIsStopped` (liveness) — wherever a worker dies, a sandbox
  with nothing to keep is eventually stopped, by one of the recoveries, if any
  record names it. Between its creation and that record none does: a worker
  that dies there leaves the sandbox to the provider's own lifetime.

## 6. WorkerProcess

The process around the attempts: `createScheduler`, `createWorkerLifecycle`,
the heartbeat, `finishWorkerShutdown`, and the queue that hands out jobs.

| Variable | Code |
|---|---|
| `phase`, `drained`, `stopRequested` | `createWorkerLifecycle` |
| `main`, `loop` | where `main()` and the scheduler's loop stand |
| `running`, `inFlight` | programs that run, and the keys of the scheduler's map |
| `writes`, `row` | heartbeat updates under way, from the loop, an attempt's end or the interval; the worker's row |
| `timersOn`, `tasks`, `aux` | maintenance intervals, their callbacks under way, the sign-in processor |
| `jobsWait`, `tasksWait`, `lastWait` | the awaits of drain and shutdown, with what each waits for |
| `queued`, `claims` | the job queue; `Requeue` is recovery elsewhere, which may hand out a job whose old attempt still unwinds here |

A claim may return after a drain began (`ClaimReturns` has no guard on it);
its attempt is then run and advertised like any other. Heartbeats overtake each
other and an update whose sender gave up may still arrive.

### Properties

* `CapacityHolds` — no more programs than slots, though a replacement of an
  attempt may start while the attempt it replaces still runs.
* `DrainedMeansIdle` — a worker that reports itself drained can be stopped
  without loss: no attempt, no claim that may still return one, no callback.
* `DeregisteredStaysGone` — no late heartbeat brings a stopped worker back.
* `ShutdownEnds`, `HeldJobsAreAdvertised` (liveness) — a drain and a stop end
  if attempts do; a held job is eventually listed, though writes fail and
  overtake each other (the stall detector trusts this list).

One disagreement: `MaintenanceOutlivesClaims` (run `worker_maintenance`).
`docs/PIPELINE-WORKER-LIFECYCLE.md` says a graceful shutdown "keeps heartbeats
and maintenance timers active while already-claimed jobs finish"; `requestDrain`
clears the maintenance timers at once.

## 7. CanonicalPr, LinearTransitions and what runs them

`CanonicalPr` is the pull request of one session. Every accepted checkpoint
enqueues a generation (`Enqueue`); publishers, concurrent runs of
`drainCanonicalPullRequests`, claim an operation under a lease, move the branch
and its fence with a compare-and-set push, arm and send the one POST that
creates the pull request, observe it and finish; webhooks observe it too.

| Variable | Code |
|---|---|
| `sync`, `epochs`, `ops` | `session_pr_sync`, `session_pr_epochs`, `session_pr_operations` |
| `remote`, `pull`, `unheard` | GitHub: branch and fence, the pull request, and changes no webhook told of yet |
| `sent` | pushes and POSTs that may still take effect, whatever became of their sender |
| `pubs`, `hooks` | the publishers and the webhooks, step by step |

GitHub is external, modelled by what the code assumes of it: a push with an
expected lease moves both refs or none, and a POST creates one pull request.
People may push, close, merge and reopen. Abstractions: a webhook's
`pr_updated_at` is the order in which observation tokens are taken; a session
that is archived, or whose release was withdrawn, is to a publisher one whose
claim lapsed.

* `PublicationMovesForward` — the branch passes through the operations in their
  order, is left alone once somebody else pushed, and an epoch has at most one
  pull request, whatever is lost, late or taken over.
* `SyncedIsHeard` — a session counts as synchronised only with its newest
  checkpoint acknowledged, and with an open pull request as far as webhooks
  have told.

No liveness is claimed: a publisher that dies after it armed the creation and
before its POST leaves the epoch armed, and later claims give up with
`pr_creation_uncertain` on purpose.

`LinearTransitions` is how moves of a Linear issue reach the session linked to
it. *Reconcilers* (`reconcileLinearState`, in every worker process and in the
maintenance of the other deployment) list sessions, load the routing of the
workspace, read the issue, and call `apply_linear_session_transition` with what
they saw: four steps, between which everything may change.

| Variable | Code |
|---|---|
| `issue` | Linear: the open state span, its state, when it began, when the issue was edited |
| `routing` | `workspace_linear_routing`: the stage each routed state leads to |
| `linked` | the session as far as a transition asks: open, archived, exhausted, with an active job |
| `receipt` | `internal.session_linear_transition_receipts`: the span and the meaning consumed last |
| `sweeps` | each reconciler's step, whether its snapshots of session and routing still hold, and what it read of the issue |
| `acts`, `bounds` | history: which span acted last; which spans changed their meaning while they were open |

`ListSessions`, `LoadRouting`, `ObserveIssue`, `Transition` and `SweepFails` are
the reconciler; `IssueMoves`, `IssueIsEdited`, `StateIsRenamed`,
`RoutingChanges` and `LocalChange` are people and everybody else. What a
transition does to jobs and runs is `SessionLifecycle`'s `Reroute`, `Enqueue`
and `Archive`.

* `MovesActOnce` — the receipt follows the moves forward, whatever order
  readings arrive in; a move changes the work of the session once, *unless its
  meaning changed while it was open*; what the issue asked for before the
  session existed starts no work.
* `IssuesAreFollowed` (liveness, in `ReconcilingWorker`) — when people leave
  issue, routing and session alone, the session comes to the issue's open span
  in its present meaning.

Renaming a state edits no issue. A reading from before it may therefore be
applied after one from after it, and then again the other way round: the same
span acts twice. That is what the exception in `MovesActOnce` is for. Three
things are left open on purpose (`LeftOpen`): a stage the session does not run,
work the budget refuses, and a second move at the very instant that was consumed,
which waits for the issue's next edit.

`WorkerServices` puts `WorkerProcess`, `CanonicalPr` and `LinearTransitions`
beside each other, as a worker process does. They share no row, so a behaviour
follows one of them (`service`); the composition says so and lets one run check
all three. The bounds `OneEpoch`, `OneAtWork` and `OneChange` follow either
several publishers on one pull request, or successors of a closed one with one
publisher at work at a time (a publisher that died has left its claim, and what
it sent may still land) and one change by people for each. `ReconcilingWorker`
does the same for `WorkerProcess` and `LinearTransitions` with the fairness of
both.

## 8. CloudflareDispatch

The other deployment has no polling process. A Durable Object is woken by an
alarm, claims jobs within its capacity, records each claim as a dispatch row,
creates one workflow per claim and acknowledges it; the workflow executes the
claim once and recovers it when the execution was cut short.

| Variable | Code |
|---|---|
| `work` | the job and the run of its newest claim |
| `rows` | `worker_dispatches`: present, acknowledged, started, due |
| `engine` | the `SessionAttemptWorkflow` of each claim; `late` is a creation that failed and may still take effect |
| `executing`, `entered` | executions under way, and (history) how often each was entered |
| `batch` | the batch of the Durable Object in progress |

A batch may lose any reply (`DeliveryFails`) and be reset at any await
(`BatchFails`); the engine may create late, repeat a step or give it up while
its body still runs (`ExecutionInterrupted`). Recovery reads the run and acts on
what it saw (`FailsAsSeen`), from the batch and from the workflow.

* `DeliveredOnce` — a claim is executed at most once, and an acknowledged claim
  has a workflow.
* `PublishedClaimsAreKept` — recovery never fails an attempt that published
  between its read and its write.
* `DispatchedWorkEnds` (liveness, in `CloudflareServices`) — unless batches fail
  for ever, a job comes to an end.

## 9. CursorAuth, FencedLease and CloudflareServices

`CursorAuth` signs one user in to Cursor: tabs of the settings page start,
cancel and disconnect; a task (a promise of the worker process, or the
`CursorAuthWorkflow` of the other deployment) claims the flow under a fresh
token, publishes the URL, polls under a lease it renews, and saves the key.
Each statement is a step and may have taken effect although it failed;
`TimeoutFires`, `StopWorker`, `TaskDies` and `LeaseLapses` come at any moment.

*Abstract specification.* `FencedLease` says what a claim promises: an item has
at most one holder, who can lose it at any moment; it is concluded once, and
only by who holds it at that moment does its conclusion have an effect.
`LeaseSpec` is the refinement, with the flow's claim token as the holder, its
status as the outcome and the saved credential as the effect.

* `SignInIsCurrent` — the page never shows the URL of a task that lost the
  flow, and once a disconnect is answered no sign-in that was under way connects
  the user again, unless its cancel failed: the route does not look at the error
  of its first statement (`route.ts:100`), deletes the credential and answers 204,
  and a sign-in that was under way and is still active may then save its key.
  `DisconnectBegins` has both outcomes, and `withdrawn` collects what was really
  canceled, or was over before. For those the promise rests on the order of the
  two statements. (`POST` ignores the error of its cancel in the same way; its
  insert is then refused by the index on active flows.)

`CloudflareServices` puts both kinds of delivery beside each other as the
Durable Object does; `delivers` names the one a behaviour follows.

## 10. Runs

Each `.cfg` gives the constants their values; the `MC…` modules declare the
model values and the symmetry sets. Nothing orders jobs, runs, drainers,
publishers, reconcilers, flows or tasks (a version is a number, an artifact a run, a claim
token a task), so they are interchangeable. Symmetry is otherwise used only
where no liveness is checked; in `cloudflare_services` the symmetric sets are
those of the sign-ins, which the liveness property does not mention. Every run
has `CHECK_DEADLOCK FALSE`: a delivered session whose handles are used up, or a
process that has exited, has nothing left to do.

| Run | Instance | Question |
|---|---|---|
| `session_lifecycle` | 3 jobs, 3 runs, 2 claims per job, 2 stages, pinned policy of 2 repairs, manual merge, legacy workers | ownership, history, review and budget under arbitrarily late callers |
| `session_recovery` | 2 jobs, 3 runs, 4 claims, 4 revisions, no policy, fair | pauses, credits and recovery from crashes |
| `reject_receipt`, `final_repair` | 3 jobs, 1 stage, pinned policy | two disagreements (section 2) |
| `publication_intents` | 1 job, 2 claims, 2 runs, 2 drainers, 2 publication claims per intent | proof, kept work |
| `publication_recovery` | 1 job, 1 run, 2 drainers, pinned policy, legacy workers, fair | implements `SessionLifecycle`; intents are settled |
| `cleanup_refs` | 1 job, 1 run, 1 drainer, 2 cleaners, 3 cleanup claims | nothing adopted or consumed is deleted; deletions are true |
| `stage_custody` | 1 claim, all other programs, a budget, deadline and crash, heartbeats and outputs that lapse, fair | custody of sandboxes, the ends of an attempt |
| `worker_services` | 1 job, 3 claims, 2 slots, 1 timer; 2 publishers, 1 webhook, 2 checkpoints, 2 epochs, 2 operations, 2 changes by people (successors: 1 for each pull request); 2 reconcilers, 2 spans, 3 states, 2 instants, 2 configurations, 1 change of a meaning, 1 local change | drain and capacity; one pull request; an issue moves a session once |
| `worker_live` | 1 job, 2 claims, 2 slots; 2 reconcilers, 2 spans, 3 states, 2 instants, 1 change of a meaning; fair | shutdown ends; held jobs are advertised; issues are followed |
| `worker_maintenance` | 1 job | the third disagreement (section 6) |
| `cloudflare_services` | 1 job, 2 tries, capacity 1; 2 flows, 2 tasks, 1 tab; fair | delivery, recovery, sign-in |

Bounds, all of them constants: `MaxAttempts` and `MaxClaims` (claims of a job),
`MaxTries` (the code's own limit of tries), `MaxRevision` (switches of the
release), `MaxPublications` (claims of an intent), `MaxCleanups` (claims of a
cleanup), `MaxGenerations`, `MaxEpochs`, `MaxOperations`, `MaxChanges` (of one
session's pull request), `MaxSpans`, `MaxTime`, `MaxRearms`, `MaxTouches` (moves
of an issue, instants, changes of a meaning, other changes), `Unlucky` (attempts that may crash or exceed their
deadline), and the sizes of the sets. Two bounds stand in actions of
`WorkerProcess`: one write of the interval, and one update whose sender gave up,
at a time.

They are large enough for the interesting cases: a job fails, is retried and
its first worker comes back (two claims); a retry is refused at the limit (four
claims with a credited one, against `MaxRetries`); a review is rejected, its
repair published and rerouted back to (three jobs, two stages, so that a stage
number recurs); the release is paused and resumed around a claim; a drainer
loses its lease to another and returns (two drainers, two publication claims); a
cleaner's deletion lands after two others claimed the row (three cleanup claims;
runs are collected independently of each other, so one suffices); an attempt, its
replacement and a third claim meet on two slots; a publisher's push lands after
another took its operation over and a newer operation waits (two publishers, two
operations); a sign-in's claim passes to a second task while a second flow
begins; the sweep fails a lapsed output and queues its job again, and a published
attempt's heartbeat goes stale under the reaper's reads (one claim suffices: the
job is queued, whether or not it is claimed again). A hazard needs at most the current owner and one former owner of a
claim, which these instances contain; the theorems of section 12 hold for any
sizes.

Each property of a passing run is paired with a mutant in `PROJECT.json`, a
definition changed the way a plausible bug would change it (a status forgotten
in a list, a missing `coalesce`, a guard of the wrong claim), under which the
same run finds the property violated. The mutated forms stand beside the
definitions, marked `mutant`.

## 11. Fairness

Only what the code's timers and promises guarantee is fair, and weakly unless a
step is disturbed again and again.

* `SessionLifecycle`: `Claim`, since workers poll the queue (`loop.ts`,
  `scheduler.ts`, every 2 s); `Sweep` / `PubSweep`, since maintenance runs every
  30 s and calls the stall detector (`stall-detector.ts:51`), which defers or
  fails a claim without progress and retries (`p_retry` true).
* `CheckpointPublication`: `Settle`, since maintenance and the reconcile timer
  drain publications, and the loop of the claim RPC settles what is stale or
  overdue before it hands anything out; `DeadlinePasses` is time.
* `StageWorker`: the timers of `index.ts` call the stall detector, the reaper
  and the recovery of acquisitions; a sweep may die, but not every time at the
  same place (strong fairness of its two reads); a supervisor whose processor
  settled goes on; a job that nobody holds is listed no longer than a minute
  (`HeartbeatLapses`), and an intent that is not adopted reaches its deadline and
  is given up (`IntentLapses`, `GiveUpIntent`). No processor is bound to do
  anything, and no worker to be listed.
* `ReconcilingWorker`, the process (`WorkerFairness`): promises settle, the
  loop and `main()` go on, the interval fires, and a write succeeds now and then
  (strong). `ShutdownEnds` has the premise `AttemptsEnd`: `runClaimedJob` is
  bounded by the claim's deadline.
* `ReconcilingWorker`, the reconcilers (`ReconcilerFairness`): one of them
  survives, its interval fires (`worker/index.ts:118-152`), and a reading of the
  rows or of Linear, or a transition, that is tried again and again does not
  fail for ever (strong). Nothing is assumed of the others, which may stop, or
  come with what they read long ago.
* `CloudflareServices`: the schedule kicks every minute and alarms fire, calls
  are answered, the stall sweep of the maintenance workflow comes back,
  executions end by their deadline. `DispatchedWorkEnds` has the premise that
  batches do not fail for ever.

Nobody is bound to start, publish, push, adopt, review, retry by hand or
switch the release: a model in which workers must publish would hide exactly
the crashes the sweep is there for. The bounds do not make liveness vacuous:
when claims are used up a job ends in `error` and the session is parked, which
is what the code does at its retry limit (`MaxAttempts` exceeds `MaxRetries`
in `session_recovery`), and `Claim`, like the code, is not enabled while the
release is off, which is why recovery assumes that it stays on.
`CrashedWorkIsRecovered` is about leaving `in_progress`, not about success.

## 12. Proofs

All proofs are checked by TLAPS for every value of the constants that meets
the named assumptions of the modules (`None` is no job or run; limits are
numbers; flags are Booleans). The state is not bounded in them except through
the constants that bound it for TLC (`MaxAttempts`, `MaxRevision`,
`MaxPublications`, `MaxCleanups`, `MaxClaims`, `MaxTries`, `MaxGenerations`,
`MaxEpochs`, `MaxOperations`, `MaxChanges`, `MaxSpans`, `MaxTime`, `MaxRearms`,
`MaxTouches`), which may be any number.

| Theorem | Module | Says |
|---|---|---|
| `TypeCorrectness` | `SessionLifecycleProofs` | `Spec => []TypeOK` |
| `HistoryKept` | `SessionLifecycleProofs` | `Spec => HistoryIsImmutable` |
| `ExecutionOwnership` | `SessionOwnershipProofs` | `OneActiveJob`, `RunningRunOwnsSession`, `OneRunPerClaim` |
| `ProgressHasWork` | `SessionOwnershipProofs` | `InProgressHasWork` |
| `PublicationSettlesJob` | `SessionOwnershipProofs` | `PublishedJobIsSettled` |
| `PublicationTypeCorrectness` | `CheckpointPublicationProofs` | `PubSpec => []PubTypeOK` |
| `PublicationImplementsLifecycle` | `CheckpointPublicationProofs` | `PubSpec => Spec` |
| `ArtifactsAreProved` | `CheckpointPublicationProofs` | `ArtifactHasProof` |
| `WorkIsKept` | `CheckpointPublicationProofs` | `CompletedWorkIsKept` |
| `CleanupTypeCorrectness` | `CheckpointCleanupProofs` | `CleanSpec => []CleanTypeOK` |
| `CleanupImplementsLifecycle` | `CheckpointCleanupProofs` | `CleanSpec => Spec` |
| `AcceptedRefsAreRetained` | `CheckpointCleanupProofs` | `ArtifactHasProof` |
| `ConsumersAreSafe` | `CheckpointCleanupProofs` | `ConsumedRefIsKept` |
| `DeletionsAreFinal` | `CheckpointCleanupProofs` | `DeletedStaysAbsent` |
| `WorkSurvivesCleanup` | `CheckpointCleanupProofs` | `CompletedWorkIsKept` |
| `ReviewsAreCurrent` | `SessionRecordsProofs` | `ReviewIsCurrentArtifact` |
| `CompletionsStand` | `SessionRecordsProofs` | `CompletionsAreCurrent` |
| `ApprovalsStand` | `SessionRecordsProofs` | `Spec => ApprovalsAreKept` |
| `ExhaustionIsKept` | `SessionRecordsProofs` | `Spec => ExhaustionStopsExecution` |
| `ClaimsAddUp` | `SessionRecordsProofs` | `ClaimsAccounted` |
| `RepairsAddUp` | `SessionRecordsProofs` | `RepairsAccounted` |
| `StageInvariance` | `StageWorkerProofs` | `Spec => []StageInv` |
| `StageTypes` | `StageWorkerProofs` | `StageTypeOK` |
| `RetiredIsOver` | `StageWorkerProofs` | `RetireMeansOver` |
| `BudgetFailsForGood` | `StageWorkerProofs` | `OnlyBudgetFailsPreparedWork` |
| `SandboxCustodyRefined` | `StageWorkerProofs` | `Spec => SandboxesAreInCustody` |
| `CapacityIsKept` | `WorkerServicesProofs` | `CapacityHolds` |
| `DrainLosesNothing` | `WorkerServicesProofs` | `DrainedMeansIdle` |
| `DeregistrationIsFinal` | `WorkerServicesProofs` | `DeregisteredStaysGone` |
| `PublicationIsForward` | `WorkerServicesProofs` | `PublicationMovesForward` |
| `SyncIsHeard` | `WorkerServicesProofs` | `SyncedIsHeard` |
| `IssuesMoveSessionsOnce` | `WorkerServicesProofs` | `MovesActOnce` |
| `ServicesAreServices` | `WorkerServicesProofs` | a behaviour of the three services is one of each |
| `ServicesTypes` | `WorkerServicesProofs` | `ServicesTypeOK` |
| `ClaimsAreDeliveredOnce` | `CloudflareServicesProofs` | `DeliveredOnce` |
| `PublicationsAreKept` | `CloudflareServicesProofs` | `PublishedClaimsAreKept` |
| `SignInStaysCurrent` | `CloudflareServicesProofs` | `SignInIsCurrent` |
| `SignInImplementsLease` | `CloudflareServicesProofs` | sign-in implements `FencedLease` |
| `DeliveredSignInsAreSignIns` | `CloudflareServicesProofs` | `CloudSpec => AuthSpec` |

*Typing.* `TypeOK` is not inductive: a new version is one more than the
maximum of its stage, and that is a number only if the maximum exists.
`TypeInv` adds `VersionsBounded` (the versions of each stage have a maximum)
and `OnlyPublishedVersioned` (only published runs have a version). Each action
has a lemma that it keeps `TypeInv`, and, unless it publishes, that it leaves
published runs as they are (`RunHistoryKept`); `HistoryKept` follows from the
same lemmas.

*Ownership.* `OwnershipInv` is the conjunction of the four ownership
properties, `PublishedJobIsSettled`, and two strengthenings: `RowsAgree` (a run
has its job's stage, and no attempt beyond its job's last claim) and
`PublishedIsReviewed` (the published run of an active job is what is under
review). They need each other: that a retry leaves no second running run needs
that a running run is the newest claim; that a requeue does not reopen
published work needs that the publishing claim is the last. The steps fall into
those that only change the session (`OwnershipWithoutRows`), those that retire
every active row (`RetiredOwnership`), those that also queue the next job
(`RequeuedOwnership`), and the steps of the worker, one lemma each.

*Reviews.* That a review is about the newest artifact of its stage is inductive
only together with what the rows say of withdrawn work. `ReviewInv` is
`PublishedVersioned` (what is published has a version), `WithdrawnWasPublished`,
`ReviewedIsLatest`, `VersionsNameArtifacts` (two artifacts of a stage differ in
their version, withdrawn ones included) and `CompletionsAreCurrent`. Most steps
decide nothing about a stage (`DecisionsStand`); those that publish, approve or
reroute have a lemma each. `ApprovalsStand` follows from the same lemmas.

*Budget.* `ExhaustionIsKept` rests on `ExhaustionNeedsPolicy`: a session without
a pinned policy is not exhausted. `NothingBegins` is the lemma for the steps that
start no run and queue no job; for each of the others the guard that excludes
an exhausted session is shown to hold.

*Counting.* `ClaimsAccounted` and `RepairsAccounted` compare a number with the
cardinality of a set of rows. A step changes such a set by at most one element,
and the library's facts about finite cardinalities do the rest, for any number
of jobs. The invariants say which element. `ClaimsInv` has `NewestClaims` (no run
is of a claim after its job's last), `UnusedJobs`, `DeferredClaimsNeverRan` (a
credit is for a claim that was made, is over, and has no run) and `ClaimsArePaid`
(what is left of the claims after the credits is the retries, and the claim that
runs). `RepairsInv` counts the jobs that repair and the slots that retries took.

*Refinement.* `PubTypeOK` gives the handles a drainer uses (its run, the
intent's job, claim and version) the types that `SessionLifecycle`'s `Next`
quantifies over. `StepRefines` then maps each step: failures and adoptions to
the lifecycle's, everything else to stuttering. Through it every theorem about
`Spec` holds of `PubSpec`, which the last two theorems use.

*Proof of the output.* `ProofInv` adds to `ArtifactHasProof` that a drainer in
step `verified`, whose intent was not given up, has its ref on the remote. It
is inductive because only an adoption or an unprepared publication makes a run
a success (`RunHistoryKept` for all others), an open intent belongs to an
unpublished attempt (`OpenIsUnpublished`), no intent that was given up is
revived (`IntentsKept`), and refs only appear.

*Kept work.* `StepKeepsWork` uses `OwnershipInv`: a current intent's run is the
newest claim, so no start closes it as an older attempt, and a failure that
names another run, or none, does not touch it (`FailedRun`).

*Cleanup.* `CleanInv` follows the order of a retirement: a run aged a week has
no push and no open intent (`AgedIsOver`); from its first cleanup claim on, its
intent is stale and it has no consumer, and neither changes again
(`CollectedIsGivenUp`); deletions and cleaners concern only such runs
(`DeletesAreClaimed`, `CleanersAreLate`). A deletion that lands, at whatever
time, therefore finds a ref that nobody can adopt, push or consume.
`PublicationBounds` collects what a publication step may do to that state, and
`CollectorStep` what a cleanup step may do to the publication's: these two
lemmas let the proofs of `CheckpointPublication` be used as they are.

*Attempt.* `StageInv` ties together what each program believes. Per attempt:
`Unclaimed`, `RunHasClaim`, `StepsInOrder` (a sandbox is held, marked and
prepared one after the other), `OnlyCopyIsRetained`, `FailureSpares` (a failure
about to be reported spares recorded output, or is the budget's) and
`LookupKnows` (what the supervisor learnt before it retires the attempt). Of the
stall detector, the reaper and a cancellation, `RecoveryInv`: what they are about
to stop is over, as when they read it, and keeps no work; if it was published,
either nobody holds its claim any more or a heartbeat was missed since
(`beat.missed`), and neither is undone. For the refinement of
`SandboxCustody`, `Moves` lists what a step may do to an attempt's run, marker,
copy and sandbox; each action has a lemma that it `Moves` every attempt, and
`MovesAreSteps` maps a move to the abstract steps.

*Process.* `ProcessInv` is `SlotsAreCounted` (the scheduler's map is what runs,
and a claim is asked for only while there is room for what it returns),
`DrainHoldsIntake` (a drain has closed every intake and waits for what was open
then) and `WaitKnows` (whatever still runs or is written is among what the wait
for jobs has in hand).

*Pull request.* `PrInv` is `WantsCheckpoint`, `OperationsInOrder` and
`OneCreation` (each epoch has one token to create its pull request, held by one
publisher or already sent). It does not use the bounds `OneEpoch`, `OneAtWork` and
`OneChange`: the theorem is about any number of publishers at once, where the
run has to choose. `SyncedIsHeard` needs `HeardInv`: while a session counts as
synchronised, its epoch is pinned and open with the newest checkpoint
acknowledged and no observation token out, and if the pull request is not open a
webhook is still to tell (`IsHeard`); and what a publisher reports of an open pull
request under a token that still counts is true, or a webhook is still to tell
(`PubHeard`).

*Issue.* `LinearInv` is `ReadingsAgree` (any two readings of the issue, and the
issue itself, are ordered by their spans, whoever holds them), `ReceiptIsReading`
(so is the receipt), `SameMeaning` (two readings of a span whose meaning never
changed name the same state), and `MeaningIsConsumed` (whoever would consume
such a move again finds its meaning in the receipt). `MovesActOnce` is then a
comparison of the receipt with the reading in hand.

*Services.* The three specifications run by `WorkerServices` share no variable.
`ServicesAreServices` shows that a behaviour of the composition is one of each, and
`ServicesTypes` proves its type invariant from theirs. `DeliveredSignInsAreSignIns`
does the same for sign-ins in `CloudflareServices`.

*Dispatch.* `DispatchInv` is `QueuedIsClaimable`, `TurnsComeInOrder`,
`EnteredByItsRow` (a workflow that runs a claim was entered for the claim its
row names) and `DeliveredExists`. Whatever reply is lost, a second delivery of
a claim finds the instance of the first.

*Sign-in.* A flow a disconnect canceled is over, and what is over is never active
again, so that its task finds nothing to complete; between the two statements of
the request that holds of the flows it saw, too (`WithdrawnIsOver`). `AuthInv` is `TasksHaveFlows`, `ClaimsMatch` (a task that still acts
on a flow holds the claim the flow's row names), `OneActiveFlow` and
`WithdrawnIsOver`. With it every statement of a task, whether or not its reply
arrives, is a step of `FencedLease` by the holder, or changes nothing.

Every invariant and action property of a passing run has a theorem. What is only
model-checked is liveness (`CrashedWorkIsRecovered`, `IntentIsSettled`,
`ShutdownEnds`, `HeldJobsAreAdvertised`, `AbandonedSandboxIsStopped`,
`DispatchedWorkEnds`, `IssuesAreFollowed`): fairness and ENABLED are beyond the
prover. The disagreements of section 10 are counterexamples, not theorems.

## 13. Plan

| Next | Composes | States | Runs, bounds | Theorems |
|---|---|---|---|---|
| `GitLineage` | over the lifecycle: heads, pinned inputs, reviewed checkpoints | every stage starts from the last accepted output | 2 stages, 3 runs | head follows reviews |
| `StageWorker` over `CheckpointPublication` | the processor's calls as the RPCs' actions | the program implements what publication assumes of it | 1 job, 1 run | — |
| `CodexAuth` | device sign-in and token refresh | a second implementation of `FencedLease` | 2 flows, 2 tasks | refinement |
| proofs | — | — | — | the theorems about `Spec` and `PubSpec` restated for `PubSpec` and `CleanSpec` through the refinements |

## 14. Not modelled

* *Git lineage handoff, readiness evaluation*: what they decide reaches the
  modelled state as a nondeterministic choice (whether the final gate passes).
  `SessionLifecycle`'s `Reroute` goes to any stage, whichever
  `LinearTransitions` would name; `CanonicalPr` begins at the trigger on the accepted head.
* *Pull request refresh queue*: it stores what GitHub tells of linked pull
  requests and decides nothing for sessions.
* *Legacy delivery of source runs* to a pull request per session, which the
  canonical pull request replaces.
* *Codex credentials*, token refresh, and the use of a stored key by a run.
* *Maintenance as a whole*: its callbacks appear where they act (sweep, drain,
  cleanup, reaper, recovery of acquisitions), not as one program.
* *The web application* and its routes parse requests and render; the changes
  they ask for are the RPCs above. *Sandbox providers and agent runners* are
  external: a run's outcome is a choice. Onboarding, telemetry, infrastructure
  and scripts are separate from the session core; they are most of the lines of
  the repository and hold no protocol between processes.
* *Roles, row-level security* and the `service_role` checks of the RPCs are
  authorization, not behaviour: every modelled caller is allowed to call.

## 15. Running

    tlc -config SessionLifecycle.cfg MCSessionLifecycle.tla
    tlc -config StageCustody.cfg MCStageWorker.tla
    tlapm SessionRecordsProofs.tla

The runs take between some seconds and four minutes each, the proofs one to
four minutes per module.
