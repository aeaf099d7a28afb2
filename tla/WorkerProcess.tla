---------------------------- MODULE WorkerProcess ----------------------------
(***************************************************************************)
(* One worker process: the scheduler that claims jobs and runs them side   *)
(* by side, the heartbeat that advertises them, the maintenance timers,    *)
(* and the one-way drain that ends in a stop.                              *)
(*                                                                         *)
(* A process is an event loop: what happens between two awaits is one      *)
(* step.  Promises are what can overlap: a claim, attempts, heartbeat      *)
(* writes, timer callbacks, and the waits of a drain, each over the        *)
(* promises that existed when it began.  A heartbeat write carries the     *)
(* jobs listed when it was sent and may reach the database in any order,   *)
(* also after its caller was told that it failed.  A process that crashes  *)
(* takes no further step.                                                  *)
(***************************************************************************)
EXTENDS Naturals, FiniteSets

CONSTANTS
    Jobs,          \* rows of agent_jobs this process may claim
    Timers,        \* the maintenance timers
    MaxConcurrent, \* config.maxConcurrentJobs
    MaxClaims      \* BOUND on the claims of a job

ASSUME WorkerAssumption == MaxConcurrent \in Nat \ {0} /\ MaxClaims \in Nat \ {0}

VARIABLES
    phase, drained, stopRequested,  \* createWorkerLifecycle
    main,       \* how far main() has come
    loop,       \* where the scheduler's loop waits
    running,    \* attempts whose program has not ended
    inFlight,   \* the keys of the scheduler's map
    writes,     \* heartbeat writes under way
    row,        \* this worker's row of worker_heartbeats
    timersOn,   \* the maintenance intervals are armed
    tasks,      \* callbacks of maintenance timers under way
    aux,        \* the Cursor sign-in processor
    jobsWait,   \* waitForJobs of the drain
    tasksWait,  \* waitForMaintenance: the callbacks it waits for
    lastWait,   \* waitForIdle of finishWorkerShutdown
    queued,     \* jobs that claim_next_agent_job may hand out
    claims      \* agent_jobs.attempt_count

lifecycle == <<phase, drained, stopRequested>>
intake == <<loop, running, inFlight>>
beats == <<writes, row>>
upkeep == <<timersOn, tasks, aux>>
waits == <<jobsWait, tasksWait, lastWait>>
queue == <<queued, claims>>
vars == <<lifecycle, main, intake, beats, upkeep, waits, queue>>

-----------------------------------------------------------------------------
Attempts == Jobs \X (1..MaxClaims)
Phases == {"running", "draining", "drained", "stopping"}
MainSteps == {"setup", "serving", "idling", "beating", "deregistering", "exited"}
LoopSteps == {"off", "fill", "claiming", "beating", "resting", "done"}
WaitSteps == {"none", "loop", "jobs", "writes", "done"}
Loop == <<"loop", 0>>
Tick == <<"tick", 0>>
Sources == {Loop, Tick} \cup Attempts

Draining == phase # "running"

Stopped == drained /\ stopRequested

(* mutant: the map is keyed by the job alone *)
KeyByJob(a) == <<a[1], 1>>

(* An attempt is tracked by its job and its claim, since a replacement may  *)
(* start while the attempt it replaces is still unwinding.                  *)
KeyOf(a) == a

(* mutant: the attempts are listed, not their jobs *)
ActiveKeys(keys) == keys

ActiveJobs(keys) == {k[1] : k \in keys}
Write(src, keys) == [src |-> src, jobs |-> ActiveJobs(keys), awaited |-> TRUE]
Awaited(srcs) == {w \in writes : w.awaited /\ w.src \in srcs}
NoWait == [step |-> "none", on |-> {}]

Init ==
    /\ phase = "running" /\ drained = FALSE /\ stopRequested = FALSE
    /\ main = "setup"
    /\ loop = "off" /\ running = {} /\ inFlight = {}
    /\ writes = {} /\ row = [present |-> TRUE, jobs |-> {}]
    /\ timersOn = FALSE /\ tasks = {} /\ aux = "off"
    /\ jobsWait = NoWait /\ tasksWait = {} /\ lastWait = NoWait
    /\ queued = Jobs /\ claims = [j \in Jobs |-> 0]

-----------------------------------------------------------------------------
(* main(): the control socket is up; a drain during startup keeps           *)
(* maintenance and sign-in from starting, and the loop ends at once.        *)
StartServing ==
    /\ main = "setup"
    /\ main' = "serving" /\ loop' = "fill"
    /\ timersOn' = ~Draining
    /\ aux' = IF Draining THEN aux ELSE "on"
    /\ UNCHANGED <<lifecycle, running, inFlight, beats, tasks, waits, queue>>

-----------------------------------------------------------------------------
(* The scheduler *)

(* The fill phase claims while there is room; otherwise the loop rests.     *)
Fill ==
    /\ loop = "fill"
    /\ loop' = CASE Draining -> "done"
                 [] ~Draining /\ Cardinality(inFlight) < MaxConcurrent -> "claiming"
                 [] OTHER -> "resting"
    /\ UNCHANGED <<lifecycle, main, running, inFlight, beats, upkeep, waits, queue>>

(* claim_next_agent_job hands out a job: it is started and advertised       *)
(* before the next claim, also when a drain began in the meantime.          *)
ClaimReturns(j) ==
    /\ loop = "claiming" /\ j \in queued
    /\ LET a == <<j, claims[j] + 1>>
       IN  /\ queued' = queued \ {j} /\ claims' = [claims EXCEPT ![j] = @ + 1]
           /\ running' = running \cup {a}
           /\ inFlight' = inFlight \cup {KeyOf(a)}
           /\ writes' = writes \cup {Write(Loop, inFlight')}
    /\ loop' = "beating"
    /\ UNCHANGED <<lifecycle, main, row, upkeep, waits>>

(* Nothing to claim, or an error; a claim whose reply was lost is held by   *)
(* nobody until recovery queues its job again.                              *)
ClaimFails ==
    /\ loop = "claiming"
    /\ \/ UNCHANGED queue
       \/ \E j \in queued : /\ queued' = queued \ {j}
                            /\ claims' = [claims EXCEPT ![j] = @ + 1]
    /\ loop' = "resting"
    /\ UNCHANGED <<lifecycle, main, running, inFlight, beats, upkeep, waits>>

(* The heartbeat of the claim settled, or the delay is over.                *)
Resume ==
    /\ \/ loop = "beating" /\ Awaited({Loop}) = {}
       \/ loop = "resting"
    /\ loop' = "fill"
    /\ UNCHANGED <<lifecycle, main, running, inFlight, beats, upkeep, waits, queue>>

(* runClaimedJob settles: the slot is free, and that is advertised at once. *)
AttemptEnds(a) ==
    /\ a \in running
    /\ running' = running \ {a}
    /\ inFlight' = inFlight \ {KeyOf(a)}
    /\ writes' = writes \cup {Write(a, inFlight')}
    /\ UNCHANGED <<lifecycle, main, loop, row, upkeep, waits, queue>>

-----------------------------------------------------------------------------
(* Heartbeats *)

(* mutant: a heartbeat inserts the row it does not find *)
RowUpserted(jobs) == [present |-> TRUE, jobs |-> jobs]

RowUpdated(jobs) == [row EXCEPT !.jobs = IF row.present THEN jobs ELSE {}]

(* mutant: the interval is cleared with the others *)
BeatingUntilDrain == main = "serving" /\ ~Draining

(* The interval is cleared when the scheduler is idle, after the stop. *)
Beating == main \in {"serving", "idling"}

(* BOUND: one write of the interval at a time. *)
HeartbeatTick ==
    /\ Beating
    /\ Awaited({Tick}) = {}
    /\ writes' = writes \cup {Write(Tick, inFlight)}
    /\ UNCHANGED <<lifecycle, main, intake, row, upkeep, waits, queue>>

WriteLands(w) ==
    /\ row' = RowUpdated(w.jobs)
    /\ writes' = writes \ {w}
    /\ UNCHANGED <<lifecycle, main, intake, upkeep, waits, queue>>

(* The caller logs an error; the update may still arrive, or never.         *)
(* BOUND: one such update at a time.                                        *)
WriteErrs(w) ==
    /\ w.awaited
    /\ \/ /\ \A o \in writes : o.awaited
          /\ writes' = (writes \ {w}) \cup {[w EXCEPT !.awaited = FALSE]}
       \/ writes' = writes \ {w}
    /\ UNCHANGED <<lifecycle, main, intake, row, upkeep, waits, queue>>

-----------------------------------------------------------------------------
(* Maintenance *)

TimerFires(t) ==
    /\ timersOn /\ t \notin tasks
    /\ tasks' = tasks \cup {t}
    /\ UNCHANGED <<lifecycle, main, intake, beats, timersOn, aux, waits, queue>>

TaskEnds(t) ==
    /\ t \in tasks
    /\ tasks' = tasks \ {t}
    /\ tasksWait' = tasksWait \ {t}
    /\ UNCHANGED <<lifecycle, main, intake, beats, timersOn, aux,
                   jobsWait, lastWait, queue>>

AuxStops ==
    /\ aux = "stopping"
    /\ aux' = "off"
    /\ UNCHANGED <<lifecycle, main, intake, beats, timersOn, tasks, waits, queue>>

-----------------------------------------------------------------------------
(* Drain and stop *)

(* mutant: the drain does not wait for the scheduler's loop *)
WaitWithoutLoop == [step |-> "jobs", on |-> running]

WaitForJobs == [step |-> "loop", on |-> {}]

(* mutant: every interval is waited for, though none will fire again *)
AllTimers == Timers

WaitForMaintenance == tasks

(* Every intake is closed in this step; the waits begin.                    *)
BeginDrain ==
    /\ timersOn' = FALSE
    /\ aux' = IF aux = "on" THEN "stopping" ELSE aux
    /\ jobsWait' = WaitForJobs
    /\ tasksWait' = WaitForMaintenance
    /\ UNCHANGED <<drained, main, intake, beats, tasks, lastWait, queue>>

RequestDrain ==
    /\ phase = "running" /\ main # "setup"
    /\ phase' = "draining"
    /\ BeginDrain
    /\ UNCHANGED stopRequested

RequestStop ==
    /\ ~stopRequested
    /\ stopRequested' = TRUE /\ phase' = "stopping"
    /\ IF Draining
       THEN UNCHANGED <<drained, main, intake, beats, upkeep, waits, queue>>
       ELSE BeginDrain

(* scheduler.waitForIdle: the attempts in flight when it is called, then    *)
(* the heartbeat writes the scheduler has under way when they have ended.   *)
IdleStep(wait) ==
    IF wait.step = "jobs"
    THEN [step |-> "writes", on |-> {w.src : w \in Awaited(Sources \ {Tick})}]
    ELSE [step |-> "done", on |-> {}]

Settled(wait) == \/ wait.step = "loop" /\ loop \in {"off", "done"}
                 \/ wait.step = "jobs" /\ wait.on \cap running = {}
                 \/ wait.step = "writes" /\ Awaited(wait.on) = {}

JobsWaitStep ==
    /\ Settled(jobsWait)
    /\ jobsWait' = IF jobsWait.step = "loop" THEN [step |-> "jobs", on |-> running]
                                             ELSE IdleStep(jobsWait)
    /\ UNCHANGED <<lifecycle, main, intake, beats, upkeep, tasksWait, lastWait, queue>>

DrainCompletes ==
    /\ Draining /\ ~drained
    /\ jobsWait.step = "done" /\ tasksWait = {} /\ aux = "off"
    /\ drained' = TRUE
    /\ phase' = IF stopRequested THEN phase ELSE "drained"
    /\ UNCHANGED <<stopRequested, main, intake, beats, upkeep, waits, queue>>

-----------------------------------------------------------------------------
(* finishWorkerShutdown: the scheduler is idle, the heartbeat's timer is    *)
(* cleared, its writes settle, and the row is deleted.                      *)
BeginShutdown ==
    /\ main = "serving" /\ Stopped
    /\ main' = "idling"
    /\ lastWait' = [step |-> "jobs", on |-> running]
    /\ UNCHANGED <<lifecycle, intake, beats, upkeep, jobsWait, tasksWait, queue>>

LastWaitStep ==
    /\ main = "idling"
    /\ Settled(lastWait)
    /\ lastWait' = IdleStep(lastWait)
    /\ main' = IF lastWait.step = "writes" THEN "beating" ELSE main
    /\ UNCHANGED <<lifecycle, intake, beats, upkeep, jobsWait, tasksWait, queue>>

TicksSettle ==
    /\ main = "beating"
    /\ Awaited({Tick}) = {}
    /\ main' = "deregistering"
    /\ UNCHANGED <<lifecycle, intake, beats, upkeep, waits, queue>>

(* deregisterWorker only logs a failure. *)
Deregister ==
    /\ main = "deregistering"
    /\ main' = "exited"
    /\ \/ row' = [present |-> FALSE, jobs |-> {}]
       \/ UNCHANGED row
    /\ UNCHANGED <<lifecycle, intake, writes, upkeep, waits, queue>>

-----------------------------------------------------------------------------
(* Recovery, a retry or a lease that ended queues a job again, whether or   *)
(* not an attempt at it still runs here.                                    *)
Requeue(j) ==
    /\ j \notin queued /\ claims[j] < MaxClaims
    /\ queued' = queued \cup {j}
    /\ UNCHANGED <<lifecycle, main, intake, beats, upkeep, waits, claims>>

SchedulerStep ==
    \/ Fill
    \/ \E j \in Jobs : ClaimReturns(j)
    \/ ClaimFails
    \/ Resume
    \/ \E a \in running : AttemptEnds(a)

BeatStep ==
    \/ HeartbeatTick
    \/ \E w \in writes : WriteLands(w)
    \/ \E w \in writes : WriteErrs(w)

UpkeepStep ==
    \/ \E t \in Timers : TimerFires(t)
    \/ \E t \in Timers : TaskEnds(t)
    \/ AuxStops

ShutdownStep ==
    \/ RequestDrain
    \/ RequestStop
    \/ JobsWaitStep
    \/ DrainCompletes
    \/ BeginShutdown
    \/ LastWaitStep
    \/ TicksSettle
    \/ Deregister

Next ==
    \/ StartServing
    \/ SchedulerStep
    \/ BeatStep
    \/ UpkeepStep
    \/ ShutdownStep
    \/ \E j \in Jobs : Requeue(j)

Spec == Init /\ [][Next]_vars

-----------------------------------------------------------------------------
(* runClaimedJob settles by the deadlines of the attempt and its recovery. *)
AttemptsEnd == \A a \in Attempts : WF_vars(AttemptEnds(a))

-----------------------------------------------------------------------------
(* Properties *)

Waits == [step : WaitSteps, on : SUBSET Sources]

(* Every variable holds values of its type, and a write lists known jobs.   *)
TypeOK ==
    /\ phase \in Phases /\ drained \in BOOLEAN /\ stopRequested \in BOOLEAN
    /\ main \in MainSteps /\ loop \in LoopSteps
    /\ running \subseteq Attempts /\ inFlight \subseteq Attempts
    /\ writes \subseteq [src : Sources, jobs : SUBSET Jobs, awaited : BOOLEAN]
    /\ row \in [present : BOOLEAN, jobs : SUBSET Jobs]
    /\ timersOn \in BOOLEAN /\ tasks \subseteq Timers /\ aux \in {"off", "on", "stopping"}
    /\ jobsWait \in Waits /\ tasksWait \subseteq Timers /\ lastWait \in Waits
    /\ queued \subseteq Jobs /\ claims \in [Jobs -> 0..MaxClaims]

(* The process never runs more programs than its capacity, whatever         *)
(* replacements start while old attempts unwind (createScheduler).          *)
CapacityHolds == Cardinality(running) <= MaxConcurrent

(* A worker that reports itself drained holds no claimed job, no claim that *)
(* may still return one, no maintenance callback and no write of its        *)
(* scheduler (createWorkerLifecycle): it may be stopped without loss.       *)
DrainedMeansIdle ==
    drained => /\ running = {} /\ loop \in {"off", "fill", "done"}
               /\ tasks = {} /\ ~timersOn /\ aux = "off"
               /\ Awaited(Sources \ {Tick}) = {}

(* Once its row is deleted, no late heartbeat brings the worker back, which *)
(* would make the stall detector trust a process that is gone.              *)
DeregisteredStaysGone ==
    [][main = "exited" /\ ~row.present => ~row'.present]_vars

(* Docs (PIPELINE-WORKER-LIFECYCLE.md): a graceful shutdown keeps the       *)
(* maintenance timers active while claimed jobs finish.                     *)
MaintenanceOutlivesClaims == running # {} => timersOn

(* If attempts end, a drain ends, whatever was in flight when it began, and *)
(* a requested stop ends the process, also one that arrives while it        *)
(* drains.                                                                  *)
ShutdownEnds ==
    AttemptsEnd => /\ phase = "draining" ~> phase \in {"drained", "stopping"}
                   /\ stopRequested ~> main = "exited"

(* A job that is held, for however long, is eventually listed in the        *)
(* worker's row, though heartbeats overtake each other and fail.            *)
HeldJobsAreAdvertised ==
    \A j \in Jobs : j \in ActiveJobs(running) ~>
                       \/ j \in row.jobs
                       \/ j \notin ActiveJobs(running)
=============================================================================
