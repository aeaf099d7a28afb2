--------------------------- MODULE StageWorkerProofs ---------------------------
(***************************************************************************)
(* TLAPS proofs about StageWorker, for every number of claims and whoever  *)
(* else acts: no sandbox is taken from a worker whose attempt is in force  *)
(* and no only copy of completed work is thrown away (the refinement of    *)
(* SandboxCustody), an attempt that was retired is over or had its output  *)
(* recorded, and recorded output that has not lapsed is failed only by the *)
(* budget.                                                                 *)
(***************************************************************************)
EXTENDS StageWorker, TLAPS

-----------------------------------------------------------------------------
(* Typing, by groups of variables *)

RunRows == [status : RunStates, box : BOOLEAN, marked : BOOLEAN]
Failures == [named : BOOLEAN, retry : BOOLEAN, preserve : BOOLEAN]
WorkerRows == [at : WorkerSteps, handle : BOOLEAN, retain : BOOLEAN,
               abort : {"none", "deadline", "budget"}, rejects : BOOLEAN,
               fail : Failures]
SupRows == [at : SupSteps, lookup : 1..2, found : BOOLEAN]
SweepStates == [at : {"idle", "runs", "fail", "reread", "stop"}, claim : 0..MaxClaims,
                seen : RunStates, box : BOOLEAN]
ReaperStates == [at : {"idle", "runs", "jobs", "stop"}, listed : SUBSET Attempts,
                 orphans : SUBSET Attempts, published : SUBSET Attempts]

JobTyped == job \in [status : {"queued", "claimed", "done"}, claim : 0..MaxClaims]
RunsTyped == /\ run \in [Attempts -> RunRows]
             /\ \A a \in Attempts : run[a].box \/ run[a].marked => run[a].status # "none"
OutputTyped == /\ intent \in [Attempts -> {"none", "open", "lapsed", "settled"}]
               /\ copied \in [Attempts -> BOOLEAN]
BoxesTyped == /\ box \in [Attempts -> {"none", "up", "stopped", "expired"}]
              /\ op \in [Attempts -> {"none", "recorded", "failed"}]
WorkersTyped == worker \in [Attempts -> WorkerRows]
SupsTyped == sup \in [Attempts -> SupRows]
RecoveryTyped == /\ sweep \in SweepStates
                 /\ sweep.at # "idle" => sweep.claim \in Attempts
                 /\ reaper \in ReaperStates
                 /\ receipt \subseteq Attempts
                 /\ beat \in [lists : BOOLEAN, missed : BOOLEAN]

Typed == /\ JobTyped /\ RunsTyped /\ OutputTyped /\ BoxesTyped
         /\ WorkersTyped /\ SupsTyped /\ RecoveryTyped

LEMMA TypedIsTypeOK == Typed <=> StageTypeOK
  BY DEF Typed, JobTyped, RunsTyped, OutputTyped, BoxesTyped, WorkersTyped, SupsTyped,
         RecoveryTyped, RunRows, Failures, WorkerRows, SupRows, SweepStates, ReaperStates,
         StageTypeOK

-----------------------------------------------------------------------------
(* The inductive invariant *)

Setup == {"off", "starting", "creating", "recording", "attaching", "settingUp"}
Output == {"working", "marking", "finishing", "preparing", "publishing"}

(* Nothing exists of a claim that was not made... *)
Unclaimed(a) == a > job.claim =>
    /\ worker[a].at = "off" /\ run[a].status = "none"
    /\ sup[a].at = "off" /\ sup[a].lookup = 1

(* ... the run of a claim in force is open, and publishing it ends the job. *)
RunHasClaim(a) ==
    /\ Owned(a) => run[a].status \in {"none", "running"}
    /\ run[a].status = "success" =>
          intent[a] # "none" /\ job.status = "done" /\ job.claim = a

(* The order of a stage: a sandbox is held, marked and prepared one after   *)
(* the other, and recovery has no operation for a sandbox handed over.      *)
StepsInOrder(a) ==
    /\ worker[a].at \in Setup => ~worker[a].handle /\ ~worker[a].retain
    /\ worker[a].at \in {"off", "starting", "creating"} => box[a] = "none" /\ op[a] = "none"
    /\ worker[a].at \in Setup \cup {"working", "marking"} => ~run[a].marked
    /\ worker[a].at \in (Setup \cup Output) \ {"publishing"} => intent[a] = "none"
    /\ op[a] # "none" => /\ ~worker[a].handle /\ ~run[a].marked
                         /\ worker[a].at \notin Output

(* A held sandbox with the only copy of completed work is retained. *)
OnlyCopyIsRetained(a) ==
    /\ worker[a].at = "marking" => worker[a].retain
    /\ run[a].marked /\ worker[a].handle /\ ~copied[a] => worker[a].retain

(* A failure the processor is about to report spares recorded output, or    *)
(* the budget expired and asks for no retry.                                *)
FailureSpares(a) ==
    worker[a].at = "failing" /\ intent[a] = "open" =>
        \/ worker[a].fail.preserve
        \/ worker[a].abort = "budget" /\ ~worker[a].fail.retry

(* What the supervisor knows from its lookups. *)
LookupKnows(a) ==
    /\ sup[a].lookup = 2 => ~Owned(a) \/ run[a].status # "none"
    /\ sup[a].at = "retire" /\ sup[a].found => run[a].status # "none"
    /\ sup[a].at = "retire" /\ sup[a].lookup = 2 /\ ~sup[a].found => ~Owned(a)
    /\ sup[a].at = "retired" /\ Owned(a) => intent[a] # "none"

AttemptInv(a) ==
    /\ Unclaimed(a) /\ RunHasClaim(a) /\ StepsInOrder(a)
    /\ OnlyCopyIsRetained(a) /\ FailureSpares(a) /\ LookupKnows(a)

(* Whatever is about to be stopped by those who read earlier is still over, *)
(* and keeps nothing: what they read does not come back.  A published       *)
(* attempt that no heartbeat lists, or did when the reaper looked, has      *)
(* missed one.                                                              *)
Published == \E a \in Attempts : run[a].status = "success"
Over(a) == run[a].status \in Terminal /\ ~run[a].marked
RecoveryInv ==
    /\ \A a \in receipt : run[a].status = "canceled"
    /\ sweep.at = "stop" => Over(sweep.claim) /\ run[sweep.claim].status = "error"
    /\ reaper.at = "jobs" =>
          /\ \A a \in reaper.orphans : Over(a)
          /\ reaper.published = {a \in reaper.orphans : run[a].status = "success"}
    /\ reaper.at = "stop" =>
          \A a \in reaper.orphans : Over(a) /\ (run[a].status = "success" => beat.missed)
    /\ Published /\ ~beat.lists => beat.missed

(* A claim has a number. *)
ClaimInv == job.status = "claimed" => job.claim \in Attempts

StageInv == Typed /\ ClaimInv /\ (\A a \in Attempts : AttemptInv(a)) /\ RecoveryInv

-----------------------------------------------------------------------------
(* What one step does to one attempt *)

StatusMoves(a) ==
    \/ run'[a].status = run[a].status
    \/ run[a].status = "none" /\ run'[a].status = "running"
    \/ run[a].status = "running" /\ run'[a].status \in Terminal

(* Publication is not followed by a worker taking the sandbox again. *)
HandleMoves(a) ==
    run[a].status = "success" =>
        ((worker'[a].handle /\ Holds(a)') => (worker[a].handle /\ Holds(a)))

(* May the pipeline stop the sandbox in this step?  MayStop, by the rows.   *)
StopIsAllowed(a) ==
    /\ run[a].status = "canceled" \/ copied[a] \/ ~run[a].marked
    /\ \/ ~worker[a].handle \/ ~worker'[a].handle
       \/ run[a].status \in {"error", "canceled"}
       \/ run[a].status = "success" /\ beat.missed

StopMoves(a) ==
    \/ box'[a] = box[a]
    \/ box[a] = "none" /\ box'[a] = "up"
    \/ box[a] = "up" /\ box'[a] = "expired"
    \/ box[a] = "up" /\ box'[a] = "stopped" /\ StopIsAllowed(a)

MarkMoves(a) ==
    \/ copied'[a] = copied[a] /\ run'[a].marked = run[a].marked
    \/ copied'[a] = copied[a] /\ run'[a].marked /\ run[a].status = "running"
    \/ copied'[a]
    \/ /\ copied'[a] = copied[a] /\ ~run'[a].marked
       /\ box[a] \in {"stopped", "expired"}

(* A run that is over stays so, and is published while a heartbeat lists it *)
(* or missed.                                                               *)
EndIsFinal(a) ==
    /\ run[a].status \in Terminal => /\ run'[a].status = run[a].status
                                     /\ run'[a].marked => run[a].marked
    /\ run'[a].status = "success" /\ run[a].status # "success" =>
          beat'.lists \/ beat'.missed

Moves(a) == /\ StatusMoves(a) /\ HandleMoves(a) /\ StopMoves(a) /\ MarkMoves(a)
            /\ EndIsFinal(a)
Kept(a) == AttemptInv(a)' /\ Moves(a)

(* A step that leaves an attempt alone, whatever it does to another. *)
Same(b) ==
    /\ run'[b] = run[b] /\ intent'[b] = intent[b] /\ copied'[b] = copied[b]
    /\ box'[b] = box[b] /\ op'[b] = op[b]
    /\ worker'[b] = worker[b] /\ sup'[b] = sup[b]
(* What a published attempt has missed stays missed. *)
BeatMoves ==
    Published => /\ beat.missed => beat'.missed
                 /\ beat.lists /\ ~beat'.lists => beat'.missed

(* The job does not come back to a claim, nor to a claim's worker.          *)
JobMoves(b) ==
    /\ Owned(b)' => Owned(b)
    /\ b > job'.claim => b > job.claim
    /\ job.status = "done" => job' = job

LEMMA SameIsKept ==
    ASSUME NEW b \in Attempts, AttemptInv(b), Same(b), JobMoves(b)
    PROVE  Kept(b)
<1>1. Moves(b)
  BY DEF Same, Moves, StatusMoves, HandleMoves, StopMoves, MarkMoves, EndIsFinal, Holds
<1>2. Unclaimed(b)' /\ RunHasClaim(b)'
  BY DEF AttemptInv, Same, JobMoves, Unclaimed, RunHasClaim
<1>3. StepsInOrder(b)' /\ OnlyCopyIsRetained(b)' /\ FailureSpares(b)'
  BY DEF AttemptInv, Same, StepsInOrder, OnlyCopyIsRetained, FailureSpares
<1>4. LookupKnows(b)'
  BY DEF AttemptInv, Same, JobMoves, LookupKnows
<1> QED
  BY <1>1, <1>2, <1>3, <1>4 DEF Kept, AttemptInv

LEMMA BeatStays ==
    ASSUME beat' = beat
    PROVE  BeatMoves
  BY DEF BeatMoves

LEMMA JobStays ==
    ASSUME job' = job
    PROVE  \A b \in Attempts : JobMoves(b)
  BY DEF JobMoves, Owned

(* The others' readings stay good while runs end for good. *)
LEMMA ReadingsStay ==
    ASSUME RecoveryTyped, RecoveryInv, UNCHANGED <<sweep, reaper, receipt>>, BeatMoves,
           beat' \in [lists : BOOLEAN, missed : BOOLEAN],
           \A b \in Attempts : EndIsFinal(b)
    PROVE  RecoveryTyped' /\ RecoveryInv'
<1>1. RecoveryTyped'
  BY DEF RecoveryTyped
<1>2. \A b \in Attempts : Over(b) => Over(b)' /\ run'[b].status = run[b].status
  BY DEF EndIsFinal, Over
<1>3. sweep.at = "stop" => sweep.claim \in Attempts
  BY DEF RecoveryTyped
<1>4. receipt \subseteq Attempts /\ reaper.orphans \subseteq Attempts
  BY DEF RecoveryTyped, ReaperStates
<1>5. \A b \in Attempts : run[b].status = "canceled" => run'[b].status = "canceled"
  BY DEF EndIsFinal, Terminal
<1>6. \A b \in Attempts : run[b].status = "success" /\ beat.missed => beat'.missed
  BY DEF BeatMoves, Published
<1>7. Published' /\ ~beat'.lists => beat'.missed
  <2>1. SUFFICES ASSUME Published', ~beat'.lists PROVE beat'.missed
    OBVIOUS
  <2>2. PICK b \in Attempts : run'[b].status = "success"
    BY <2>1 DEF Published
  <2>3. CASE run[b].status = "success"
    BY <2>1, <2>3 DEF RecoveryInv, BeatMoves, Published
  <2>4. CASE run[b].status # "success"
    BY <2>1, <2>2, <2>4 DEF EndIsFinal
  <2> QED
    BY <2>3, <2>4
<1>8. reaper.at = "stop" => \A b \in reaper.orphans :
         Over(b)' /\ (run'[b].status = "success" => beat'.missed)
  BY <1>2, <1>4, <1>6 DEF RecoveryInv
<1> QED
  BY <1>1, <1>2, <1>3, <1>4, <1>5, <1>7, <1>8 DEF RecoveryInv

(* The fields of the program that moves *)

LEMMA GotoFields ==
    ASSUME WorkersTyped, NEW a \in Attempts, NEW step \in WorkerSteps, Goto(a, step)
    PROVE  /\ WorkersTyped' /\ \A b \in Attempts \ {a} : worker'[b] = worker[b]
           /\ worker'[a].at = step
           /\ worker'[a].handle = worker[a].handle /\ worker'[a].retain = worker[a].retain
           /\ worker'[a].abort = worker[a].abort /\ worker'[a].fail = worker[a].fail
  BY DEF WorkersTyped, WorkerRows, Goto

LEMMA FailsFields ==
    ASSUME WorkersTyped, NEW a \in Attempts, NEW failure \in Failures, Fails(a, failure)
    PROVE  /\ WorkersTyped' /\ \A b \in Attempts \ {a} : worker'[b] = worker[b]
           /\ worker'[a].at = "ending" \/ worker'[a].at = "failing"
           /\ worker[a].abort = "deadline" => worker'[a].at = "ending"
           /\ worker'[a].handle = worker[a].handle /\ worker'[a].retain = worker[a].retain
           /\ worker'[a].abort = worker[a].abort
           /\ worker[a].abort = "none" => worker'[a].fail = failure
           /\ worker[a].abort # "none" => worker'[a].fail.retry = FALSE
<1>1. Failure(TRUE, FALSE, FALSE) \in Failures /\ Failure(TRUE, FALSE, FALSE).retry = FALSE
  BY DEF Failure, Failures
<1>2. {"ending", "failing"} \subseteq WorkerSteps
  BY DEF WorkerSteps
<1> QED
  BY <1>1, <1>2 DEF WorkersTyped, WorkerRows, Fails

LEMMA AbortFields ==
    ASSUME WorkersTyped, NEW a \in Attempts, NEW cause \in {"deadline", "budget"},
           Abort(a, cause)
    PROVE  /\ WorkersTyped' /\ \A b \in Attempts \ {a} : worker'[b] = worker[b]
           /\ worker'[a].at = worker[a].at /\ worker'[a].retain = worker[a].retain
           /\ worker'[a].handle => worker[a].handle
           /\ StopsBox(a) => ~worker'[a].handle
           /\ worker'[a].fail = worker[a].fail
           /\ worker[a].at \in {"failing", "ending"} => worker'[a].abort = worker[a].abort
  BY DEF WorkersTyped, WorkerRows, Abort, StopsBox

LEMMA FailureRows ==
    \A named, retry, preserve \in BOOLEAN :
        /\ Failure(named, retry, preserve) \in Failures
        /\ Failure(named, retry, preserve).preserve = preserve
        /\ Failure(named, retry, preserve).retry = retry
  BY DEF Failure, Failures
-----------------------------------------------------------------------------
(* The processor *)

(* A step of one attempt that the others do not notice. *)
OneKept(a) == /\ Typed' /\ Kept(a)
              /\ \A b \in Attempts \ {a} : Same(b) /\ JobMoves(b)

LEMMA StartKept ==
    ASSUME StageInv, NEW a \in Attempts, Start(a)
    PROVE  OneKept(a)
<1>1. Typed /\ AttemptInv(a)
  BY DEF StageInv
<1>2. /\ worker[a].at = "starting" /\ run' \in {run, Opened(a)}
      /\ run' = Opened(a) => StartApplies(a) \/ run' = run
      /\ Goto(a, "creating") \/ \E failure \in Failures : Fails(a, failure)
      /\ UNCHANGED <<job, intent, copied, box, op, sup, sweep, reaper, receipt, beat>>
  BY FailureRows DEF Start, At, boxes, recovery
<1>3. /\ WorkersTyped' /\ \A b \in Attempts \ {a} : worker'[b] = worker[b]
      /\ worker'[a].at \in {"creating", "ending", "failing"}
      /\ worker'[a].handle = worker[a].handle /\ worker'[a].retain = worker[a].retain
  BY <1>1, <1>2, GotoFields, FailsFields DEF Typed, WorkerSteps
<1>4. /\ RunsTyped' /\ \A b \in Attempts \ {a} : run'[b] = run[b]
      /\ run'[a].marked = run[a].marked
      /\ \/ run'[a] = run[a]
         \/ run[a].status = "none" /\ run'[a].status = "running" /\ Owned(a)
  BY <1>1, <1>2 DEF Typed, RunsTyped, RunRows, RunStates, Opened, StartApplies
<1>5. Typed'
  BY <1>1, <1>2, <1>3, <1>4
     DEF Typed, JobTyped, OutputTyped, BoxesTyped, SupsTyped, RecoveryTyped
<1>6. \A b \in Attempts \ {a} : Same(b) /\ JobMoves(b)
  BY <1>2, <1>3, <1>4, JobStays DEF Same
<1>7. AttemptInv(a)'
  BY <1>1, <1>2, <1>3, <1>4
     DEF AttemptInv, Unclaimed, RunHasClaim, StepsInOrder, OnlyCopyIsRetained, FailureSpares,
         LookupKnows, Owned, Setup, Output
<1>8. Moves(a)
  BY <1>1, <1>2, <1>3, <1>4
     DEF Moves, StatusMoves, HandleMoves, StopMoves, MarkMoves, EndIsFinal, Holds, Terminal
<1> QED
  BY <1>5, <1>6, <1>7, <1>8 DEF OneKept, Kept
(* A step of the processor that writes nothing. *)
LEMMA WorkerAlone ==
    ASSUME StageInv, NEW a \in Attempts, worker[a].at # "off",
           UNCHANGED <<ledger, boxes, sup, recovery>>, WorkersTyped',
           \A b \in Attempts \ {a} : worker'[b] = worker[b],
           worker'[a].handle = worker[a].handle,
           StepsInOrder(a)', OnlyCopyIsRetained(a)', FailureSpares(a)'
    PROVE  OneKept(a)
<1>1. Typed /\ AttemptInv(a)
  BY DEF StageInv
<1>2. UNCHANGED <<job, run, intent, copied, box, op, sup, sweep, reaper, receipt, beat>>
  BY DEF ledger, boxes, recovery
<1>3. Typed'
  BY <1>1, <1>2
     DEF Typed, JobTyped, RunsTyped, OutputTyped, BoxesTyped, SupsTyped, RecoveryTyped
<1>4. \A b \in Attempts \ {a} : Same(b) /\ JobMoves(b)
  BY <1>2, JobStays DEF Same
<1>5. Unclaimed(a)' /\ RunHasClaim(a)' /\ LookupKnows(a)'
  BY <1>1, <1>2 DEF AttemptInv, Unclaimed, RunHasClaim, LookupKnows, Owned
<1>6. Moves(a)
  BY <1>2 DEF Moves, StatusMoves, HandleMoves, StopMoves, MarkMoves, EndIsFinal, Holds
<1> QED
  BY <1>3, <1>4, <1>5, <1>6 DEF OneKept, Kept, AttemptInv

LEMMA QuietKept ==
    ASSUME StageInv, NEW a \in Attempts,
           \/ AgentFails(a) \/ OwnershipLost(a) \/ AgentCompletes(a)
           \/ Publish(a) \/ ObserveAbort(a)
    PROVE  OneKept(a)
<1>1. WorkersTyped /\ AttemptInv(a)
  BY DEF StageInv, Typed
<1>2. UNCHANGED <<ledger, boxes, sup, recovery>>
  BY DEF AgentFails, OwnershipLost, AgentCompletes, Publish, ObserveAbort
<1> USE DEF At
<1>3. CASE AgentFails(a)
  <2>1. worker[a].at \in {"working", "finishing"}
    BY <1>3 DEF AgentFails
  <2>2. PICK failure \in Failures : Fails(a, failure)
    <3>1. Unprepared \in Failures /\ \A r \in BOOLEAN : Failure(TRUE, r, FALSE) \in Failures
      BY FailureRows DEF Unprepared
    <3> QED
      BY <1>1, <1>3, <3>1 DEF AgentFails, WorkersTyped, WorkerRows
  <2>3. /\ StepsInOrder(a)' /\ OnlyCopyIsRetained(a)' /\ FailureSpares(a)'
    BY <1>1, <1>2, <2>1, <2>2, FailsFields
       DEF AttemptInv, StepsInOrder, OnlyCopyIsRetained, FailureSpares, Setup, Output,
           ledger, boxes
  <2> QED
    BY <1>1, <1>2, <2>1, <2>2, <2>3, FailsFields, WorkerAlone
<1>4. CASE OwnershipLost(a) \/ Publish(a)
  <2>1. worker[a].at \in {"working", "finishing", "publishing"} /\ Goto(a, "ending")
    BY <1>4 DEF OwnershipLost, Publish
  <2>2. "ending" \in WorkerSteps
    BY DEF WorkerSteps
  <2>3. /\ StepsInOrder(a)' /\ OnlyCopyIsRetained(a)' /\ FailureSpares(a)'
    BY <1>1, <1>2, <2>1, <2>2, GotoFields
       DEF AttemptInv, StepsInOrder, OnlyCopyIsRetained, FailureSpares, Setup, Output,
           ledger, boxes
  <2> QED
    BY <1>1, <1>2, <2>1, <2>2, <2>3, GotoFields, WorkerAlone
<1>5. CASE AgentCompletes(a)
  <2>1. /\ worker[a].at = "working" /\ worker'[a].at = "marking" /\ worker'[a].retain
        /\ worker'[a].handle = worker[a].handle /\ WorkersTyped'
        /\ \A b \in Attempts \ {a} : worker'[b] = worker[b]
    BY <1>1, <1>5 DEF AgentCompletes, WorkersTyped, WorkerRows, WorkerSteps
  <2>2. /\ StepsInOrder(a)' /\ OnlyCopyIsRetained(a)' /\ FailureSpares(a)'
    BY <1>1, <1>2, <2>1
       DEF AttemptInv, StepsInOrder, OnlyCopyIsRetained, FailureSpares, Setup, Output,
           ledger, boxes
  <2> QED
    BY <1>2, <2>1, <2>2, WorkerAlone
<1>6. CASE ObserveAbort(a)
  <2>1. /\ worker[a].at \in {"working", "finishing", "preparing", "publishing"}
        /\ worker[a].abort # "none"
        /\ Fails(a, NoFailure) /\ NoFailure \in Failures
    BY <1>6, FailureRows DEF ObserveAbort, NoFailure
  <2>2. worker[a].abort \in {"deadline", "budget"}
    BY <1>1, <2>1 DEF WorkersTyped, WorkerRows
  <2>3. /\ StepsInOrder(a)' /\ OnlyCopyIsRetained(a)' /\ FailureSpares(a)'
    BY <1>1, <1>2, <2>1, <2>2, FailsFields
       DEF AttemptInv, StepsInOrder, OnlyCopyIsRetained, FailureSpares, Setup, Output,
           ledger, boxes
  <2> QED
    BY <1>1, <1>2, <2>1, <2>3, FailsFields, WorkerAlone
<1> QED
  BY <1>3, <1>4, <1>5, <1>6

(* Acquisition: the sandbox and its operation appear, the run may learn of  *)
(* it, and nothing is marked or prepared.                                   *)
LEMMA AcquiringKept ==
    ASSUME StageInv, NEW a \in Attempts,
           worker[a].at \in {"creating", "recording", "attaching", "settingUp"},
           UNCHANGED <<job, intent, copied, sup, recovery>>,
           WorkersTyped', BoxesTyped', RunsTyped',
           \A b \in Attempts \ {a} : /\ worker'[b] = worker[b] /\ run'[b] = run[b]
                                     /\ box'[b] = box[b] /\ op'[b] = op[b],
           run'[a].status = run[a].status, run'[a].marked = run[a].marked,
           StopMoves(a), StepsInOrder(a)', worker'[a].at # "marking"
    PROVE  OneKept(a)
<1>1. Typed /\ AttemptInv(a)
  BY DEF StageInv
<1>2. UNCHANGED <<sweep, reaper, receipt, beat>>
  BY DEF recovery
<1>3. Typed'
  BY <1>1, <1>2 DEF Typed, JobTyped, OutputTyped, SupsTyped, RecoveryTyped
<1>4. \A b \in Attempts \ {a} : Same(b) /\ JobMoves(b)
  BY JobStays DEF Same
<1>5. intent[a] = "none" /\ ~run[a].marked /\ run[a].status # "success"
  BY <1>1 DEF AttemptInv, RunHasClaim, StepsInOrder, Setup
<1>6. Unclaimed(a)' /\ RunHasClaim(a)' /\ LookupKnows(a)'
  BY <1>1, <1>5 DEF AttemptInv, Unclaimed, RunHasClaim, LookupKnows, Owned
<1>7. OnlyCopyIsRetained(a)' /\ FailureSpares(a)'
  BY <1>5 DEF OnlyCopyIsRetained, FailureSpares
<1>8. Moves(a)
  BY <1>5 DEF Moves, StatusMoves, HandleMoves, MarkMoves, EndIsFinal
<1> QED
  BY <1>3, <1>4, <1>6, <1>7, <1>8 DEF OneKept, Kept, AttemptInv
LEMMA AcquisitionKept ==
    ASSUME StageInv, NEW a \in Attempts,
           Create(a) \/ Record(a) \/ Attach(a) \/ Acquired(a) \/ AcquisitionFails(a)
    PROVE  OneKept(a)
<1>1. /\ Typed /\ WorkersTyped /\ RunsTyped /\ BoxesTyped
      /\ run \in [Attempts -> RunRows] /\ worker \in [Attempts -> WorkerRows]
      /\ box \in [Attempts -> {"none", "up", "stopped", "expired"}]
      /\ op \in [Attempts -> {"none", "recorded", "failed"}]
      /\ AttemptInv(a)
  BY DEF StageInv, Typed, RunsTyped, WorkersTyped, BoxesTyped
<1>2. worker[a].at \in {"creating", "recording", "attaching", "settingUp"}
  BY DEF Create, Record, Attach, Acquired, AcquisitionFails, At
<1>3. /\ ~worker[a].handle /\ ~worker[a].retain /\ ~run[a].marked /\ intent[a] = "none"
      /\ worker[a].at = "creating" => box[a] = "none" /\ op[a] = "none"
  BY <1>1, <1>2 DEF AttemptInv, StepsInOrder, Setup
<1>4. UNCHANGED <<job, intent, copied, sup, recovery>>
  BY DEF Create, Record, Attach, Acquired, AcquisitionFails, ledger
<1>5. \A named, retry, preserve \in BOOLEAN : Failure(named, retry, preserve) \in Failures
  BY FailureRows
<1>6. {"recording", "attaching", "settingUp", "working", "ending"} \subseteq WorkerSteps
  BY DEF WorkerSteps
<1> USE DEF At
<1>7. CASE Create(a)
  <2>1. /\ UNCHANGED <<run, op>> /\ worker[a].at = "creating"
        /\ \/ box' = [box EXCEPT ![a] = "up"] /\ Goto(a, "recording")
           \/ UNCHANGED box /\ Goto(a, "ending")
           \/ UNCHANGED box /\ Fails(a, Failure(TRUE, TRUE, FALSE))
    BY <1>7 DEF Create, ledger
  <2>2. /\ WorkersTyped' /\ \A b \in Attempts \ {a} : worker'[b] = worker[b]
        /\ worker'[a].at \in {"recording", "ending", "failing"}
        /\ ~worker'[a].handle /\ ~worker'[a].retain
    BY <1>1, <1>3, <1>5, <1>6, <2>1, GotoFields, FailsFields
  <2>3. /\ BoxesTyped' /\ \A b \in Attempts \ {a} : box'[b] = box[b]
        /\ box'[a] = box[a] \/ box'[a] = "up"
    BY <1>1, <2>1 DEF BoxesTyped
  <2>4. StopMoves(a)
    BY <1>3, <2>1, <2>3 DEF StopMoves
  <2>5. StepsInOrder(a)'
    BY <1>3, <1>4, <2>1, <2>2 DEF StepsInOrder, Setup, Output
  <2>6. RunsTyped' /\ run' = run /\ op' = op
    BY <1>1, <2>1 DEF RunsTyped
  <2> QED
    BY <1>2, <1>4, <2>2, <2>3, <2>4, <2>5, <2>6, AcquiringKept
<1>8. CASE Record(a)
  <2>1. /\ UNCHANGED <<run, box>> /\ worker[a].at = "recording"
        /\ Goto(a, "attaching") /\ op' = [op EXCEPT ![a] = "recorded"]
    BY <1>8 DEF Record, ledger
  <2>2. /\ WorkersTyped' /\ \A b \in Attempts \ {a} : worker'[b] = worker[b]
        /\ worker'[a].at = "attaching" /\ ~worker'[a].handle /\ ~worker'[a].retain
    BY <1>1, <1>3, <1>6, <2>1, GotoFields
  <2>3. /\ BoxesTyped' /\ RunsTyped' /\ \A b \in Attempts \ {a} : op'[b] = op[b]
        /\ StopMoves(a)
    BY <1>1, <2>1 DEF BoxesTyped, RunsTyped, StopMoves
  <2>4. StepsInOrder(a)'
    BY <1>3, <1>4, <2>1, <2>2 DEF StepsInOrder, Setup, Output
  <2> QED
    BY <1>2, <1>4, <2>1, <2>2, <2>3, <2>4, AcquiringKept
<1>9. CASE Attach(a)
  <2>1. worker[a].at = "attaching"
    BY <1>9 DEF Attach
  <2>2. /\ WorkersTyped' /\ \A b \in Attempts \ {a} : worker'[b] = worker[b]
        /\ worker'[a].at \in {"settingUp", "ending"}
        /\ ~worker'[a].handle /\ ~worker'[a].retain
    BY <1>1, <1>3, <1>6, <1>9, GotoFields DEF Attach
  <2>3. /\ RunsTyped' /\ \A b \in Attempts \ {a} : run'[b] = run[b]
        /\ run'[a].status = run[a].status /\ run'[a].marked = run[a].marked
    BY <1>1, <1>9 DEF Attach, RunsTyped, RunRows
  <2>4. /\ BoxesTyped' /\ \A b \in Attempts \ {a} : box'[b] = box[b] /\ op'[b] = op[b]
        /\ box'[a] = box[a] \/ (box[a] = "up" /\ box'[a] = "stopped")
    BY <1>1, <1>9 DEF Attach, BoxesTyped, boxes
  <2>5. StopMoves(a)
    BY <1>3, <2>4 DEF StopMoves, StopIsAllowed
  <2>6. StepsInOrder(a)'
    BY <1>3, <1>4, <2>2, <2>3 DEF StepsInOrder, Setup, Output
  <2> QED
    BY <1>2, <1>4, <2>2, <2>3, <2>4, <2>5, <2>6, AcquiringKept
<1>10. CASE Acquired(a)
  <2>1. /\ UNCHANGED <<run, box>>
        /\ \E left \in {"none", "recorded", "failed"} : op' = [op EXCEPT ![a] = left]
        /\ \/ /\ op' = [op EXCEPT ![a] = "none"]
              /\ worker' = [worker EXCEPT ![a].at = "working", ![a].handle = TRUE]
           \/ Fails(a, Failure(TRUE, TRUE, FALSE))
    BY <1>10 DEF Acquired, ledger
  <2>2. /\ BoxesTyped' /\ RunsTyped' /\ \A b \in Attempts \ {a} : op'[b] = op[b]
        /\ StopMoves(a)
    BY <1>1, <2>1 DEF BoxesTyped, RunsTyped, StopMoves
  <2>3. /\ WorkersTyped' /\ \A b \in Attempts \ {a} : worker'[b] = worker[b]
        /\ \/ worker'[a].at = "working" /\ op'[a] = "none"
           \/ worker'[a].at \in {"ending", "failing"} /\ ~worker'[a].handle
    <3>1. CASE /\ op' = [op EXCEPT ![a] = "none"]
               /\ worker' = [worker EXCEPT ![a].at = "working", ![a].handle = TRUE]
      BY <1>1, <1>6, <3>1 DEF WorkersTyped, WorkerRows
    <3>2. CASE Fails(a, Failure(TRUE, TRUE, FALSE))
      BY <1>1, <1>3, <1>5, <3>2, FailsFields
    <3> QED
      BY <2>1, <3>1, <3>2
  <2>4. StepsInOrder(a)'
    BY <1>3, <1>4, <2>1, <2>3 DEF StepsInOrder, Setup, Output
  <2> QED
    BY <1>2, <1>4, <2>1, <2>2, <2>3, <2>4, AcquiringKept
<1>11. CASE AcquisitionFails(a)
  <2>1. /\ WorkersTyped' /\ \A b \in Attempts \ {a} : worker'[b] = worker[b]
        /\ worker'[a].at \in {"ending", "failing"}
        /\ ~worker'[a].handle /\ ~worker'[a].retain
    BY <1>1, <1>3, <1>5, <1>11, FailsFields DEF AcquisitionFails
  <2>2. /\ RunsTyped' /\ \A b \in Attempts \ {a} : run'[b] = run[b]
        /\ run'[a].status = run[a].status /\ run'[a].marked = run[a].marked
    <3>1. CASE UNCHANGED run
      BY <1>1, <3>1 DEF RunsTyped
    <3>2. CASE run[a].status = "running" /\ run' = [run EXCEPT ![a].box = TRUE]
      BY <1>1, <3>2 DEF RunsTyped, RunRows
    <3> QED
      BY <1>11, <3>1, <3>2 DEF AcquisitionFails
  <2>3. /\ BoxesTyped' /\ \A b \in Attempts \ {a} : box'[b] = box[b] /\ op'[b] = op[b]
        /\ box'[a] = box[a] \/ (box[a] = "up" /\ box'[a] = "stopped")
    BY <1>1, <1>11 DEF AcquisitionFails, BoxesTyped
  <2>4. StopMoves(a)
    BY <1>3, <2>3 DEF StopMoves, StopIsAllowed
  <2>5. StepsInOrder(a)'
    BY <1>3, <1>4, <2>1, <2>2 DEF StepsInOrder, Setup, Output
  <2> QED
    BY <1>2, <1>4, <2>1, <2>2, <2>3, <2>4, <2>5, AcquiringKept
<1> QED
  BY <1>7, <1>8, <1>9, <1>10, <1>11

(* The completed work: marked, uploaded, prepared. *)
LEMMA MarkKept ==
    ASSUME StageInv, NEW a \in Attempts, Mark(a)
    PROVE  OneKept(a)
<1>1. Typed /\ AttemptInv(a)
  BY DEF StageInv
<1>2. /\ UNCHANGED <<job, intent, copied, box, op, sup, sweep, reaper, receipt, beat>>
      /\ worker[a].at = "marking"
  BY DEF Mark, At, boxes, recovery
<1>3. /\ RunsTyped' /\ \A b \in Attempts \ {a} : run'[b] = run[b]
      /\ run'[a].status = run[a].status
      /\ run'[a].marked => run[a].marked \/ run[a].status = "running"
  BY <1>1 DEF Mark, Typed, RunsTyped, RunRows, Marked, MayMark
<1>4. /\ WorkersTyped' /\ \A b \in Attempts \ {a} : worker'[b] = worker[b]
      /\ worker'[a].handle = worker[a].handle
      /\ \/ worker'[a].at = "finishing" /\ worker'[a].retain = worker[a].retain
         \/ worker'[a].at = "ending" /\ run' = run
  <2>1. "finishing" \in WorkerSteps /\ "ending" \in WorkerSteps
    BY DEF WorkerSteps
  <2>2. CASE Goto(a, "finishing")
    BY <1>1, <2>1, <2>2, GotoFields DEF Typed
  <2>3. CASE /\ worker' = [worker EXCEPT ![a].at = "ending", ![a].retain = FALSE]
             /\ UNCHANGED run
    BY <1>1, <2>1, <2>3 DEF Typed, WorkersTyped, WorkerRows
  <2> QED
    BY <2>2, <2>3 DEF Mark
<1>5. Typed'
  BY <1>1, <1>2, <1>3, <1>4
     DEF Typed, JobTyped, OutputTyped, BoxesTyped, SupsTyped, RecoveryTyped
<1>6. \A b \in Attempts \ {a} : Same(b) /\ JobMoves(b)
  BY <1>2, <1>3, <1>4, JobStays DEF Same
<1>7. AttemptInv(a)'
  BY <1>1, <1>2, <1>3, <1>4
     DEF AttemptInv, Unclaimed, RunHasClaim, StepsInOrder, OnlyCopyIsRetained, FailureSpares,
         LookupKnows, Owned, Setup, Output
<1>8. MarkMoves(a)
  <2>1. ~run[a].marked /\ run'[a].marked \in BOOLEAN /\ run[a].marked \in BOOLEAN
    BY <1>1, <1>2, <1>3 DEF AttemptInv, StepsInOrder, Setup, Typed, RunsTyped, RunRows
  <2> QED
    BY <1>2, <1>3, <2>1 DEF MarkMoves
<1>9. Moves(a)
  BY <1>2, <1>3, <1>4, <1>8
     DEF Moves, StatusMoves, HandleMoves, StopMoves, EndIsFinal, Holds, Terminal
<1> QED
  BY <1>5, <1>6, <1>7, <1>9 DEF OneKept, Kept
LEMMA UploadKept ==
    ASSUME StageInv, NEW a \in Attempts, Upload(a)
    PROVE  OneKept(a)
<1>1. Typed /\ AttemptInv(a)
  BY DEF StageInv
<1>2. /\ UNCHANGED <<job, run, intent, box, op, sup, sweep, reaper, receipt, beat>>
      /\ worker[a].at = "finishing"
  BY DEF Upload, At, boxes, recovery
<1>3. /\ OutputTyped' /\ WorkersTyped'
      /\ \A b \in Attempts \ {a} : copied'[b] = copied[b] /\ worker'[b] = worker[b]
      /\ worker'[a].at = "preparing" /\ worker'[a].handle = worker[a].handle
      /\ copied'[a] \/ (copied'[a] = copied[a] /\ worker'[a].retain = worker[a].retain)
  <2>1. "preparing" \in WorkerSteps
    BY DEF WorkerSteps
  <2>2. CASE /\ copied' = [copied EXCEPT ![a] = TRUE]
             /\ worker' = [worker EXCEPT ![a].at = "preparing", ![a].retain = FALSE]
    <3>1. OutputTyped' /\ copied'[a] /\ \A b \in Attempts \ {a} : copied'[b] = copied[b]
      BY <1>1, <1>2, <2>2 DEF Typed, OutputTyped
    <3>2. /\ WorkersTyped' /\ \A b \in Attempts \ {a} : worker'[b] = worker[b]
          /\ worker'[a].at = "preparing" /\ worker'[a].handle = worker[a].handle
      BY <1>1, <2>1, <2>2 DEF Typed, WorkersTyped, WorkerRows
    <3> QED
      BY <3>1, <3>2
  <2>3. CASE Goto(a, "preparing") /\ UNCHANGED copied
    BY <1>1, <1>2, <2>1, <2>3, GotoFields DEF Typed, OutputTyped
  <2> QED
    BY <2>2, <2>3 DEF Upload
<1>4. Typed'
  BY <1>1, <1>2, <1>3
     DEF Typed, JobTyped, RunsTyped, BoxesTyped, SupsTyped, RecoveryTyped
<1>5. \A b \in Attempts \ {a} : Same(b) /\ JobMoves(b)
  BY <1>2, <1>3, JobStays DEF Same
<1>6. AttemptInv(a)'
  BY <1>1, <1>2, <1>3
     DEF AttemptInv, Unclaimed, RunHasClaim, StepsInOrder, OnlyCopyIsRetained, FailureSpares,
         LookupKnows, Owned, Setup, Output
<1>7. Moves(a)
  BY <1>2, <1>3 DEF Moves, StatusMoves, HandleMoves, StopMoves, MarkMoves, EndIsFinal, Holds
<1> QED
  BY <1>4, <1>5, <1>6, <1>7 DEF OneKept, Kept

LEMMA PrepareKept ==
    ASSUME StageInv, NEW a \in Attempts, Prepare(a)
    PROVE  OneKept(a)
<1>1. /\ Typed /\ AttemptInv(a)
      /\ run \in [Attempts -> RunRows] /\ intent \in [Attempts -> {"none", "open", "lapsed", "settled"}]
      /\ copied \in [Attempts -> BOOLEAN]
  BY DEF StageInv, Typed, RunsTyped, OutputTyped
<1>2. /\ UNCHANGED <<job, box, op, sup, sweep, reaper, receipt, beat>>
      /\ worker[a].at = "preparing" /\ intent[a] = "none"
  BY <1>1 DEF Prepare, At, boxes, recovery, AttemptInv, StepsInOrder, Setup, Output
<1>3. \/ UNCHANGED <<run, intent, copied>>
      \/ MayPrepare(a) /\ Prepared(a)
  BY DEF Prepare
<1>4. /\ RunsTyped' /\ OutputTyped'
      /\ \A b \in Attempts \ {a} : /\ run'[b] = run[b] /\ intent'[b] = intent[b]
                                   /\ copied'[b] = copied[b]
      /\ run'[a].status = run[a].status
      /\ \/ run'[a] = run[a] /\ intent'[a] = "none" /\ copied'[a] = copied[a]
         \/ ~run'[a].marked /\ intent'[a] = "open" /\ copied'[a] /\ MayPrepare(a)
  <2>1. CASE UNCHANGED <<run, intent, copied>>
    BY <1>1, <1>2, <2>1 DEF Typed, RunsTyped, OutputTyped
  <2>2. CASE MayPrepare(a) /\ Prepared(a)
    <3>1. /\ RunsTyped' /\ \A b \in Attempts \ {a} : run'[b] = run[b]
          /\ run'[a].status = run[a].status /\ ~run'[a].marked
      BY <1>1, <2>2 DEF Prepared, Typed, RunsTyped, RunRows
    <3>2. /\ OutputTyped' /\ intent'[a] = "open" /\ copied'[a]
          /\ \A b \in Attempts \ {a} : intent'[b] = intent[b] /\ copied'[b] = copied[b]
      BY <1>1, <2>2 DEF Prepared, OutputTyped
    <3> QED
      BY <2>2, <3>1, <3>2
  <2> QED
    BY <1>3, <2>1, <2>2
<1>5. /\ WorkersTyped' /\ \A b \in Attempts \ {a} : worker'[b] = worker[b]
      /\ worker'[a].handle = worker[a].handle
      /\ \/ /\ worker'[a].at = "publishing" /\ copied'[a]
         \/ /\ worker'[a].at = "ending" /\ worker'[a].retain = worker[a].retain
         \/ /\ worker'[a].at = "failing" /\ worker'[a].retain = worker[a].retain
            /\ \/ worker'[a].fail.preserve
               \/ worker'[a].abort = "budget" /\ ~worker'[a].fail.retry
  <2>1. {"publishing", "ending"} \subseteq WorkerSteps
    BY DEF WorkerSteps
  <2>2. CASE /\ MayPrepare(a) /\ Prepared(a)
             /\ worker' = [worker EXCEPT ![a].at = "publishing", ![a].retain = FALSE]
    <3>1. copied'[a]
      BY <1>1, <2>2 DEF Prepared
    <3>2. /\ WorkersTyped' /\ \A b \in Attempts \ {a} : worker'[b] = worker[b]
          /\ worker'[a].handle = worker[a].handle /\ worker'[a].at = "publishing"
      BY <1>1, <2>1, <2>2 DEF Typed, WorkersTyped, WorkerRows
    <3> QED
      BY <3>1, <3>2
  <2>3. CASE Goto(a, "ending")
    BY <1>1, <2>1, <2>3, GotoFields DEF Typed
  <2>4. CASE Fails(a, Unprepared)
    <3>1. Unprepared \in Failures /\ Unprepared.preserve
      BY FailureRows DEF Unprepared
    <3>2. worker[a].abort \in {"none", "deadline", "budget"}
      BY <1>1 DEF Typed, WorkersTyped, WorkerRows
    <3> QED
      BY <1>1, <2>4, <3>1, <3>2, FailsFields DEF Typed
  <2> QED
    BY <2>2, <2>3, <2>4 DEF Prepare
<1>6. Typed'
  BY <1>1, <1>2, <1>4, <1>5 DEF Typed, JobTyped, BoxesTyped, SupsTyped, RecoveryTyped
<1>7. \A b \in Attempts \ {a} : Same(b) /\ JobMoves(b)
  BY <1>2, <1>4, <1>5, JobStays DEF Same
<1>8. Unclaimed(a)' /\ RunHasClaim(a)' /\ LookupKnows(a)'
  BY <1>1, <1>2, <1>4, <1>5 DEF AttemptInv, Unclaimed, RunHasClaim, LookupKnows, Owned
<1>9. StepsInOrder(a)'
  <2>1. op[a] # "none" => FALSE
    BY <1>1, <1>2 DEF AttemptInv, StepsInOrder, Output
  <2> QED
    BY <1>2, <1>5, <2>1 DEF StepsInOrder, Setup, Output
<1>10. OnlyCopyIsRetained(a)' /\ FailureSpares(a)'
  BY <1>1, <1>2, <1>4, <1>5 DEF AttemptInv, OnlyCopyIsRetained, FailureSpares
<1>11. Moves(a)
  BY <1>2, <1>4, <1>5
     DEF Moves, StatusMoves, HandleMoves, StopMoves, MarkMoves, EndIsFinal, Holds, Terminal,
         MayPrepare
<1> QED
  BY <1>6, <1>7, <1>8, <1>9, <1>10, <1>11 DEF OneKept, Kept, AttemptInv

(* The sandbox is asked to stop: by the end of the processor, or by an      *)
(* abort.  Whoever asks lets go of it in the same step.                     *)
LEMMA LettingGo ==
    ASSUME StageInv, NEW a \in Attempts, box' = BoxAfterStop(a),
           worker'[a].handle => worker[a].handle,
           StopsBox(a) => ~worker'[a].handle,
           UNCHANGED <<run, copied>>, Holds(a)' => Holds(a)
    PROVE  /\ box' \in [Attempts -> {"none", "up", "stopped", "expired"}]
           /\ \A b \in Attempts \ {a} : box'[b] = box[b]
           /\ box[a] = "none" => box'[a] = "none"
           /\ Moves(a)
<1>1. /\ box \in [Attempts -> {"none", "up", "stopped", "expired"}]
      /\ copied \in [Attempts -> BOOLEAN]
      /\ AttemptInv(a)
  BY DEF StageInv, Typed, BoxesTyped, OutputTyped
<1>2. /\ box' \in [Attempts -> {"none", "up", "stopped", "expired"}]
      /\ \A b \in Attempts \ {a} : box'[b] = box[b]
      /\ \/ box'[a] = box[a]
         \/ box[a] = "up" /\ box'[a] = "stopped" /\ StopsBox(a)
  BY <1>1 DEF BoxAfterStop
<1>3. StopsBox(a) => copied[a] \/ ~run[a].marked
  BY <1>1 DEF StopsBox, AttemptInv, OnlyCopyIsRetained
<1>4. StopMoves(a)
  BY <1>2, <1>3 DEF StopMoves, StopIsAllowed
<1>5. Moves(a)
  BY <1>4 DEF Moves, StatusMoves, HandleMoves, MarkMoves, EndIsFinal
<1> QED
  BY <1>2, <1>5

LEMMA EndKept ==
    ASSUME StageInv, NEW a \in Attempts, End(a)
    PROVE  OneKept(a)
<1>1. Typed /\ AttemptInv(a)
  BY DEF StageInv
<1>2. /\ UNCHANGED <<job, run, intent, copied, op, sup, sweep, reaper, receipt, beat>>
      /\ worker[a].at = "ending" /\ box' = BoxAfterStop(a)
  BY DEF End, At, ledger, recovery
<1>3. /\ WorkersTyped' /\ \A b \in Attempts \ {a} : worker'[b] = worker[b]
      /\ worker'[a].at = "done" /\ ~worker'[a].handle
  <2>1. NewWorker \in WorkerRows /\ ~NewWorker.handle /\ "done" \in WorkerSteps
    BY FailureRows DEF NewWorker, WorkerRows, WorkerSteps, NoFailure
  <2>2. worker[a].rejects \in BOOLEAN
    BY <1>1 DEF Typed, WorkersTyped, WorkerRows
  <2>3. \A x \in BOOLEAN : [NewWorker EXCEPT !.at = "done", !.rejects = x] \in WorkerRows
    BY <2>1 DEF WorkerRows
  <2>4. worker' = [worker EXCEPT ![a] =
                [NewWorker EXCEPT !.at = "done", !.rejects = worker[a].rejects /\ Holds(a)]]
    BY DEF End
  <2>5. (worker[a].rejects /\ Holds(a)) \in BOOLEAN
    BY <2>2 DEF Holds
  <2>6. PICK row \in WorkerRows : /\ worker' = [worker EXCEPT ![a] = row]
                                  /\ row.at = "done" /\ ~row.handle
    BY <2>1, <2>3, <2>4, <2>5 DEF WorkerRows
  <2> QED
    BY <1>1, <2>6 DEF Typed, WorkersTyped
<1>4. Moves(a) /\ BoxesTyped' /\ \A b \in Attempts \ {a} : box'[b] = box[b]
  <2>1. Holds(a)' => Holds(a)
    BY <1>2 DEF Holds
  <2> QED
    BY <1>1, <1>2, <1>3, <2>1, LettingGo DEF Typed, BoxesTyped
<1>5. Typed'
  BY <1>1, <1>2, <1>3, <1>4
     DEF Typed, JobTyped, RunsTyped, OutputTyped, SupsTyped, RecoveryTyped
<1>6. \A b \in Attempts \ {a} : Same(b) /\ JobMoves(b)
  BY <1>2, <1>3, <1>4, JobStays DEF Same
<1>7. AttemptInv(a)'
  BY <1>1, <1>2, <1>3
     DEF AttemptInv, Unclaimed, RunHasClaim, StepsInOrder, OnlyCopyIsRetained, FailureSpares,
         LookupKnows, Owned, Setup, Output
<1> QED
  BY <1>4, <1>5, <1>6, <1>7 DEF OneKept, Kept
-----------------------------------------------------------------------------
(* Failing an attempt *)

(* It is refused, or the claim is over for good: the run ends in error, if  *)
(* it was named, a recorded intent is settled, and the sandbox is no matter.*)
FailureTakes(a, named, retry) ==
    /\ Owned(a) /\ ~Owned(a)' /\ job'.claim = job.claim
    /\ job'.status = "queued" \/ job'.status = "done"
    /\ ~retry => job'.status = "done"
    /\ run'[a].marked = run[a].marked
    /\ run[a].status = (IF named THEN "running" ELSE "none")
    /\ run'[a].status = (IF named THEN "error" ELSE "none")
    /\ intent'[a] = (IF intent[a] \in Recorded THEN "settled" ELSE intent[a])

LEMMA FailingKept ==
    ASSUME Typed, NEW a \in Attempts, NEW named \in BOOLEAN, NEW retry \in BOOLEAN,
           FailAttempt(a, named, retry), UNCHANGED copied
    PROVE  /\ JobTyped' /\ RunsTyped' /\ OutputTyped'
           /\ \A b \in Attempts : JobMoves(b)
           /\ \A b \in Attempts \ {a} : run'[b] = run[b] /\ intent'[b] = intent[b]
           /\ \/ UNCHANGED <<job, run, intent>> /\ ~FailApplies(a, named)
              \/ FailApplies(a, named) /\ FailureTakes(a, named, retry)
<1>1. /\ run \in [Attempts -> RunRows] /\ intent \in [Attempts -> {"none", "open", "lapsed", "settled"}]
      /\ job \in [status : {"queued", "claimed", "done"}, claim : 0..MaxClaims]
      /\ \A b \in Attempts : run[b].box \/ run[b].marked => run[b].status # "none"
  BY DEF Typed, RunsTyped, OutputTyped, JobTyped
<1>2. CASE ~FailApplies(a, named)
  <2>1. UNCHANGED <<job, run, intent>>
    BY <1>2 DEF FailAttempt
  <2>2. JobTyped' /\ RunsTyped' /\ OutputTyped'
    BY <2>1 DEF Typed, RunsTyped, OutputTyped, JobTyped
  <2> QED
    BY <1>2, <2>1, <2>2, JobStays
<1>3. CASE FailApplies(a, named)
  <2>1. /\ \E status \in AfterFailure(retry) : job' = [job EXCEPT !.status = status]
        /\ run' = [run EXCEPT ![a].status = IF named THEN "error" ELSE @]
        /\ intent' = [intent EXCEPT ![a] = IF @ \in Recorded THEN "settled" ELSE @]
    BY <1>3 DEF FailAttempt, Settled
  <2>2. /\ Owned(a) /\ job.status = "claimed" /\ job.claim = a
        /\ run[a].status = IF named THEN "running" ELSE "none"
    BY <1>3 DEF FailApplies, Owned
  <2>3. /\ JobTyped' /\ job'.claim = job.claim
        /\ job'.status = "queued" \/ job'.status = "done"
        /\ ~retry => job'.status = "done"
    BY <1>1, <2>1 DEF JobTyped, AfterFailure
  <2>4. \A b \in Attempts : ~Owned(b)'
    BY <2>3 DEF Owned
  <2>5. \A b \in Attempts : JobMoves(b)
    BY <2>2, <2>3, <2>4 DEF JobMoves
  <2>6. /\ OutputTyped' /\ \A b \in Attempts \ {a} : intent'[b] = intent[b]
        /\ intent'[a] = IF intent[a] \in Recorded THEN "settled" ELSE intent[a]
    BY <1>1, <2>1 DEF Typed, OutputTyped
  <2>7. /\ \A b \in Attempts \ {a} : run'[b] = run[b]
        /\ run'[a].marked = run[a].marked /\ run'[a].box = run[a].box
        /\ run'[a].status = IF named THEN "error" ELSE "none"
        /\ run' \in [Attempts -> RunRows]
    BY <1>1, <2>1, <2>2 DEF RunRows, RunStates
  <2>8. RunsTyped'
    BY <1>1, <2>2, <2>7 DEF RunsTyped
  <2> QED
    BY <1>3, <2>2, <2>3, <2>4, <2>5, <2>6, <2>7, <2>8 DEF FailureTakes
<1> QED
  BY <1>2, <1>3

(* What that leaves of the invariant, whatever the caller does next. *)
LEMMA FailedAttempt ==
    ASSUME Typed, NEW a \in Attempts, AttemptInv(a),
           NEW named \in BOOLEAN, NEW retry \in BOOLEAN,
           UNCHANGED <<job, run, intent>> \/ FailureTakes(a, named, retry),
           UNCHANGED <<copied, box>>,
           worker'[a].handle => worker[a].handle, Holds(a)' => Holds(a)
    PROVE  /\ RunHasClaim(a)' /\ Moves(a)
           /\ intent'[a] = "none" <=> intent[a] = "none"
           /\ intent'[a] = "open" => UNCHANGED <<job, run, intent>>
           /\ run'[a].marked = run[a].marked
           /\ run'[a].status = "none" <=> run[a].status = "none"
           /\ job'.claim = job.claim /\ (Owned(a)' => Owned(a))
<1>1. CASE UNCHANGED <<job, run, intent>>
  <2>1. Moves(a)
    BY <1>1 DEF Moves, StatusMoves, HandleMoves, StopMoves, MarkMoves, EndIsFinal
  <2> QED
    BY <1>1, <2>1 DEF AttemptInv, RunHasClaim, Owned
<1>2. CASE FailureTakes(a, named, retry)
  <2>1. Moves(a)
    BY <1>2
       DEF FailureTakes, Moves, StatusMoves, HandleMoves, StopMoves, MarkMoves, EndIsFinal,
           Terminal
  <2> QED
    BY <1>2, <2>1 DEF FailureTakes, RunHasClaim, Recorded
<1> QED
  BY <1>1, <1>2

LEMMA FailKept ==
    ASSUME StageInv, NEW a \in Attempts, Fail(a)
    PROVE  OneKept(a)
<1>1. Typed /\ AttemptInv(a)
  BY DEF StageInv
<1>2. /\ UNCHANGED <<copied, box, op, sup, sweep, reaper, receipt, beat>>
      /\ worker[a].at = "failing"
  BY DEF Fail, At, boxes, recovery
<1>3. PICK named \in BOOLEAN, retry \in BOOLEAN :
        UNCHANGED <<job, run, intent>> \/ FailAttempt(a, named, retry)
  <2>1. worker[a].fail.named \in BOOLEAN /\ worker[a].fail.retry \in BOOLEAN
    BY <1>1 DEF Typed, WorkersTyped, WorkerRows, Failures
  <2> QED
    BY <2>1 DEF Fail, FailStalled
<1>4. /\ JobTyped' /\ RunsTyped' /\ OutputTyped'
      /\ \A b \in Attempts : JobMoves(b)
      /\ \A b \in Attempts \ {a} : run'[b] = run[b] /\ intent'[b] = intent[b]
      /\ UNCHANGED <<job, run, intent>> \/ FailureTakes(a, named, retry)
  <2>1. CASE UNCHANGED <<job, run, intent>>
    BY <1>1, <1>2, <2>1, JobStays DEF Typed, JobTyped, RunsTyped, OutputTyped
  <2>2. CASE FailAttempt(a, named, retry)
    BY <1>1, <1>2, <2>2, FailingKept
  <2> QED
    BY <1>3, <2>1, <2>2
<1>5. /\ WorkersTyped' /\ \A b \in Attempts \ {a} : worker'[b] = worker[b]
      /\ worker'[a].at = "ending" /\ worker'[a].handle = worker[a].handle
      /\ worker'[a].retain = worker[a].retain
  <2>1. NoFailure \in Failures /\ "ending" \in WorkerSteps
    BY FailureRows DEF NoFailure, WorkerSteps
  <2>2. PICK x \in BOOLEAN :
          \/ worker' = [worker EXCEPT ![a].at = "ending", ![a].fail = NoFailure]
          \/ worker' = [worker EXCEPT ![a].at = "ending", ![a].fail = NoFailure,
                                      ![a].rejects = x]
    BY DEF Fail
  <2> QED
    BY <1>1, <2>1, <2>2 DEF Typed, WorkersTyped, WorkerRows
<1>6. Typed'
  BY <1>1, <1>2, <1>4, <1>5 DEF Typed, BoxesTyped, SupsTyped, RecoveryTyped
<1>7. \A b \in Attempts \ {a} : Same(b) /\ JobMoves(b)
  BY <1>2, <1>4, <1>5 DEF Same
<1>8. /\ RunHasClaim(a)' /\ Moves(a)
      /\ intent'[a] = "none" <=> intent[a] = "none"
      /\ intent'[a] = "open" => UNCHANGED <<job, run, intent>>
      /\ run'[a].marked = run[a].marked
      /\ run'[a].status = "none" <=> run[a].status = "none"
      /\ job'.claim = job.claim /\ (Owned(a)' => Owned(a))
  <2>1. Holds(a)' => Holds(a)
    BY <1>2 DEF Holds
  <2> QED
    BY <1>1, <1>2, <1>4, <1>5, <2>1, FailedAttempt
<1>9. Unclaimed(a)'
  BY <1>1, <1>2, <1>8 DEF AttemptInv, Unclaimed
<1>10. StepsInOrder(a)' /\ OnlyCopyIsRetained(a)' /\ FailureSpares(a)'
  BY <1>1, <1>2, <1>5, <1>8
     DEF AttemptInv, StepsInOrder, OnlyCopyIsRetained, FailureSpares, Setup, Output
<1>11. LookupKnows(a)'
  <2>1. Owned(a)' => UNCHANGED intent
    BY <1>4 DEF FailureTakes
  <2> QED
    BY <1>1, <1>2, <1>8, <2>1 DEF AttemptInv, LookupKnows
<1> QED
  BY <1>6, <1>7, <1>8, <1>9, <1>10, <1>11 DEF OneKept, Kept, AttemptInv
-----------------------------------------------------------------------------
(* Aborts and the supervisor *)

LEMMA AbortKept ==
    ASSUME StageInv, NEW a \in Attempts, BudgetExpires(a) \/ DeadlinePasses(a)
    PROVE  OneKept(a)
<1>1. Typed /\ AttemptInv(a)
  BY DEF StageInv
<1>2. /\ UNCHANGED <<job, run, intent, copied, op, sweep, reaper, receipt, beat>>
      /\ box' = BoxAfterStop(a)
      /\ \E cause \in {"deadline", "budget"} : Abort(a, cause)
  BY DEF BudgetExpires, DeadlinePasses, ledger, recovery
<1>3. /\ SupsTyped' /\ \A b \in Attempts \ {a} : sup'[b] = sup[b]
      /\ \/ sup' = sup
         \/ /\ sup[a].at = "racing" /\ sup'[a].at = "lookup"
            /\ sup'[a].lookup = sup[a].lookup
  BY <1>1 DEF BudgetExpires, DeadlinePasses, GotoSup, Typed, SupsTyped, SupRows, SupSteps
<1>4. /\ WorkersTyped' /\ \A b \in Attempts \ {a} : worker'[b] = worker[b]
      /\ worker'[a].at = worker[a].at /\ worker'[a].retain = worker[a].retain
      /\ worker'[a].handle => worker[a].handle
      /\ StopsBox(a) => ~worker'[a].handle
      /\ worker'[a].fail = worker[a].fail
      /\ worker[a].at \in {"failing", "ending"} => worker'[a].abort = worker[a].abort
  BY <1>1, <1>2, AbortFields DEF Typed
<1>5. /\ Moves(a) /\ BoxesTyped' /\ \A b \in Attempts \ {a} : box'[b] = box[b]
      /\ box[a] = "none" => box'[a] = "none"
  <2>1. Holds(a)' => Holds(a)
    BY <1>3 DEF Holds
  <2> QED
    BY <1>1, <1>2, <1>4, <2>1, LettingGo DEF Typed, BoxesTyped
<1>6. Typed'
  BY <1>1, <1>2, <1>3, <1>4, <1>5
     DEF Typed, JobTyped, RunsTyped, OutputTyped, RecoveryTyped
<1>7. \A b \in Attempts \ {a} : Same(b) /\ JobMoves(b)
  BY <1>2, <1>3, <1>4, <1>5, JobStays DEF Same
<1>8. Unclaimed(a)' /\ RunHasClaim(a)' /\ LookupKnows(a)'
  BY <1>1, <1>2, <1>3, <1>4 DEF AttemptInv, Unclaimed, RunHasClaim, LookupKnows, Owned
<1>9. StepsInOrder(a)' /\ OnlyCopyIsRetained(a)' /\ FailureSpares(a)'
  BY <1>1, <1>2, <1>4, <1>5
     DEF AttemptInv, StepsInOrder, OnlyCopyIsRetained, FailureSpares
<1> QED
  BY <1>5, <1>6, <1>7, <1>8, <1>9 DEF OneKept, Kept, AttemptInv

(* The supervisor alone. *)
LEMMA SupervisorAlone ==
    ASSUME StageInv, NEW a \in Attempts, UNCHANGED <<ledger, boxes, worker, recovery>>,
           SupsTyped', \A b \in Attempts \ {a} : sup'[b] = sup[b],
           Holds(a), LookupKnows(a)'
    PROVE  OneKept(a)
<1>1. Typed /\ AttemptInv(a)
  BY DEF StageInv
<1>2. UNCHANGED <<job, run, intent, copied, box, op, worker, sweep, reaper, receipt, beat>>
  BY DEF ledger, boxes, recovery
<1>3. Typed'
  BY <1>1, <1>2
     DEF Typed, JobTyped, RunsTyped, OutputTyped, BoxesTyped, WorkersTyped, RecoveryTyped
<1>4. \A b \in Attempts \ {a} : Same(b) /\ JobMoves(b)
  BY <1>2, JobStays DEF Same
<1>5. Unclaimed(a)' /\ RunHasClaim(a)'
  BY <1>1, <1>2 DEF AttemptInv, Unclaimed, RunHasClaim, Owned, Holds
<1>6. StepsInOrder(a)' /\ OnlyCopyIsRetained(a)' /\ FailureSpares(a)'
  BY <1>1, <1>2 DEF AttemptInv, StepsInOrder, OnlyCopyIsRetained, FailureSpares
<1>7. Moves(a)
  BY <1>2 DEF Moves, StatusMoves, HandleMoves, StopMoves, MarkMoves, EndIsFinal
<1> QED
  BY <1>3, <1>4, <1>5, <1>6, <1>7 DEF OneKept, Kept, AttemptInv

LEMMA NewSups ==
    /\ \A at \in SupSteps : [NewSup EXCEPT !.at = at] \in SupRows
    /\ [NewSup EXCEPT !.at = "lookup", !.lookup = 2] \in SupRows
<1>1. /\ 1 \in 1..2 /\ 2 \in 1..2
      /\ "off" \in SupSteps /\ "lookup" \in SupSteps
  BY DEF SupSteps
<1>2. NewSup \in SupRows
  BY <1>1 DEF NewSup, SupRows
<1>3. \A at \in SupSteps : [NewSup EXCEPT !.at = at] \in SupRows
  BY <1>2 DEF SupRows
<1>4. [NewSup EXCEPT !.at = "lookup", !.lookup = 2] \in SupRows
  BY <1>1, <1>2 DEF SupRows
<1> QED
  BY <1>3, <1>4

LEMMA SupervisorKept ==
    ASSUME StageInv, NEW a \in Attempts, Settles(a) \/ Lookup(a) \/ RecoveryFails(a)
    PROVE  OneKept(a)
<1>1. sup \in [Attempts -> SupRows] /\ AttemptInv(a)
  BY DEF StageInv, Typed, SupsTyped
<1>2. /\ UNCHANGED <<ledger, boxes, worker, recovery>> /\ Holds(a)
      /\ UNCHANGED <<job, run, intent>>
  BY DEF Settles, Lookup, RecoveryFails, Holds, ledger
<1>3. {"lookup", "released", "retire", "unresolved"} \subseteq SupSteps
  BY DEF SupSteps
<1>4. CASE Settles(a)
  <2>1. /\ SupsTyped' /\ \A b \in Attempts \ {a} : sup'[b] = sup[b]
        /\ sup'[a].at \in {"lookup", "released"}
        /\ sup'[a].lookup = sup[a].lookup
    BY <1>1, <1>3, <1>4 DEF Settles, GotoSup, SupsTyped, SupRows
  <2> QED
    BY <1>1, <1>2, <2>1, SupervisorAlone DEF AttemptInv, LookupKnows, Owned
<1>5. CASE Lookup(a)
  <2>1. /\ SupsTyped' /\ \A b \in Attempts \ {a} : sup'[b] = sup[b]
        /\ sup'[a].at = "retire" /\ sup'[a].found = (run[a].status # "none")
        /\ sup'[a].lookup = sup[a].lookup
    BY <1>1, <1>3, <1>5 DEF Lookup, SupsTyped, SupRows
  <2> QED
    BY <1>1, <1>2, <2>1, SupervisorAlone DEF AttemptInv, LookupKnows, Owned
<1>6. CASE RecoveryFails(a)
  <2>1. /\ SupsTyped' /\ \A b \in Attempts \ {a} : sup'[b] = sup[b]
        /\ sup'[a].at = "unresolved" /\ sup'[a].lookup = 1
    BY <1>1, <1>3, <1>6, NewSups DEF RecoveryFails, SupsTyped, NewSup
  <2> QED
    BY <1>2, <2>1, SupervisorAlone DEF LookupKnows
<1> QED
  BY <1>4, <1>5, <1>6

(* A failure that names the run the lookup found, or none if it found none: *)
(* if it is refused and the claim still stands, a run has appeared since.   *)
LEMMA RetireKept ==
    ASSUME StageInv, NEW a \in Attempts, Retire(a)
    PROVE  OneKept(a)
<1>1. /\ Typed /\ AttemptInv(a) /\ sup \in [Attempts -> SupRows]
      /\ sup[a].found \in BOOLEAN /\ sup[a].lookup \in {1, 2}
  BY DEF StageInv, Typed, SupsTyped, SupRows
<1>2. /\ UNCHANGED <<copied, box, op, worker, sweep, reaper, receipt, beat>>
      /\ sup[a].at = "retire"
  BY DEF Retire, boxes, recovery
<1>3. /\ JobTyped' /\ RunsTyped' /\ OutputTyped'
      /\ \A b \in Attempts : JobMoves(b)
      /\ \A b \in Attempts \ {a} : run'[b] = run[b] /\ intent'[b] = intent[b]
      /\ \/ intent[a] = "open" /\ UNCHANGED <<job, run, intent>>
         \/ ~FailApplies(a, sup[a].found) /\ UNCHANGED <<job, run, intent>>
         \/ FailApplies(a, sup[a].found) /\ FailureTakes(a, sup[a].found, FALSE)
  <2>1. CASE intent[a] = "open"
    <3>1. UNCHANGED <<job, run, intent>>
      BY <2>1 DEF Retire, FailStalled, Spares
    <3> QED
      BY <1>1, <1>2, <2>1, <3>1, JobStays DEF Typed, JobTyped, RunsTyped, OutputTyped
  <2>2. CASE intent[a] # "open"
    <3>1. FailAttempt(a, sup[a].found, FALSE)
      BY <2>2 DEF Retire, FailStalled, Spares
    <3> QED
      BY <1>1, <1>2, <3>1, FailingKept
  <2> QED
    BY <2>1, <2>2
<1>4. /\ SupsTyped' /\ \A b \in Attempts \ {a} : sup'[b] = sup[b]
      /\ \/ RetriesLookup(a) /\ sup'[a].at = "lookup" /\ sup'[a].lookup = 2
         \/ ~RetriesLookup(a) /\ sup'[a].at = "retired" /\ sup'[a].lookup = 1
  <2>1. /\ sup' = [sup EXCEPT ![a] = IF RetriesLookup(a)
                                THEN [NewSup EXCEPT !.at = "lookup", !.lookup = 2]
                                ELSE [NewSup EXCEPT !.at = "retired"]]
        /\ "retired" \in SupSteps
    BY DEF Retire, SupSteps
  <2>2. CASE RetriesLookup(a)
    BY <1>1, <2>1, <2>2, NewSups DEF SupsTyped, NewSup
  <2>3. CASE ~RetriesLookup(a)
    BY <1>1, <2>1, <2>3, NewSups DEF SupsTyped, NewSup
  <2> QED
    BY <2>2, <2>3
<1>5. Typed'
  BY <1>1, <1>2, <1>3, <1>4 DEF Typed, BoxesTyped, WorkersTyped, RecoveryTyped
<1>6. \A b \in Attempts \ {a} : Same(b) /\ JobMoves(b)
  BY <1>2, <1>3, <1>4 DEF Same
<1>7. /\ RunHasClaim(a)' /\ Moves(a)
      /\ intent'[a] = "none" <=> intent[a] = "none"
      /\ intent'[a] = "open" => UNCHANGED <<job, run, intent>>
      /\ run'[a].marked = run[a].marked
      /\ run'[a].status = "none" <=> run[a].status = "none"
      /\ job'.claim = job.claim /\ (Owned(a)' => Owned(a))
  <2>1. Holds(a)' => Holds(a)
    BY <1>2 DEF Holds
  <2> QED
    BY <1>1, <1>2, <1>3, <2>1, FailedAttempt
<1>8. StepsInOrder(a)' /\ OnlyCopyIsRetained(a)' /\ FailureSpares(a)'
  BY <1>1, <1>2, <1>7 DEF AttemptInv, StepsInOrder, OnlyCopyIsRetained, FailureSpares
<1>9. Unclaimed(a)'
  BY <1>1, <1>2, <1>7 DEF AttemptInv, Unclaimed
<1>10. LookupKnows(a)'
  <2>1. CASE ~Owned(a)'
    BY <1>4, <2>1 DEF LookupKnows
  <2>2. CASE Owned(a)'
    <3>1. UNCHANGED <<job, run, intent>> /\ Owned(a)
      BY <1>3, <1>7, <2>2 DEF FailureTakes
    <3>2. run[a].status \in {"none", "running"}
      BY <1>1, <3>1 DEF AttemptInv, RunHasClaim
    <3>3. CASE intent[a] = "open"
      BY <1>4, <3>1, <3>3 DEF LookupKnows, RetriesLookup, Spares
    <3>4. CASE intent[a] # "open"
      <4>1. ~FailApplies(a, sup[a].found)
        BY <1>3, <2>2, <3>4 DEF FailureTakes
      <4>2. sup[a].found = FALSE /\ run[a].status = "running" /\ sup[a].lookup = 1
        BY <1>1, <1>2, <3>1, <3>2, <4>1 DEF FailApplies, AttemptInv, LookupKnows
      <4>3. RetriesLookup(a)
        BY <3>4, <4>1, <4>2 DEF RetriesLookup, Spares
      <4> QED
        BY <1>4, <3>1, <4>2, <4>3 DEF LookupKnows
    <3> QED
      BY <3>3, <3>4
  <2> QED
    BY <2>1, <2>2
<1> QED
  BY <1>5, <1>6, <1>7, <1>8, <1>9, <1>10 DEF OneKept, Kept, AttemptInv

LEMMA CrashKept ==
    ASSUME StageInv, NEW a \in Attempts, Crash(a)
    PROVE  OneKept(a)
<1>1. Typed /\ AttemptInv(a)
  BY DEF StageInv
<1>2. /\ UNCHANGED <<job, run, intent, copied, box, op, sweep, reaper, receipt, beat>>
      /\ sup[a].at # "off" \/ worker[a].at # "off"
  BY DEF Crash, Holds, ledger, boxes, recovery
<1>3. /\ WorkersTyped' /\ \A b \in Attempts \ {a} : worker'[b] = worker[b]
      /\ worker'[a].at = "dead" /\ ~worker'[a].handle
  <2>1. /\ [NewWorker EXCEPT !.at = "dead"] \in WorkerRows
        /\ [NewWorker EXCEPT !.at = "dead"].at = "dead"
        /\ ~[NewWorker EXCEPT !.at = "dead"].handle
    BY FailureRows DEF NewWorker, WorkerRows, WorkerSteps, NoFailure
  <2> QED
    BY <1>1, <2>1 DEF Crash, Typed, WorkersTyped
<1>4. /\ SupsTyped' /\ \A b \in Attempts \ {a} : sup'[b] = sup[b]
      /\ sup'[a].at = "dead" /\ sup'[a].lookup = 1
  <2>1. "dead" \in SupSteps
    BY DEF SupSteps
  <2> QED
    BY <1>1, <2>1, NewSups DEF Crash, Typed, SupsTyped, NewSup
<1>5. Typed'
  BY <1>1, <1>2, <1>3, <1>4
     DEF Typed, JobTyped, RunsTyped, OutputTyped, BoxesTyped, RecoveryTyped
<1>6. \A b \in Attempts \ {a} : Same(b) /\ JobMoves(b)
  BY <1>2, <1>3, <1>4, JobStays DEF Same
<1>7. AttemptInv(a)'
  BY <1>1, <1>2, <1>3, <1>4
     DEF AttemptInv, Unclaimed, RunHasClaim, StepsInOrder, OnlyCopyIsRetained, FailureSpares,
         LookupKnows, Owned, Setup, Output
<1>8. Moves(a)
  BY <1>2, <1>3, <1>4
     DEF Moves, StatusMoves, HandleMoves, StopMoves, MarkMoves, EndIsFinal, Holds
<1> QED
  BY <1>5, <1>6, <1>7, <1>8 DEF OneKept, Kept
-----------------------------------------------------------------------------
(* Claims, publications, users and the provider *)

StepKept == Typed' /\ (\A b \in Attempts : Kept(b)) /\ RecoveryInv' /\ BeatMoves

LEMMA OneAttemptMoves ==
    ASSUME StageInv, NEW a \in Attempts, OneKept(a)
    PROVE  /\ Typed' /\ \A b \in Attempts : Kept(b)
           /\ UNCHANGED recovery => StepKept
<1>1. \A b \in Attempts : Kept(b)
  BY SameIsKept DEF OneKept, StageInv
<1>2. UNCHANGED recovery => RecoveryInv' /\ BeatMoves
  BY <1>1, ReadingsStay, BeatStays
     DEF StageInv, Typed, RecoveryTyped, Kept, Moves, recovery
<1> QED
  BY <1>1, <1>2 DEF OneKept, StepKept

LEMMA NobodyMoves ==
    ASSUME StageInv, UNCHANGED <<ledger, boxes, programs>>, RecoveryTyped'
    PROVE  Typed' /\ \A b \in Attempts : Kept(b)
<1>1. UNCHANGED <<job, run, intent, copied, box, op, worker, sup>>
  BY DEF ledger, boxes, programs
<1>2. \A b \in Attempts : Kept(b)
  BY <1>1, SameIsKept, JobStays DEF Same, StageInv
<1>3. Typed'
  BY <1>1
     DEF StageInv, Typed, JobTyped, RunsTyped, OutputTyped, BoxesTyped, WorkersTyped, SupsTyped
<1> QED
  BY <1>2, <1>3

LEMMA ClaimKept == StageInv /\ Claim => StepKept
<1> SUFFICES ASSUME StageInv, Claim PROVE StepKept
  OBVIOUS
<1>1. /\ Typed /\ job.status = "queued" /\ job.claim \in 0..MaxClaims
      /\ worker \in [Attempts -> WorkerRows] /\ sup \in [Attempts -> SupRows]
  BY DEF StageInv, Typed, JobTyped, WorkersTyped, SupsTyped, Claim
<1>2. PICK a \in Attempts : a = job.claim + 1
  <2>1. MaxClaims \in Nat /\ job.claim < MaxClaims
    BY StageAssumption DEF Claim
  <2>2. job.claim + 1 \in Attempts
    BY <1>1, <2>1 DEF Attempts
  <2> QED
    BY <2>2
<1>3. /\ job' = [status |-> "claimed", claim |-> a]
      /\ worker' = [worker EXCEPT ![a].at = "starting"]
      /\ sup' = [sup EXCEPT ![a].at = "racing"]
      /\ UNCHANGED <<run, intent, copied, box, op, sweep, reaper, receipt, beat>>
  BY <1>2 DEF Claim, boxes, recovery
<1>4. AttemptInv(a) /\ a > job.claim
  BY <1>1, <1>2 DEF StageInv
<1>5. worker[a].at = "off" /\ sup[a].at = "off" /\ run[a].status = "none"
  BY <1>4 DEF AttemptInv, Unclaimed
<1>6. /\ ~worker[a].handle /\ ~worker[a].retain /\ ~run[a].marked
      /\ box[a] = "none" /\ op[a] = "none" /\ intent[a] = "none"
  BY <1>4, <1>5 DEF AttemptInv, StepsInOrder, Setup
<1>7. "starting" \in WorkerSteps /\ "racing" \in SupSteps
  BY DEF WorkerSteps, SupSteps
<1>8. /\ WorkersTyped' /\ \A b \in Attempts \ {a} : worker'[b] = worker[b]
      /\ worker'[a].at = "starting" /\ ~worker'[a].handle /\ ~worker'[a].retain
  BY <1>1, <1>3, <1>6, <1>7 DEF WorkersTyped, WorkerRows
<1>9. /\ SupsTyped' /\ \A b \in Attempts \ {a} : sup'[b] = sup[b]
      /\ sup'[a].at = "racing" /\ sup'[a].lookup = sup[a].lookup
  BY <1>1, <1>3, <1>7 DEF SupsTyped, SupRows
<1>10. JobTyped' /\ job'.claim = a /\ Owned(a)'
  BY <1>2, <1>3 DEF JobTyped, Attempts, Owned
<1>11. Typed'
  BY <1>1, <1>3, <1>8, <1>9, <1>10
     DEF Typed, RunsTyped, OutputTyped, BoxesTyped, RecoveryTyped
<1>12. \A b \in Attempts \ {a} : Same(b) /\ JobMoves(b)
  <2>1. \A b \in Attempts \ {a} : Same(b)
    BY <1>3, <1>8, <1>9 DEF Same
  <2>2. \A b \in Attempts \ {a} : JobMoves(b)
    BY <1>1, <1>2, <1>10 DEF JobMoves, Owned, Attempts
  <2> QED
    BY <2>1, <2>2
<1>13. Unclaimed(a)' /\ RunHasClaim(a)' /\ OnlyCopyIsRetained(a)' /\ FailureSpares(a)'
  BY <1>2, <1>3, <1>5, <1>6, <1>8, <1>10
     DEF Unclaimed, RunHasClaim, OnlyCopyIsRetained, FailureSpares, Attempts
<1>14. StepsInOrder(a)'
  BY <1>3, <1>6, <1>8 DEF StepsInOrder, Setup, Output
<1>15. LookupKnows(a)'
  <2>1. sup[a].lookup = 1
    BY <1>4 DEF AttemptInv, Unclaimed
  <2> QED
    BY <1>9, <2>1 DEF LookupKnows
<1>16. Moves(a)
  BY <1>3, <1>5
     DEF Moves, StatusMoves, HandleMoves, StopMoves, MarkMoves, EndIsFinal, Terminal
<1>17. OneKept(a)
  BY <1>11, <1>12, <1>13, <1>14, <1>15, <1>16 DEF OneKept, Kept, AttemptInv
<1> QED
  BY <1>3, <1>17, OneAttemptMoves DEF recovery
(* adopt_session_checkpoint_publication, and the deadline it did not meet. *)
LEMMA PublicationKept ==
    ASSUME StageInv, NEW a \in Attempts,
           Adopt(a) \/ IntentLapses(a) \/ GiveUpIntent(a)
    PROVE  StepKept
<1>1. /\ Typed /\ AttemptInv(a)
      /\ run \in [Attempts -> RunRows] /\ intent \in [Attempts -> {"none", "open", "lapsed", "settled"}]
      /\ job \in [status : {"queued", "claimed", "done"}, claim : 0..MaxClaims]
  BY DEF StageInv, Typed, RunsTyped, OutputTyped, JobTyped
<1>2. /\ UNCHANGED <<copied, box, op, worker, sup, sweep, reaper, receipt>>
      /\ intent[a] \in {"open", "lapsed"}
  BY DEF Adopt, IntentLapses, GiveUpIntent, boxes, programs, recovery
<1>3. /\ worker[a].at \notin Setup /\ worker[a].at \notin Output \ {"publishing"}
  <2>1. worker[a].at \notin (Setup \cup Output) \ {"publishing"}
    BY <1>1, <1>2 DEF AttemptInv, StepsInOrder
  <2> QED
    BY <2>1 DEF Setup, Output
<1>4. CASE Adopt(a)
  <2>1. /\ job.status = "claimed" /\ job.claim = a /\ run[a].status = "running"
        /\ job' = [job EXCEPT !.status = "done"]
    BY <1>4 DEF Adopt, Owned
  <2>2. JobTyped' /\ job'.status = "done" /\ job'.claim = a
    BY <1>1, <2>1 DEF JobTyped
  <2>3. \A b \in Attempts : JobMoves(b)
    BY <2>1, <2>2 DEF JobMoves, Owned
  <2>4. /\ RunsTyped' /\ \A b \in Attempts \ {a} : run'[b] = run[b]
        /\ run'[a].status = "success" /\ run'[a].marked = run[a].marked
    BY <1>1, <1>4, <2>1 DEF Adopt, Typed, RunsTyped, RunRows, RunStates
  <2>5. /\ OutputTyped' /\ \A b \in Attempts \ {a} : intent'[b] = intent[b]
        /\ intent'[a] = "settled"
    BY <1>1, <1>2, <1>4 DEF Adopt, Typed, OutputTyped, Settled, Recorded
  <2>11. /\ beat.lists \in BOOLEAN /\ beat' \in [lists : BOOLEAN, missed : BOOLEAN]
         /\ beat'.lists = beat.lists /\ beat'.missed = ~beat.lists
    <3>1. beat \in [lists : BOOLEAN, missed : BOOLEAN]
      BY <1>1 DEF Typed, RecoveryTyped
    <3>2. beat' = [beat EXCEPT !.missed = ~beat.lists]
      BY <1>4 DEF Adopt
    <3> QED
      BY <3>1, <3>2
  <2>12. ~Published
    BY <2>1 DEF StageInv, AttemptInv, RunHasClaim, Published
  <2>6. Typed'
    BY <1>1, <1>2, <2>2, <2>4, <2>5, <2>11
       DEF Typed, BoxesTyped, WorkersTyped, SupsTyped, RecoveryTyped
  <2>7. Unclaimed(a)' /\ RunHasClaim(a)' /\ LookupKnows(a)'
    BY <1>1, <1>2, <2>1, <2>2, <2>4, <2>5 DEF AttemptInv, Unclaimed, RunHasClaim, LookupKnows, Owned
  <2>8. StepsInOrder(a)' /\ OnlyCopyIsRetained(a)' /\ FailureSpares(a)'
    BY <1>1, <1>2, <1>3, <2>4, <2>5
       DEF AttemptInv, StepsInOrder, OnlyCopyIsRetained, FailureSpares
  <2>9. Moves(a)
    BY <1>2, <2>1, <2>4, <2>11
       DEF Moves, StatusMoves, HandleMoves, StopMoves, MarkMoves, EndIsFinal, Terminal
  <2>10. OneKept(a)
    BY <1>2, <2>3, <2>4, <2>5, <2>6, <2>7, <2>8, <2>9 DEF OneKept, Kept, AttemptInv, Same
  <2>13. BeatMoves
    BY <2>12 DEF BeatMoves
  <2>14. RecoveryInv'
    BY <1>1, <1>2, <2>10, <2>11, <2>13, OneAttemptMoves, ReadingsStay
       DEF StageInv, Typed, Kept, Moves
  <2> QED
    BY <2>10, <2>13, <2>14, OneAttemptMoves DEF StepKept
<1>5. CASE GiveUpIntent(a) /\ FailAttempt(a, TRUE, FALSE)
  <2>8. UNCHANGED recovery
    BY <1>5 DEF GiveUpIntent
  <2>1. /\ JobTyped' /\ RunsTyped' /\ OutputTyped'
        /\ \A b \in Attempts : JobMoves(b)
        /\ \A b \in Attempts \ {a} : run'[b] = run[b] /\ intent'[b] = intent[b]
        /\ UNCHANGED <<job, run, intent>> \/ FailureTakes(a, TRUE, FALSE)
    BY <1>1, <1>2, <1>5, FailingKept
  <2>2. /\ RunHasClaim(a)' /\ Moves(a)
        /\ intent'[a] = "none" <=> intent[a] = "none"
        /\ intent'[a] = "open" => UNCHANGED <<job, run, intent>>
        /\ run'[a].marked = run[a].marked
        /\ run'[a].status = "none" <=> run[a].status = "none"
        /\ job'.claim = job.claim /\ (Owned(a)' => Owned(a))
    <3>1. Holds(a)' => Holds(a)
      BY <1>2 DEF Holds
    <3> QED
      BY <1>1, <1>2, <2>1, <3>1, FailedAttempt
  <2>3. Typed'
    BY <1>1, <1>2, <2>1, <2>8
       DEF Typed, BoxesTyped, WorkersTyped, SupsTyped, RecoveryTyped, recovery
  <2>4. StepsInOrder(a)' /\ OnlyCopyIsRetained(a)' /\ FailureSpares(a)'
    BY <1>1, <1>2, <2>2 DEF AttemptInv, StepsInOrder, OnlyCopyIsRetained, FailureSpares
  <2>5. Unclaimed(a)'
    BY <1>1, <1>2, <2>2 DEF AttemptInv, Unclaimed
  <2>6. LookupKnows(a)'
    <3>1. Owned(a)' => UNCHANGED intent
      BY <2>1 DEF FailureTakes
    <3> QED
      BY <1>1, <1>2, <2>2, <3>1 DEF AttemptInv, LookupKnows
  <2>7. OneKept(a)
    BY <1>2, <2>1, <2>2, <2>3, <2>4, <2>5, <2>6 DEF OneKept, Kept, AttemptInv, Same
  <2> QED
    BY <2>7, <2>8, OneAttemptMoves
<1>6. CASE \/ IntentLapses(a)
           \/ GiveUpIntent(a) /\ intent' = Settled(a) /\ UNCHANGED <<job, run>>
  <2>1. UNCHANGED <<job, run>> /\ UNCHANGED recovery
    BY <1>6 DEF IntentLapses, GiveUpIntent
  <2>2. /\ OutputTyped' /\ \A b \in Attempts \ {a} : intent'[b] = intent[b]
        /\ intent'[a] \in {"lapsed", "settled"}
    <3>1. CASE intent' = [intent EXCEPT ![a] = "lapsed"]
      BY <1>1, <1>2, <3>1 DEF Typed, OutputTyped
    <3>2. CASE intent' = Settled(a)
      BY <1>1, <1>2, <3>2 DEF Typed, OutputTyped, Settled, Recorded
    <3> QED
      BY <1>6, <3>1, <3>2 DEF IntentLapses
  <2>3. Typed'
    BY <1>1, <1>2, <2>1, <2>2
       DEF Typed, JobTyped, RunsTyped, BoxesTyped, WorkersTyped, SupsTyped, RecoveryTyped,
           recovery
  <2>4. \A b \in Attempts \ {a} : Same(b) /\ JobMoves(b)
    BY <1>2, <2>1, <2>2, JobStays DEF Same
  <2>5. Unclaimed(a)' /\ RunHasClaim(a)' /\ LookupKnows(a)'
    BY <1>1, <1>2, <2>1, <2>2 DEF AttemptInv, Unclaimed, RunHasClaim, LookupKnows, Owned
  <2>6. StepsInOrder(a)' /\ OnlyCopyIsRetained(a)' /\ FailureSpares(a)'
    BY <1>1, <1>2, <1>3, <2>1, <2>2
       DEF AttemptInv, StepsInOrder, OnlyCopyIsRetained, FailureSpares
  <2>7. Moves(a)
    BY <1>2, <2>1
       DEF Moves, StatusMoves, HandleMoves, StopMoves, MarkMoves, EndIsFinal, Holds
  <2>8. OneKept(a)
    BY <2>3, <2>4, <2>5, <2>6, <2>7 DEF OneKept, Kept, AttemptInv
  <2> QED
    BY <2>1, <2>8, OneAttemptMoves
<1> QED
  BY <1>4, <1>5, <1>6 DEF GiveUpIntent

(* A cancel ends every open run, and they are its receipt. *)
LEMMA CancelKept == StageInv /\ Cancel => StepKept
<1> SUFFICES ASSUME StageInv, Cancel PROVE StepKept
  OBVIOUS
<1>1. /\ Typed /\ \A b \in Attempts : AttemptInv(b)
      /\ run \in [Attempts -> RunRows] /\ intent \in [Attempts -> {"none", "open", "lapsed", "settled"}]
      /\ job \in [status : {"queued", "claimed", "done"}, claim : 0..MaxClaims]
  BY DEF StageInv, Typed, RunsTyped, OutputTyped, JobTyped
<1>2. UNCHANGED <<copied, box, op, worker, sup, sweep, reaper, beat>>
  BY DEF Cancel, boxes, programs
<1> DEFINE ended == {a \in Attempts : run[a].status = "running"}
<1>3. /\ run' = [a \in Attempts |-> IF a \in ended
                        THEN [run[a] EXCEPT !.status = "canceled"] ELSE run[a]]
      /\ intent' = [a \in Attempts |-> IF a \in ended /\ intent[a] \in Recorded
                                            THEN "settled" ELSE intent[a]]
      /\ receipt' = receipt \cup ended
      /\ job' = [job EXCEPT !.status = "done"] /\ job.status # "done"
  BY DEF Cancel
<1>4. JobTyped' /\ job'.status = "done" /\ job'.claim = job.claim
  BY <1>1, <1>3 DEF JobTyped
<1>5. \A b \in Attempts : ~Owned(b)'
  BY <1>4 DEF Owned
<1>6. \A b \in Attempts :
        /\ run'[b].marked = run[b].marked
        /\ \/ run[b].status # "running" /\ run'[b] = run[b] /\ intent'[b] = intent[b]
           \/ /\ run[b].status = "running" /\ run'[b].status = "canceled"
              /\ intent'[b] \in {"none", "settled"}
              /\ intent[b] = "none" <=> intent'[b] = "none"
  BY <1>1, <1>3 DEF RunRows, Recorded
<1>7. RunsTyped' /\ OutputTyped'
  <2>1. run' \in [Attempts -> RunRows]
    BY <1>1, <1>3 DEF RunRows, RunStates
  <2>2. \A b \in Attempts : run'[b].box \/ run'[b].marked => run'[b].status # "none"
    BY <1>1, <1>3 DEF Typed, RunsTyped, RunRows
  <2>3. intent' \in [Attempts -> {"none", "open", "lapsed", "settled"}]
    BY <1>1, <1>3
  <2> QED
    BY <1>1, <1>2, <2>1, <2>2, <2>3 DEF RunsTyped, OutputTyped, Typed
<1>8. Typed'
  BY <1>1, <1>2, <1>3, <1>4, <1>7
     DEF Typed, BoxesTyped, WorkersTyped, SupsTyped, RecoveryTyped
<1>9. ASSUME NEW b \in Attempts PROVE Kept(b)
  <2>1. AttemptInv(b)
    BY <1>1
  <2>2. Unclaimed(b)' /\ RunHasClaim(b)' /\ LookupKnows(b)'
    BY <1>2, <1>3, <1>4, <1>5, <1>6, <2>1
       DEF AttemptInv, Unclaimed, RunHasClaim, LookupKnows
  <2>3. StepsInOrder(b)' /\ OnlyCopyIsRetained(b)' /\ FailureSpares(b)'
    BY <1>2, <1>6, <2>1 DEF AttemptInv, StepsInOrder, OnlyCopyIsRetained, FailureSpares
  <2>4. Moves(b)
    BY <1>2, <1>6
       DEF Moves, StatusMoves, HandleMoves, StopMoves, MarkMoves, EndIsFinal, Holds, Terminal
  <2> QED
    BY <2>2, <2>3, <2>4 DEF Kept, AttemptInv
<1>10. RecoveryInv'
  <2>1. \A b \in receipt' : run'[b].status = "canceled"
    BY <1>3, <1>6 DEF StageInv, RecoveryInv, Typed, RecoveryTyped
  <2>2. \A b \in Attempts : /\ Over(b) => Over(b)' /\ run'[b].status = run[b].status
                            /\ run'[b].status = "success" => run[b].status = "success"
    BY <1>2, <1>6 DEF Over, Terminal
  <2>5. Published' => Published
    BY <2>2 DEF Published
  <2>3. sweep.at = "stop" => sweep.claim \in Attempts
    BY <1>1 DEF Typed, RecoveryTyped
  <2>4. reaper.orphans \subseteq Attempts
    BY <1>1 DEF Typed, RecoveryTyped, ReaperStates
  <2> QED
    BY <1>2, <2>1, <2>2, <2>3, <2>4, <2>5 DEF StageInv, RecoveryInv
<1> QED
  BY <1>2, <1>8, <1>9, <1>10, BeatStays DEF StepKept
-----------------------------------------------------------------------------
(* Those who stop sandboxes, and those who only read *)

(* A step on the sandbox of one attempt alone; who asked for it may note it.*)
LEMMA BoxKept ==
    ASSUME StageInv, NEW a \in Attempts, UNCHANGED <<ledger, programs>>,
           BoxesTyped', RecoveryTyped',
           \A b \in Attempts \ {a} : box'[b] = box[b] /\ op'[b] = op[b],
           op'[a] \in {op[a], "none"}, box[a] = "none" => box'[a] = "none",
           StopMoves(a)
    PROVE  OneKept(a)
<1>1. Typed /\ AttemptInv(a)
  BY DEF StageInv
<1>2. UNCHANGED <<job, run, intent, copied, worker, sup>>
  BY DEF ledger, programs
<1>3. Typed'
  BY <1>1, <1>2 DEF Typed, JobTyped, RunsTyped, OutputTyped, WorkersTyped, SupsTyped
<1>4. \A b \in Attempts \ {a} : Same(b) /\ JobMoves(b)
  BY <1>2, JobStays DEF Same
<1>5. Unclaimed(a)' /\ RunHasClaim(a)' /\ LookupKnows(a)'
  BY <1>1, <1>2 DEF AttemptInv, Unclaimed, RunHasClaim, LookupKnows, Owned
<1>6. StepsInOrder(a)' /\ OnlyCopyIsRetained(a)' /\ FailureSpares(a)'
  BY <1>1, <1>2 DEF AttemptInv, StepsInOrder, OnlyCopyIsRetained, FailureSpares
<1>7. Moves(a)
  BY <1>2 DEF Moves, StatusMoves, HandleMoves, MarkMoves, EndIsFinal, Holds
<1> QED
  BY <1>3, <1>4, <1>5, <1>6, <1>7 DEF OneKept, Kept, AttemptInv

LEMMA StoppedBoxes ==
    ASSUME BoxesTyped, NEW a \in Attempts, box' = Stopped(a)
    PROVE  /\ box' \in [Attempts -> {"none", "up", "stopped", "expired"}]
           /\ \A b \in Attempts \ {a} : box'[b] = box[b]
           /\ box[a] = "none" => box'[a] = "none"
           /\ StopIsAllowed(a) => StopMoves(a)
  BY DEF BoxesTyped, Stopped, StopMoves

(* An operation that is recorded has no worker and no work.                 *)
LEMMA OperationKept ==
    ASSUME StageInv, NEW a \in Attempts, RecoverOperation(a)
    PROVE  StepKept
<1>1. Typed /\ AttemptInv(a) /\ BoxesTyped
  BY DEF StageInv, Typed
<1>2. /\ UNCHANGED <<ledger, programs, recovery>> /\ box' = Stopped(a)
      /\ op' = [op EXCEPT ![a] = "none"] /\ op[a] # "none"
  BY DEF RecoverOperation, RecoveryDue
<1>3. StopIsAllowed(a)
  BY <1>1, <1>2 DEF AttemptInv, StepsInOrder, StopIsAllowed
<1>4. BoxesTyped' /\ \A b \in Attempts \ {a} : op'[b] = op[b]
  BY <1>1, <1>2, StoppedBoxes DEF BoxesTyped
<1>5. op'[a] = "none"
  BY <1>1, <1>2 DEF BoxesTyped
<1>6. RecoveryTyped'
  BY <1>1, <1>2 DEF Typed, RecoveryTyped, recovery
<1>7. OneKept(a)
  BY <1>1, <1>2, <1>3, <1>4, <1>5, <1>6, StoppedBoxes, BoxKept
<1> QED
  BY <1>2, <1>7, OneAttemptMoves

LEMMA ExpireKept ==
    ASSUME StageInv, NEW a \in Attempts, Expire(a)
    PROVE  StepKept
<1>1. Typed /\ BoxesTyped
  BY DEF StageInv, Typed
<1>2. /\ UNCHANGED <<ledger, programs, recovery, op>> /\ box[a] = "up"
      /\ box' = [box EXCEPT ![a] = "expired"]
  BY DEF Expire
<1>3. /\ BoxesTyped' /\ \A b \in Attempts \ {a} : box'[b] = box[b] /\ op'[b] = op[b]
      /\ box'[a] = "expired" /\ op'[a] = op[a]
  BY <1>1, <1>2 DEF BoxesTyped
<1>4. RecoveryTyped'
  BY <1>1, <1>2 DEF Typed, RecoveryTyped, recovery
<1>5. StopMoves(a)
  BY <1>2, <1>3 DEF StopMoves
<1>6. OneKept(a)
  BY <1>2, <1>3, <1>4, <1>5, BoxKept
<1> QED
  BY <1>2, <1>6, OneAttemptMoves

(* What a cancel stops was discarded with its run.                          *)
LEMMA CleanUpKept ==
    ASSUME StageInv, NEW a \in Attempts, CleanUp(a)
    PROVE  StepKept
<1>1. Typed /\ BoxesTyped /\ RecoveryTyped /\ RecoveryInv
  BY DEF StageInv, Typed
<1>2. /\ UNCHANGED <<ledger, programs, op, sweep, reaper, beat>> /\ a \in receipt
      /\ receipt' = receipt \ {a}
      /\ box' = box \/ box' = Stopped(a)
  BY DEF CleanUp
<1>3. run[a].status = "canceled"
  BY <1>1, <1>2 DEF RecoveryInv
<1>4. StopIsAllowed(a)
  BY <1>3 DEF StopIsAllowed
<1>5. /\ BoxesTyped' /\ \A b \in Attempts \ {a} : box'[b] = box[b] /\ op'[b] = op[b]
      /\ StopMoves(a) /\ op'[a] = op[a] /\ (box[a] = "none" => box'[a] = "none")
  <2>1. CASE box' = box
    BY <1>1, <1>2, <2>1 DEF BoxesTyped, StopMoves
  <2>2. CASE box' = Stopped(a)
    BY <1>1, <1>2, <1>4, <2>2, StoppedBoxes DEF BoxesTyped
  <2> QED
    BY <1>2, <2>1, <2>2
<1>6. /\ sweep' = sweep /\ reaper' = reaper /\ receipt' \subseteq receipt
      /\ run' = run /\ beat' = beat
  BY <1>2 DEF ledger, programs
<1>7. RecoveryTyped'
  BY <1>1, <1>6 DEF RecoveryTyped
<1>8. OneKept(a)
  BY <1>2, <1>5, <1>7, BoxKept
<1>9. RecoveryInv'
  BY <1>1, <1>6 DEF RecoveryInv, Over, Published
<1> QED
  BY <1>6, <1>8, <1>9, OneAttemptMoves, BeatStays DEF StepKept

LEMMA ConfirmGoneKept ==
    ASSUME StageInv, NEW a \in Attempts, ConfirmGone(a)
    PROVE  StepKept
<1>1. Typed /\ AttemptInv(a) /\ RunsTyped
  BY DEF StageInv, Typed
<1>2. /\ UNCHANGED <<job, intent, copied, box, op, worker, sup, sweep, reaper, receipt, beat>>
      /\ run[a].status \in Terminal /\ box[a] \in {"stopped", "expired"}
      /\ run' = [run EXCEPT ![a].marked = FALSE]
  BY DEF ConfirmGone, boxes, programs, recovery
<1>3. /\ RunsTyped' /\ \A b \in Attempts \ {a} : run'[b] = run[b]
      /\ run'[a].status = run[a].status /\ ~run'[a].marked
  BY <1>1, <1>2 DEF RunsTyped, RunRows
<1>4. Typed'
  BY <1>1, <1>2, <1>3
     DEF Typed, JobTyped, OutputTyped, BoxesTyped, WorkersTyped, SupsTyped, RecoveryTyped
<1>5. \A b \in Attempts \ {a} : Same(b) /\ JobMoves(b)
  BY <1>2, <1>3, JobStays DEF Same
<1>6. Unclaimed(a)' /\ RunHasClaim(a)' /\ LookupKnows(a)'
  BY <1>1, <1>2, <1>3 DEF AttemptInv, Unclaimed, RunHasClaim, LookupKnows, Owned
<1>7. StepsInOrder(a)' /\ OnlyCopyIsRetained(a)' /\ FailureSpares(a)'
  BY <1>1, <1>2, <1>3 DEF AttemptInv, StepsInOrder, OnlyCopyIsRetained, FailureSpares
<1>8. Moves(a)
  BY <1>2, <1>3 DEF Moves, StatusMoves, HandleMoves, StopMoves, MarkMoves, EndIsFinal, Holds
<1>9. OneKept(a)
  BY <1>4, <1>5, <1>6, <1>7, <1>8 DEF OneKept, Kept, AttemptInv
<1> QED
  BY <1>2, <1>9, OneAttemptMoves DEF recovery
(* What the stall detector keeps between its awaits. *)
LEMMA SweepReads ==
    ASSUME StageInv, SweepJobs \/ SweepRuns \/ SweepReread \/ SweepDies
    PROVE  StepKept
<1>1. /\ Typed /\ ClaimInv /\ RecoveryTyped /\ RecoveryInv
      /\ run \in [Attempts -> RunRows] /\ sweep \in SweepStates
  BY DEF StageInv, Typed, RunsTyped, RecoveryTyped
<1>2. /\ UNCHANGED <<ledger, boxes, programs, reaper, receipt, beat>>
      /\ run' = run
  BY DEF SweepJobs, SweepRuns, SweepReread, SweepDies, ledger, programs
<1>3. IdleSweep \in SweepStates /\ IdleSweep.at = "idle"
  <2>1. MaxClaims \in Nat
    BY StageAssumption
  <2> QED
    BY <2>1 DEF IdleSweep, SweepStates, RunStates
<1>4. /\ sweep' \in SweepStates
      /\ sweep'.at # "idle" => sweep'.claim \in Attempts
      /\ sweep'.at = "stop" => Over(sweep'.claim) /\ run[sweep'.claim].status = "error"
  <2>1. CASE sweep' = IdleSweep
    BY <1>3, <2>1
  <2>2. CASE SweepJobs
    <3>1. /\ job.claim \in Attempts /\ job.claim \in 0..MaxClaims
          /\ sweep' = [IdleSweep EXCEPT !.at = "runs", !.claim = job.claim]
      BY <1>1, <2>2 DEF SweepJobs, SweepsClaimed, ClaimInv, Typed, JobTyped
    <3> QED
      BY <1>3, <3>1 DEF SweepStates
  <2>3. CASE SweepRuns /\ sweep' # IdleSweep
    <3>1. sweep.claim \in Attempts
      BY <1>1, <2>3 DEF SweepRuns, RecoveryTyped
    <3>2. run[sweep.claim].status \in RunStates /\ run[sweep.claim].box \in BOOLEAN
      BY <1>1, <3>1 DEF RunRows
    <3>3. sweep' = [sweep EXCEPT !.at = "fail", !.seen = run[sweep.claim].status,
                                 !.box = run[sweep.claim].box]
      BY <2>3 DEF SweepRuns
    <3> QED
      BY <1>1, <3>1, <3>2, <3>3 DEF SweepStates
  <2>4. CASE SweepReread /\ sweep' # IdleSweep
    <3>1. sweep.claim \in Attempts
      BY <1>1, <2>4 DEF SweepReread, RecoveryTyped
    <3>2. MayStopRetired(sweep.claim) /\ sweep' = [sweep EXCEPT !.at = "stop"]
      BY <2>4 DEF SweepReread
    <3> QED
      BY <1>1, <3>1, <3>2 DEF SweepStates, MayStopRetired, Over, Terminal
  <2> QED
    BY <2>1, <2>2, <2>3, <2>4 DEF SweepDies
<1>5. RecoveryTyped'
  BY <1>1, <1>2, <1>4 DEF RecoveryTyped
<1>6. RecoveryInv'
  BY <1>1, <1>2, <1>4 DEF RecoveryInv, Over, Published
<1>7. UNCHANGED <<ledger, boxes, programs>>
  BY <1>2
<1> QED
  BY <1>2, <1>5, <1>6, <1>7, NobodyMoves, BeatStays DEF StepKept

(* The failure the stall detector reports, from the rows it read before.    *)
LEMMA SweepFailKept ==
    ASSUME StageInv, SweepFail
    PROVE  StepKept
<1>1. /\ Typed /\ RecoveryTyped /\ RecoveryInv /\ sweep \in SweepStates
      /\ sweep.at = "fail" /\ sweep.claim \in Attempts
  BY DEF StageInv, Typed, RecoveryTyped, SweepFail
<1>2. UNCHANGED <<copied, box, op, worker, sup, reaper, receipt, beat>>
  BY DEF SweepFail, boxes, programs
<1>3. PICK a \in Attempts : a = sweep.claim
  BY <1>1
<1>4. AttemptInv(a)
  BY DEF StageInv
<1>5. PICK named \in BOOLEAN :
        UNCHANGED <<job, run, intent>> \/ FailAttempt(a, named, TRUE)
  BY <1>3 DEF SweepFail, FailStalled
<1>6. /\ JobTyped' /\ RunsTyped' /\ OutputTyped'
      /\ \A b \in Attempts : JobMoves(b)
      /\ \A b \in Attempts \ {a} : run'[b] = run[b] /\ intent'[b] = intent[b]
      /\ UNCHANGED <<job, run, intent>> \/ FailureTakes(a, named, TRUE)
  <2>1. CASE UNCHANGED <<job, run, intent>>
    BY <1>1, <1>2, <2>1, JobStays DEF Typed, JobTyped, RunsTyped, OutputTyped
  <2>2. CASE FailAttempt(a, named, TRUE)
    BY <1>1, <1>2, <2>2, FailingKept
  <2> QED
    BY <1>5, <2>1, <2>2
<1>7. /\ sweep' \in SweepStates /\ sweep'.at # "stop"
      /\ sweep'.at # "idle" => sweep'.claim \in Attempts
  <2>1. IdleSweep \in SweepStates /\ IdleSweep.at = "idle"
    <3>1. MaxClaims \in Nat
      BY StageAssumption
    <3> QED
      BY <3>1 DEF IdleSweep, SweepStates, RunStates
  <2>2. sweep' = [sweep EXCEPT !.at = "reread"] \/ sweep' = IdleSweep
    BY DEF SweepFail
  <2> QED
    BY <1>1, <2>1, <2>2 DEF SweepStates
<1>8. RecoveryTyped'
  BY <1>1, <1>2, <1>7 DEF RecoveryTyped
<1>9. Typed'
  BY <1>1, <1>2, <1>6, <1>8 DEF Typed, BoxesTyped, WorkersTyped, SupsTyped
<1>10. /\ RunHasClaim(a)' /\ Moves(a)
       /\ intent'[a] = "none" <=> intent[a] = "none"
       /\ intent'[a] = "open" => UNCHANGED <<job, run, intent>>
       /\ run'[a].marked = run[a].marked
       /\ run'[a].status = "none" <=> run[a].status = "none"
       /\ job'.claim = job.claim /\ (Owned(a)' => Owned(a))
  <2>1. Holds(a)' => Holds(a)
    BY <1>2 DEF Holds
  <2> QED
    BY <1>1, <1>2, <1>4, <1>6, <2>1, FailedAttempt
<1>11. StepsInOrder(a)' /\ OnlyCopyIsRetained(a)' /\ FailureSpares(a)'
  BY <1>2, <1>4, <1>10 DEF AttemptInv, StepsInOrder, OnlyCopyIsRetained, FailureSpares
<1>12. Unclaimed(a)'
  BY <1>2, <1>4, <1>10 DEF AttemptInv, Unclaimed
<1>13. LookupKnows(a)'
  <2>1. Owned(a)' => UNCHANGED intent
    BY <1>6 DEF FailureTakes
  <2> QED
    BY <1>2, <1>4, <1>10, <2>1 DEF AttemptInv, LookupKnows
<1>14. OneKept(a)
  BY <1>2, <1>6, <1>9, <1>10, <1>11, <1>12, <1>13 DEF OneKept, Kept, AttemptInv, Same
<1>15. \A b \in Attempts : Kept(b)
  BY <1>14, OneAttemptMoves
<1>16. RecoveryInv'
  <2>1. \A b \in Attempts : EndIsFinal(b)
    BY <1>15 DEF Kept, Moves
  <2>2. \A b \in Attempts : /\ Over(b) => Over(b)' /\ run'[b].status = run[b].status
                            /\ run[b].status = "canceled" => run'[b].status = "canceled"
    BY <2>1 DEF EndIsFinal, Over, Terminal
  <2>4. Published' /\ ~beat.lists => beat.missed
    <3>1. ASSUME NEW b \in Attempts, run'[b].status = "success", ~beat.lists
          PROVE  beat.missed
      BY <1>1, <1>2, <2>1, <3>1 DEF EndIsFinal, RecoveryInv, Published
    <3> QED
      BY <3>1 DEF Published
  <2>3. receipt \subseteq Attempts /\ reaper.orphans \subseteq Attempts
    BY <1>1 DEF RecoveryTyped, ReaperStates
  <2> QED
    BY <1>1, <1>2, <1>7, <2>2, <2>3, <2>4 DEF RecoveryInv
<1> QED
  BY <1>2, <1>9, <1>15, <1>16, BeatStays DEF StepKept

(* The stall detector stops what was in error and unmarked when it was read *)
(* again; such a run does not change any more.                              *)
LEMMA SweepStopKept ==
    ASSUME StageInv, SweepStop
    PROVE  StepKept
<1>1. /\ Typed /\ BoxesTyped /\ RecoveryTyped /\ RecoveryInv
      /\ sweep.at = "stop" /\ sweep.claim \in Attempts
  BY DEF StageInv, Typed, RecoveryTyped, SweepStop
<1>2. /\ UNCHANGED <<ledger, programs, op, reaper, receipt, beat>>
      /\ box' = Stopped(sweep.claim) /\ sweep' = IdleSweep
      /\ run' = run
  BY DEF SweepStop, ledger, programs
<1>3. PICK a \in Attempts : a = sweep.claim
  BY <1>1
<1>4. StopIsAllowed(a)
  BY <1>1, <1>3 DEF RecoveryInv, Over, StopIsAllowed
<1>5. /\ BoxesTyped' /\ \A b \in Attempts \ {a} : box'[b] = box[b] /\ op'[b] = op[b]
      /\ StopMoves(a) /\ op'[a] = op[a] /\ (box[a] = "none" => box'[a] = "none")
  BY <1>1, <1>2, <1>3, <1>4, StoppedBoxes DEF BoxesTyped
<1>6. IdleSweep \in SweepStates /\ IdleSweep.at = "idle"
  <2>1. MaxClaims \in Nat
    BY StageAssumption
  <2> QED
    BY <2>1 DEF IdleSweep, SweepStates, RunStates
<1>7. RecoveryTyped' /\ RecoveryInv'
  BY <1>1, <1>2, <1>6 DEF RecoveryTyped, RecoveryInv, Over, Published
<1>8. OneKept(a)
  BY <1>2, <1>5, <1>7, BoxKept
<1> QED
  BY <1>2, <1>7, <1>8, OneAttemptMoves, BeatStays DEF StepKept

(* What the reaper keeps between its awaits: a published run that is not    *)
(* protected when the reaper asks has missed a heartbeat.                   *)
LEMMA ReaperReads ==
    ASSUME StageInv, ReaperList \/ ReaperRuns \/ ReaperJobs
    PROVE  StepKept
<1>1. /\ Typed /\ RecoveryTyped /\ RecoveryInv /\ reaper \in ReaperStates
      /\ \A a \in Attempts : AttemptInv(a)
  BY DEF StageInv, Typed, RecoveryTyped
<1>2. /\ UNCHANGED <<ledger, boxes, programs, sweep, receipt, beat>>
      /\ run' = run
  BY DEF ReaperList, ReaperRuns, ReaperJobs, ledger, programs
<1>3. IdleReaper \in ReaperStates /\ IdleReaper.at = "idle"
  BY DEF IdleReaper, ReaperStates
<1>4. /\ reaper' \in ReaperStates
      /\ reaper'.at = "jobs" =>
            /\ \A a \in reaper'.orphans : Over(a)
            /\ reaper'.published = {a \in reaper'.orphans : run[a].status = "success"}
      /\ reaper'.at = "stop" => \A a \in reaper'.orphans :
            Over(a) /\ (run[a].status = "success" => beat.missed)
  <2>1. CASE ReaperList
    <3>1. reaper' = [IdleReaper EXCEPT !.at = "runs",
                        !.listed = {a \in Attempts : box[a] = "up"}]
      BY <2>1 DEF ReaperList
    <3> QED
      BY <1>3, <3>1 DEF ReaperStates
  <2>2. CASE ReaperRuns
    <3> DEFINE found == {a \in reaper.listed : Orphaned(a)}
    <3>1. reaper' = [reaper EXCEPT !.at = "jobs", !.listed = {}, !.orphans = found,
                        !.published = {a \in found : run[a].status = "success"}]
      BY <2>2 DEF ReaperRuns
    <3>2. found \subseteq Attempts /\ \A a \in found : Over(a)
      BY <1>1 DEF ReaperStates, Orphaned, Over
    <3> HIDE DEF found
    <3> QED
      BY <1>1, <3>1, <3>2 DEF ReaperStates
  <2>3. CASE ReaperJobs
    <3> DEFINE left == reaper.orphans \ {a \in reaper.published : Protected(a)}
    <3>1. /\ reaper.at = "jobs"
          /\ reaper' = IF left = {} THEN IdleReaper
                       ELSE [IdleReaper EXCEPT !.at = "stop", !.orphans = left]
      BY <2>3 DEF ReaperJobs
    <3>2. left \subseteq Attempts
      BY <1>1 DEF ReaperStates
    <3>3. ASSUME NEW a \in left PROVE Over(a) /\ (run[a].status = "success" => beat.missed)
      <4>1. a \in reaper.orphans /\ Over(a) /\ AttemptInv(a)
        BY <1>1, <3>1, <3>2, <3>3 DEF RecoveryInv
      <4>2. CASE run[a].status = "success"
        <5>1. ~Protected(a)
          BY <1>1, <3>1, <3>3, <4>1, <4>2 DEF RecoveryInv
        <5>2. job.claim = a /\ job.status = "done" /\ Published
          BY <3>2, <3>3, <4>1, <4>2 DEF AttemptInv, RunHasClaim, Published
        <5> QED
          BY <1>1, <4>1, <5>1, <5>2 DEF Protected, RecoveryInv
      <4> QED
        BY <4>1, <4>2
    <3> HIDE DEF left
    <3> QED
      BY <1>3, <3>1, <3>2, <3>3 DEF ReaperStates
  <2> QED
    BY <2>1, <2>2, <2>3
<1>5. RecoveryTyped'
  BY <1>1, <1>2, <1>4 DEF RecoveryTyped
<1>6. RecoveryInv'
  BY <1>1, <1>2, <1>4 DEF RecoveryInv, Over, Published
<1>7. UNCHANGED <<ledger, boxes, programs>>
  BY <1>2
<1> QED
  BY <1>2, <1>5, <1>6, <1>7, NobodyMoves, BeatStays DEF StepKept

LEMMA ReaperStopKept ==
    ASSUME StageInv, ReaperStop
    PROVE  StepKept
<1>1. /\ Typed /\ BoxesTyped /\ RecoveryTyped /\ RecoveryInv
      /\ reaper \in ReaperStates /\ reaper.at = "stop"
  BY DEF StageInv, Typed, RecoveryTyped, ReaperStop
<1>2. PICK a \in reaper.orphans :
        /\ box' = Stopped(a)
        /\ reaper' = IF reaper.orphans = {a} THEN IdleReaper
                     ELSE [reaper EXCEPT !.orphans = @ \ {a}]
  BY DEF ReaperStop
<1>3. UNCHANGED <<ledger, programs, op, sweep, receipt, beat>> /\ run' = run
  BY DEF ReaperStop, ledger, programs
<1>4. a \in Attempts /\ Over(a) /\ (run[a].status = "success" => beat.missed)
  BY <1>1 DEF RecoveryInv, ReaperStates
<1>5. StopIsAllowed(a)
  BY <1>4 DEF Over, Terminal, StopIsAllowed
<1>6. /\ BoxesTyped' /\ \A b \in Attempts \ {a} : box'[b] = box[b] /\ op'[b] = op[b]
      /\ StopMoves(a) /\ op'[a] = op[a] /\ (box[a] = "none" => box'[a] = "none")
  BY <1>1, <1>2, <1>3, <1>4, <1>5, StoppedBoxes DEF BoxesTyped
<1>7. /\ reaper' \in ReaperStates
      /\ reaper'.at = "idle" \/ reaper'.at = "stop"
      /\ reaper'.at = "stop" => reaper'.orphans \subseteq reaper.orphans
  <2>1. IdleReaper \in ReaperStates /\ IdleReaper.at = "idle"
    BY DEF IdleReaper, ReaperStates
  <2> QED
    BY <1>1, <1>2, <2>1 DEF ReaperStates
<1>8. RecoveryTyped' /\ RecoveryInv'
  BY <1>1, <1>3, <1>7 DEF RecoveryTyped, RecoveryInv, Over, Published
<1>9. OneKept(a)
  BY <1>3, <1>4, <1>6, <1>8, BoxKept
<1> QED
  BY <1>3, <1>4, <1>8, <1>9, OneAttemptMoves, BeatStays DEF StepKept

(* A list that lapses while an attempt is published was missed.             *)
LEMMA HeartbeatKept ==
    ASSUME StageInv, Heartbeat \/ HeartbeatLapses
    PROVE  StepKept
<1>1. /\ RecoveryTyped /\ RecoveryInv
      /\ beat \in [lists : BOOLEAN, missed : BOOLEAN]
  BY DEF StageInv, Typed, RecoveryTyped
<1>2. UNCHANGED <<ledger, boxes, programs, sweep, reaper, receipt>> /\ run' = run
  BY DEF Heartbeat, HeartbeatLapses, ledger
<1>3. /\ beat' \in [lists : BOOLEAN, missed : BOOLEAN]
      /\ beat.missed => beat'.missed
      /\ Published /\ ~beat'.lists => beat'.missed
  <2>1. CASE Heartbeat
    BY <1>1, <2>1 DEF Heartbeat
  <2>2. CASE HeartbeatLapses
    <3>1. beat' = [lists |-> FALSE, missed |-> beat.missed \/ Published]
      BY <2>2 DEF HeartbeatLapses, Published
    <3>2. (beat.missed \/ Published) \in BOOLEAN
      BY DEF Published
    <3> QED
      BY <3>1, <3>2
  <2> QED
    BY <2>1, <2>2
<1>4. BeatMoves
  BY <1>3 DEF BeatMoves
<1>5. Published' => Published
  BY <1>2 DEF Published
<1>6. \A b \in Attempts : EndIsFinal(b)
  BY <1>2 DEF EndIsFinal
<1>7. RecoveryTyped' /\ RecoveryInv'
  BY <1>1, <1>2, <1>3, <1>4, <1>6, ReadingsStay
<1> QED
  BY <1>2, <1>4, <1>7, NobodyMoves DEF StepKept
-----------------------------------------------------------------------------
(* The invariant *)

(* Only a claim makes a claim. *)
LEMMA ClaimStands ==
    ASSUME Typed, ClaimInv, [Next]_vars
    PROVE  ClaimInv'
<1>1. job \in [status : {"queued", "claimed", "done"}, claim : 0..MaxClaims]
  BY DEF Typed, JobTyped
<1>2. CASE job' = job
  BY <1>2 DEF ClaimInv
<1>3. CASE job'.status # "claimed"
  BY <1>3 DEF ClaimInv
<1>4. CASE Claim
  <2>1. MaxClaims \in Nat /\ job.claim < MaxClaims /\ job'.claim = job.claim + 1
    BY <1>4, StageAssumption DEF Claim
  <2> QED
    BY <1>1, <2>1 DEF ClaimInv, Attempts
<1>5. ASSUME NEW a, NEW named, NEW retry, FailAttempt(a, named, retry)
      PROVE  job' = job \/ job'.status # "claimed"
  BY <1>1, <1>5 DEF FailAttempt, AfterFailure
<1>6. ASSUME NEW a \in Attempts, ProcessorStep(a)
      PROVE  job' = job \/ job'.status # "claimed"
  <2>1. CASE Fail(a)
    BY <1>5, <2>1 DEF Fail, FailStalled
  <2>2. CASE ~Fail(a)
    BY <1>6, <2>2
       DEF ProcessorStep, Start, Create, Record, Attach, Acquired, AcquisitionFails, AgentFails,
           OwnershipLost, AgentCompletes, Mark, Upload, Prepare, Publish, End, ObserveAbort,
           BudgetExpires, ledger
  <2> QED
    BY <2>1, <2>2
<1>7. ASSUME NEW a \in Attempts, SupervisorStep(a)
      PROVE  job' = job \/ job'.status # "claimed"
  BY <1>5, <1>7
     DEF SupervisorStep, Settles, DeadlinePasses, Lookup, Retire, RecoveryFails, Crash,
         FailStalled, ledger
<1>8. ASSUME NEW a \in Attempts, LedgerStep(a) \/ CleanUp(a) \/ ProviderStep(a)
      PROVE  job' = job \/ job'.status # "claimed"
  BY <1>1, <1>5, <1>8
     DEF LedgerStep, Adopt, IntentLapses, GiveUpIntent, RecoverOperation, CleanUp, ProviderStep, Expire,
         ConfirmGone, ledger
<1>9. ASSUME Sweep \/ Reap \/ Cancel
      PROVE  job' = job \/ job'.status # "claimed"
  BY <1>1, <1>5, <1>9
     DEF Sweep, SweepJobs, SweepRuns, SweepFail, SweepReread, SweepStop, SweepDies, FailStalled,
         Reap, ReaperList, ReaperRuns, ReaperJobs, ReaperStop, Cancel, ledger
<1>10. UNCHANGED vars \/ Heartbeat \/ HeartbeatLapses => job' = job
  BY DEF vars, ledger, Heartbeat, HeartbeatLapses
<1> QED
  BY <1>2, <1>3, <1>4, <1>6, <1>7, <1>8, <1>9, <1>10 DEF Next, UserStep

LEMMA ProcessorKept ==
    ASSUME StageInv, NEW a \in Attempts, ProcessorStep(a)
    PROVE  StepKept
<1>1. OneKept(a)
  BY StartKept, AcquisitionKept, QuietKept, MarkKept, UploadKept, PrepareKept, FailKept, EndKept,
     AbortKept
     DEF ProcessorStep
<1>2. UNCHANGED recovery
  BY DEF ProcessorStep, Start, Create, Record, Attach, Acquired, AcquisitionFails, AgentFails,
         OwnershipLost, AgentCompletes, Mark, Upload, Prepare, Publish, Fail, End, ObserveAbort,
         BudgetExpires
<1> QED
  BY <1>1, <1>2, OneAttemptMoves

LEMMA SupervisorsKept ==
    ASSUME StageInv, NEW a \in Attempts, SupervisorStep(a)
    PROVE  StepKept
<1>1. OneKept(a)
  BY AbortKept, SupervisorKept, RetireKept, CrashKept DEF SupervisorStep
<1>2. UNCHANGED recovery
  BY DEF SupervisorStep, Settles, DeadlinePasses, Lookup, Retire, RecoveryFails, Crash
<1> QED
  BY <1>1, <1>2, OneAttemptMoves

(* Every step keeps every attempt and what was read about it. *)
LEMMA StepStage == StageInv /\ [Next]_vars => StepKept
<1> SUFFICES ASSUME StageInv, [Next]_vars PROVE StepKept
  OBVIOUS
<1>1. CASE UNCHANGED vars
  <2>1. UNCHANGED <<ledger, boxes, programs>> /\ UNCHANGED <<run, sweep, reaper, receipt, beat>>
    BY <1>1 DEF vars, ledger, recovery
  <2>2. RecoveryTyped' /\ RecoveryInv'
    BY <2>1 DEF StageInv, Typed, RecoveryTyped, RecoveryInv, Over, Published
  <2> QED
    BY <2>1, <2>2, NobodyMoves, BeatStays DEF StepKept
<1>2. CASE Claim \/ Heartbeat \/ HeartbeatLapses
  BY <1>2, ClaimKept, HeartbeatKept
<1>3. ASSUME NEW a \in Attempts, ProcessorStep(a) PROVE StepKept
  BY <1>3, ProcessorKept
<1>4. ASSUME NEW a \in Attempts, SupervisorStep(a) PROVE StepKept
  BY <1>4, SupervisorsKept
<1>5. ASSUME NEW a \in Attempts, LedgerStep(a) PROVE StepKept
  BY <1>5, PublicationKept, OperationKept DEF LedgerStep
<1>6. CASE UserStep
  BY <1>6, CancelKept, CleanUpKept DEF UserStep
<1>7. ASSUME NEW a \in Attempts, ProviderStep(a) PROVE StepKept
  BY <1>7, ExpireKept, ConfirmGoneKept DEF ProviderStep
<1>8. CASE Sweep
  BY <1>8, SweepReads, SweepFailKept, SweepStopKept DEF Sweep
<1>9. CASE Reap
  BY <1>9, ReaperReads, ReaperStopKept DEF Reap
<1> QED
  BY <1>1, <1>2, <1>3, <1>4, <1>5, <1>6, <1>7, <1>8, <1>9 DEF Next

LEMMA InitKept == Init => StageInv
<1> SUFFICES ASSUME Init PROVE StageInv
  OBVIOUS
<1>1. MaxClaims \in Nat \ {0}
  BY StageAssumption
<1>2. JobTyped /\ job.status = "queued" /\ job.claim = 0
  BY <1>1 DEF Init, JobTyped
<1>3. /\ RunsTyped /\ OutputTyped /\ BoxesTyped
      /\ \A a \in Attempts : /\ run[a].status = "none" /\ ~run[a].marked
                             /\ intent[a] = "none" /\ op[a] = "none" /\ box[a] = "none"
  BY DEF Init, RunsTyped, RunRows, RunStates, OutputTyped, BoxesTyped
<1>4. /\ WorkersTyped
      /\ \A a \in Attempts : /\ worker[a].at = "off" /\ ~worker[a].handle
                             /\ ~worker[a].retain
  <2>1. NewWorker \in WorkerRows
    BY FailureRows DEF NewWorker, WorkerRows, WorkerSteps, NoFailure
  <2>2. NewWorker.at = "off" /\ ~NewWorker.handle /\ ~NewWorker.retain
    BY DEF NewWorker
  <2> QED
    BY <2>1, <2>2 DEF Init, WorkersTyped
<1>5. SupsTyped /\ \A a \in Attempts : sup[a].at = "off" /\ sup[a].lookup = 1
  BY DEF Init, SupsTyped, SupRows, SupSteps, NewSup
<1>6. RecoveryTyped /\ RecoveryInv
  <2>1. IdleSweep \in SweepStates /\ IdleSweep.at = "idle"
    BY <1>1 DEF IdleSweep, SweepStates, RunStates
  <2>2. IdleReaper \in ReaperStates /\ IdleReaper.at = "idle"
    BY DEF IdleReaper, ReaperStates
  <2>3. sweep = IdleSweep /\ reaper = IdleReaper /\ receipt = {}
    BY DEF Init
  <2> QED
    BY <1>3, <2>1, <2>2, <2>3 DEF RecoveryTyped, RecoveryInv, Published, Init
<1>7. ClaimInv
  BY <1>2 DEF ClaimInv
<1>8. ASSUME NEW a \in Attempts PROVE AttemptInv(a)
  <2>1. Unclaimed(a) /\ RunHasClaim(a) /\ LookupKnows(a)
    BY <1>2, <1>3, <1>4, <1>5 DEF Unclaimed, RunHasClaim, LookupKnows, Owned
  <2>2. StepsInOrder(a) /\ OnlyCopyIsRetained(a) /\ FailureSpares(a)
    BY <1>3, <1>4 DEF StepsInOrder, OnlyCopyIsRetained, FailureSpares
  <2> QED
    BY <2>1, <2>2 DEF AttemptInv
<1> QED
  BY <1>2, <1>3, <1>4, <1>5, <1>6, <1>7, <1>8 DEF StageInv, Typed

(* The inductive invariant: the rows and programs of every attempt agree,   *)
(* and what the stall detector, the reaper and a cancel read is still true  *)
(* when they act on it.                                                     *)
THEOREM StageInvariance == Spec => []StageInv
<1>1. StageInv /\ [Next]_vars => StageInv'
  BY StepStage, ClaimStands DEF StepKept, Kept, StageInv
<1> QED
  BY InitKept, <1>1, PTL DEF Spec

(* Rows and programs hold values of their types, whoever acts. *)
THEOREM StageTypes == Spec => []StageTypeOK
<1>1. StageInv => StageTypeOK
  BY TypedIsTypeOK DEF StageInv
<1> QED
  BY <1>1, StageInvariance, PTL

(* When retireAttempt has returned, the attempt's claim is over or its      *)
(* output is recorded: the second lookup finds a run that started late.     *)
THEOREM RetiredIsOver == Spec => []RetireMeansOver
<1>1. StageInv => RetireMeansOver
  BY DEF StageInv, AttemptInv, LookupKnows, RetireMeansOver
<1> QED
  BY <1>1, StageInvariance, PTL

-----------------------------------------------------------------------------
(* Who fails an attempt whose output is recorded *)

LEMMA ErrorIsAFailure ==
    ASSUME Typed, NEW a \in Attempts, NEW b \in Attempts, NEW named, NEW retry,
           FailAttempt(b, named, retry),
           run[a].status = "running", run'[a].status = "error"
    PROVE  a = b /\ FailApplies(b, named)
<1>1. run \in [Attempts -> RunRows]
  BY DEF Typed, RunsTyped
<1>2. FailApplies(b, named)
  BY DEF FailAttempt
<1>3. run' = [run EXCEPT ![b].status = IF named THEN "error" ELSE @]
  BY <1>2 DEF FailAttempt
<1> QED
  BY <1>1, <1>2, <1>3 DEF RunRows

(* No other step ends an open run in error. *)
LEMMA OnlyFailuresEndInError ==
    ASSUME Typed, [Next]_vars, NEW a \in Attempts,
           run[a].status = "running", run'[a].status = "error"
    PROVE  \/ \E b \in Attempts : Fail(b) \/ Retire(b) \/ GiveUpIntent(b)
           \/ SweepFail
<1>1. run \in [Attempts -> RunRows] /\ run' # run
  BY DEF Typed, RunsTyped
<1>2. ASSUME NEW b \in Attempts, ProcessorStep(b) PROVE Fail(b)
  <2>1. CASE Start(b)
    BY <1>1, <2>1 DEF Start, Opened, RunRows
  <2>2. CASE Attach(b) \/ AcquisitionFails(b) \/ Mark(b) \/ Prepare(b)
    <3>1. \/ run' = run \/ run' = [run EXCEPT ![b].box = TRUE]
          \/ run' = [run EXCEPT ![b].marked = TRUE] \/ run' = [run EXCEPT ![b].marked = FALSE]
      <4>1. CASE Attach(b)
        BY <4>1 DEF Attach
      <4>2. CASE AcquisitionFails(b)
        BY <4>2 DEF AcquisitionFails
      <4>3. CASE Mark(b)
        BY <4>3 DEF Mark, Marked
      <4>4. CASE Prepare(b)
        BY <4>4 DEF Prepare, Prepared
      <4> QED
        BY <2>2, <4>1, <4>2, <4>3, <4>4
    <3>2. run'[a].status = run[a].status
      BY <1>1, <3>1 DEF RunRows
    <3> QED
      BY <3>2
  <2>3. CASE ~(Start(b) \/ Attach(b) \/ AcquisitionFails(b) \/ Mark(b) \/ Prepare(b))
    BY <1>1, <1>2, <2>3
       DEF ProcessorStep, Create, Record, Acquired, AgentFails, OwnershipLost,
           AgentCompletes, Upload, Publish, End, ObserveAbort, BudgetExpires, ledger
  <2> QED
    BY <2>1, <2>2, <2>3
<1>3. ASSUME NEW b \in Attempts, SupervisorStep(b) PROVE Retire(b)
  BY <1>1, <1>3
     DEF SupervisorStep, Settles, DeadlinePasses, Lookup, RecoveryFails, Crash, ledger
<1>4. ASSUME NEW b \in Attempts, LedgerStep(b) PROVE GiveUpIntent(b)
  BY <1>1, <1>4 DEF LedgerStep, Adopt, IntentLapses, RecoverOperation, ledger, RunRows
<1>5. ASSUME NEW b \in Attempts PROVE ~CleanUp(b) /\ ~ProviderStep(b)
  BY <1>1 DEF CleanUp, ProviderStep, Expire, ConfirmGone, ledger, RunRows
<1>6. ~Cancel
  BY <1>1 DEF Cancel, RunRows
<1>7. Sweep => SweepFail
  BY <1>1 DEF Sweep, SweepJobs, SweepRuns, SweepReread, SweepStop, SweepDies, ledger
<1>8. ~Reap
  BY <1>1 DEF Reap, ReaperList, ReaperRuns, ReaperJobs, ReaperStop, ledger
<1>9. ~Claim /\ ~Heartbeat /\ ~HeartbeatLapses /\ ~UNCHANGED vars
  BY <1>1 DEF Claim, Heartbeat, HeartbeatLapses, vars, ledger
<1> QED
  BY <1>2, <1>3, <1>4, <1>5, <1>6, <1>7, <1>8, <1>9 DEF Next, UserStep

(* Once the output of an attempt is recorded, and until it lapses, only the *)
(* session's elapsed budget fails it, and without a retry: neither a sweep  *)
(* nor a supervisor, nor a processor that lost the reply.                   *)
THEOREM BudgetFailsForGood == Spec => OnlyBudgetFailsPreparedWork
<1>1. ASSUME StageInv, [Next]_vars, NEW a \in Attempts,
             intent[a] = "open", run[a].status = "running", run'[a].status = "error"
      PROVE  job'.status # "queued" /\ worker[a].abort = "budget"
  <2>1. Typed /\ AttemptInv(a) /\ worker[a].fail \in Failures
    BY <1>1 DEF StageInv, Typed, WorkersTyped, WorkerRows
  <2>2. ASSUME NEW named, NEW retry, FailAttempt(a, named, retry), ~retry
        PROVE  job'.status = "done"
    <3>1. FailApplies(a, named)
      BY <1>1, <2>1, <2>2, ErrorIsAFailure
    <3> QED
      BY <2>1, <2>2, <3>1 DEF FailAttempt, AfterFailure, Typed, JobTyped
  <2>3. ASSUME NEW b \in Attempts, NEW named, NEW retry, FailStalled(b, named, retry)
        PROVE  FALSE
    <3>1. FailAttempt(b, named, retry) /\ intent[b] # "open"
      BY <1>1, <2>3 DEF FailStalled, Spares
    <3> QED
      BY <1>1, <2>1, <3>1, ErrorIsAFailure
  <2>4. ASSUME NEW b \in Attempts, Fail(b)
        PROVE  worker[a].abort = "budget" /\ job'.status = "done"
    <3>1. /\ worker[b].at = "failing" /\ ~worker[b].fail.preserve
          /\ FailAttempt(b, worker[b].fail.named, worker[b].fail.retry)
      BY <1>1, <2>3, <2>4 DEF Fail, At
    <3>2. a = b
      BY <1>1, <2>1, <3>1, ErrorIsAFailure
    <3>3. worker[a].abort = "budget" /\ ~worker[a].fail.retry
      BY <1>1, <2>1, <3>1, <3>2 DEF AttemptInv, FailureSpares
    <3> QED
      BY <2>2, <3>1, <3>2, <3>3
  <2>5. ASSUME NEW b \in Attempts PROVE ~GiveUpIntent(b)
    <3>1. SUFFICES ASSUME GiveUpIntent(b) PROVE FALSE
      OBVIOUS
    <3>2. intent[b] = "lapsed" /\ (FailAttempt(b, TRUE, FALSE) \/ run' = run)
      BY <3>1 DEF GiveUpIntent
    <3> QED
      BY <1>1, <2>1, <3>2, ErrorIsAFailure
  <2>6. ~SweepFail /\ \A b \in Attempts : ~Retire(b)
    <3>1. SweepFail => sweep.claim \in Attempts
      BY <2>1 DEF SweepFail, Typed, RecoveryTyped
    <3> QED
      BY <2>3, <3>1 DEF SweepFail, Retire
  <2> QED
    BY <1>1, <2>1, <2>4, <2>5, <2>6, OnlyFailuresEndInError
<1>2. StageInv /\ [Next]_vars =>
        [\A a \in Attempts :
           intent[a] = "open" /\ run[a].status = "running" /\ run'[a].status = "error"
           => job'.status # "queued" /\ worker[a].abort = "budget"]_vars
  BY <1>1
<1> QED
  BY <1>2, StageInvariance, PTL DEF Spec, OnlyBudgetFailsPreparedWork

-----------------------------------------------------------------------------
(* The refinement of SandboxCustody *)

LEMMA AuthorityValues ==
    ASSUME Typed, NEW a \in Attempts
    PROVE  /\ run[a].status = "none" => AuthorityOf(a) = "none"
           /\ run[a].status = "running" => AuthorityOf(a) = "open"
           /\ run[a].status = "canceled" => AuthorityOf(a) = "discarded"
           /\ run[a].status = "error" => AuthorityOf(a) = "over"
           /\ run[a].status = "success" =>
                 AuthorityOf(a) = IF worker[a].handle /\ Holds(a) /\ ~beat.missed
                                  THEN "open" ELSE "over"
           /\ run[a].status \in RunStates
           /\ AuthorityOf(a) \in Custody!AuthorityStates
           /\ WorkOf(a) \in Custody!WorkStates
<1>1. run[a].status \in RunStates
  BY DEF Typed, RunsTyped, RunRows
<1>2. WorkOf(a) \in Custody!WorkStates
  BY DEF WorkOf, Custody!WorkStates
<1>3. CASE run[a].status = "success"
  BY <1>2, <1>3, <1>1 DEF AuthorityOf, Custody!AuthorityStates
<1>4. CASE run[a].status # "success"
  BY <1>2, <1>4, <1>1 DEF AuthorityOf, RunStates, Custody!AuthorityStates
<1> QED
  BY <1>3, <1>4
(* Every move of an attempt is a step of its custody.                       *)
LEMMA MovesAreSteps ==
    ASSUME Typed, Typed', NEW a \in Attempts, Moves(a), BeatMoves
    PROVE  /\ \/ AuthorityOf(a)' = AuthorityOf(a)
              \/ AuthorityOf(a) = "none" /\ AuthorityOf(a)' = "open"
              \/ AuthorityOf(a) = "open" /\ AuthorityOf(a)' \in {"over", "discarded"}
           /\ \/ box'[a] = box[a]
              \/ box[a] = "none" /\ box'[a] = "up"
              \/ box[a] = "up" /\ box'[a] = "expired"
              \/ /\ box[a] = "up" /\ box'[a] = "stopped"
                 /\ WorkOf(a) # "boxed" \/ AuthorityOf(a) = "discarded"
                 /\ \/ ~worker[a].handle \/ ~worker'[a].handle
                    \/ AuthorityOf(a) \in {"over", "discarded"}
           /\ \/ WorkOf(a)' = WorkOf(a)
              \/ WorkOf(a) = "none" /\ WorkOf(a)' = "boxed" /\ AuthorityOf(a) = "open"
              \/ WorkOf(a) # "copied" /\ WorkOf(a)' = "copied"
              \/ /\ WorkOf(a) = "boxed" /\ WorkOf(a)' = "none"
                 /\ box[a] \in {"stopped", "expired"}
<1>1. /\ run[a].status = "none" => AuthorityOf(a) = "none"
      /\ run[a].status = "running" => AuthorityOf(a) = "open"
      /\ run[a].status = "canceled" => AuthorityOf(a) = "discarded"
      /\ run[a].status = "error" => AuthorityOf(a) = "over"
      /\ run[a].status = "success" =>
            AuthorityOf(a) = IF worker[a].handle /\ Holds(a) /\ ~beat.missed
                                  THEN "open" ELSE "over"
      /\ run[a].status \in RunStates
  BY AuthorityValues
<1>2. /\ run'[a].status = "running" => AuthorityOf(a)' = "open"
      /\ run'[a].status = "none" => AuthorityOf(a)' = "none"
      /\ run'[a].status = "canceled" => AuthorityOf(a)' = "discarded"
      /\ run'[a].status = "error" => AuthorityOf(a)' = "over"
      /\ run'[a].status = "success" =>
            AuthorityOf(a)' = IF worker'[a].handle /\ Holds(a)' /\ ~beat'.missed
                              THEN "open" ELSE "over"
  <2>1. run'[a].status \in RunStates
    BY DEF Typed, RunsTyped, RunRows
  <2> QED
    BY <2>1 DEF AuthorityOf, RunStates
<1>3. /\ StatusMoves(a) /\ HandleMoves(a) /\ StopMoves(a) /\ MarkMoves(a)
      /\ run[a].status = "success" /\ beat.missed => beat'.missed
  BY DEF Moves, BeatMoves, Published
<1>4. \/ AuthorityOf(a)' = AuthorityOf(a)
      \/ AuthorityOf(a) = "none" /\ AuthorityOf(a)' = "open"
      \/ AuthorityOf(a) = "open" /\ AuthorityOf(a)' \in {"over", "discarded"}
  <2>1. CASE run'[a].status = run[a].status
    BY <1>1, <1>2, <1>3, <2>1 DEF HandleMoves, RunStates
  <2>2. CASE run'[a].status # run[a].status
    BY <1>1, <1>2, <1>3, <2>2 DEF StatusMoves, Terminal
  <2> QED
    BY <2>1, <2>2
<1>5. /\ copied[a] => WorkOf(a) = "copied"
      /\ ~copied[a] /\ run[a].marked => WorkOf(a) = "boxed"
      /\ ~copied[a] /\ ~run[a].marked => WorkOf(a) = "none"
      /\ copied'[a] => WorkOf(a)' = "copied"
      /\ ~copied'[a] /\ run'[a].marked => WorkOf(a)' = "boxed"
      /\ ~copied'[a] /\ ~run'[a].marked => WorkOf(a)' = "none"
  BY DEF WorkOf
<1>6. \/ box'[a] = box[a]
      \/ box[a] = "none" /\ box'[a] = "up"
      \/ box[a] = "up" /\ box'[a] = "expired"
      \/ /\ box[a] = "up" /\ box'[a] = "stopped"
         /\ WorkOf(a) # "boxed" \/ AuthorityOf(a) = "discarded"
         /\ \/ ~worker[a].handle \/ ~worker'[a].handle
            \/ AuthorityOf(a) \in {"over", "discarded"}
  BY <1>1, <1>3, <1>5 DEF StopMoves, StopIsAllowed
<1>7. \/ WorkOf(a)' = WorkOf(a)
      \/ WorkOf(a) = "none" /\ WorkOf(a)' = "boxed" /\ AuthorityOf(a) = "open"
      \/ WorkOf(a) # "copied" /\ WorkOf(a)' = "copied"
      \/ /\ WorkOf(a) = "boxed" /\ WorkOf(a)' = "none"
         /\ box[a] \in {"stopped", "expired"}
  <2>1. copied[a] \in BOOLEAN /\ copied'[a] \in BOOLEAN
    BY DEF Typed, OutputTyped
  <2>2. run[a].marked \in BOOLEAN /\ run'[a].marked \in BOOLEAN
    BY DEF Typed, RunsTyped, RunRows
  <2> QED
    BY <1>1, <1>3, <1>5, <2>1, <2>2 DEF MarkMoves
<1> QED
  BY <1>4, <1>6, <1>7

LEMMA StepInCustody == StageInv /\ StepKept => Custody!Next
<1> SUFFICES ASSUME StageInv, StepKept PROVE Custody!Next
  OBVIOUS
<1>1. Typed /\ Typed' /\ BeatMoves /\ \A a \in Attempts : Moves(a)
  BY DEF StageInv, StepKept, Kept
<1>2. ASSUME NEW a \in Attempts PROVE Custody!Step(a)
  BY <1>1, <1>2, MovesAreSteps
     DEF Custody!Step, Custody!AuthorityMoves, Custody!BoxMoves, Custody!MayStop,
         Custody!WorkMoves
<1>3. box' \in [Attempts -> Custody!BoxStates]
  BY <1>1 DEF Typed, BoxesTyped, Custody!BoxStates
<1>4. \A a \in Attempts : /\ AuthorityOf(a)' \in Custody!AuthorityStates
                          /\ WorkOf(a)' \in Custody!WorkStates
                          /\ worker'[a].handle \in BOOLEAN
  <2>1. ASSUME NEW a \in Attempts PROVE WorkOf(a)' \in Custody!WorkStates
    BY DEF WorkOf, Custody!WorkStates
  <2>2. ASSUME NEW a \in Attempts PROVE AuthorityOf(a)' \in Custody!AuthorityStates
    <3>1. run'[a].status \in RunStates
      BY <1>1 DEF Typed, RunsTyped, RunRows
    <3>2. CASE run'[a].status = "success"
      BY <3>1, <3>2 DEF AuthorityOf, Custody!AuthorityStates
    <3>3. CASE run'[a].status # "success"
      BY <3>1, <3>3 DEF AuthorityOf, RunStates, Custody!AuthorityStates
    <3> QED
      BY <3>2, <3>3
  <2>3. ASSUME NEW a \in Attempts PROVE worker'[a].handle \in BOOLEAN
    BY <1>1 DEF Typed, WorkersTyped, WorkerRows
  <2> QED
    BY <2>1, <2>2, <2>3
<1>5. /\ [a \in Attempts |-> AuthorityOf(a)]' \in [Attempts -> Custody!AuthorityStates]
      /\ [a \in Attempts |-> WorkOf(a)]' \in [Attempts -> Custody!WorkStates]
      /\ [a \in Attempts |-> worker[a].handle]' \in [Attempts -> BOOLEAN]
  BY <1>4
<1> QED
  BY <1>2, <1>3, <1>5 DEF Custody!Next

(* Whatever the stall detector, the reaper, a cancel or the recovery of     *)
(* acquisitions read before they act: no sandbox in use is taken from its   *)
(* worker while the attempt is in force, and none that holds the only copy  *)
(* of completed work is stopped.  StageWorker implements SandboxCustody.    *)
THEOREM SandboxCustodyRefined == Spec => SandboxesAreInCustody
<1>1. Init => Custody!Init
  <2> SUFFICES ASSUME Init PROVE Custody!Init
    OBVIOUS
  <2>1. box = [a \in Attempts |-> "none"]
    BY DEF Init
  <2>2. ASSUME NEW a \in Attempts
        PROVE  AuthorityOf(a) = "none" /\ WorkOf(a) = "none" /\ worker[a].handle = FALSE
    <3>1. run[a].status = "none" /\ run[a].marked = FALSE /\ copied[a] = FALSE
      BY DEF Init
    <3>2. worker[a].handle = FALSE
      BY DEF Init, NewWorker
    <3>3. AuthorityOf(a) = "none"
      BY InitKept, AuthorityValues, <3>1 DEF StageInv
    <3> QED
      BY <3>1, <3>2, <3>3 DEF WorkOf
  <2> QED
    BY <2>1, <2>2 DEF Custody!Init
<1>2. StageInv /\ [Next]_vars => [Custody!Next]_(Custody!vars)
  BY StepStage, StepInCustody
<1> QED
  BY <1>1, <1>2, StageInvariance, PTL DEF Spec, SandboxesAreInCustody, Custody!Spec
=============================================================================
