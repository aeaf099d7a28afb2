------------------------ MODULE WorkerServicesProofs -------------------------
(*****************************************************************************)
(* TLAPS proofs about what worker processes run: the attempts of a worker   *)
(* process, the publication of canonical pull requests and the sessions'    *)
(* moves with their Linear issues.  Each part is about one service and      *)
(* proves its properties of that service's own specification, which is      *)
(* every behaviour of WorkerServices in which that service moves, and more: *)
(* the bounds WorkerServices sets on what is followed at once are not       *)
(* assumed.  The last part ties the services together.                      *)
(*****************************************************************************)
EXTENDS WorkerServices, FiniteSetTheorems, TLAPS

-----------------------------------------------------------------------------
(***************************************************************************)
(* What holds of a worker process for any number of jobs, timers, slots    *)
(* and claims: its capacity, and that a drained process is idle.           *)
(*                                                                         *)
(* The invariant ties each wait of a drain to what can still happen while  *)
(* it lasts.  While jobs are waited for, the loop may not claim any more,  *)
(* so the attempts that run are among those waited for; when none runs,    *)
(* the only writes of the scheduler are those waited for next.             *)
(***************************************************************************)

(* The scheduler's map is what runs, and a claim is asked for only while    *)
(* there is room for what it returns.                                       *)
SlotsAreCounted ==
    /\ running = inFlight /\ IsFiniteSet(running)
    /\ CapacityHolds
    /\ loop = "claiming" => Cardinality(running) < MaxConcurrent
    /\ \A j \in queued : claims[j] < MaxClaims

ScheduledWrites == Awaited(Sources \ {Tick})

(* A drain has closed every intake, and waits for what was open then.       *)
DrainHoldsIntake ==
    /\ Draining => /\ ~timersOn /\ aux # "on" /\ tasks \subseteq tasksWait
                   /\ jobsWait.step # "none"
    /\ ~Draining => jobsWait.step = "none" /\ ~drained
    /\ drained => jobsWait.step = "done" /\ tasksWait = {} /\ aux = "off"

(* What the wait for jobs has come to know. *)
WaitKnows ==
    /\ jobsWait.step \in {"jobs", "writes", "done"} => loop \in {"off", "fill", "done"}
    /\ jobsWait.step = "jobs" => running \subseteq jobsWait.on
    /\ jobsWait.step \in {"writes", "done"} => running = {}
    /\ jobsWait.step = "writes" => \A w \in ScheduledWrites : w.src \in jobsWait.on
    /\ jobsWait.step = "done" => ScheduledWrites = {}

ProcessInv == TypeOK /\ SlotsAreCounted /\ DrainHoldsIntake /\ WaitKnows

USE WorkerAssumption

-----------------------------------------------------------------------------
LEMMA ProcessInitInv == Init => ProcessInv
<1> SUFFICES ASSUME Init PROVE ProcessInv
  OBVIOUS
<1>1. TypeOK
  <2>1. NoWait \in Waits
    BY DEF NoWait, Waits, WaitSteps
  <2>2. claims \in [Jobs -> 0..MaxClaims]
    BY DEF Init
  <2> QED
    BY <2>1, <2>2 DEF Init, TypeOK, Phases, MainSteps, LoopSteps
<1>2. SlotsAreCounted
  BY FS_EmptySet DEF Init, SlotsAreCounted, CapacityHolds
<1>3. DrainHoldsIntake /\ WaitKnows
  BY DEF Init, DrainHoldsIntake, WaitKnows, NoWait, Draining
<1> QED
  BY <1>1, <1>2, <1>3 DEF ProcessInv

LEMMA StartInv == ASSUME ProcessInv, StartServing PROVE ProcessInv'
<1>1. TypeOK'
  BY DEF ProcessInv, StartServing, TypeOK, MainSteps, LoopSteps, lifecycle, beats,
         waits, queue, Draining
<1>2. SlotsAreCounted'
  BY DEF ProcessInv, StartServing, SlotsAreCounted, CapacityHolds, queue
<1>3. DrainHoldsIntake'
  BY DEF ProcessInv, StartServing, DrainHoldsIntake, Draining, lifecycle, waits
<1>4. WaitKnows'
  BY DEF ProcessInv, StartServing, WaitKnows, ScheduledWrites, Awaited, beats, waits
<1> QED
  BY <1>1, <1>2, <1>3, <1>4 DEF ProcessInv

LEMMA FillInv == ASSUME ProcessInv, Fill PROVE ProcessInv'
<1>1. loop' \in {"done", "claiming", "resting"}
  BY DEF Fill
<1>2. TypeOK'
  BY <1>1 DEF ProcessInv, Fill, TypeOK, LoopSteps, lifecycle, beats, upkeep, waits, queue
<1>3. SlotsAreCounted'
  BY DEF ProcessInv, Fill, SlotsAreCounted, CapacityHolds, queue, Draining
<1>4. DrainHoldsIntake'
  BY DEF ProcessInv, Fill, DrainHoldsIntake, Draining, lifecycle, waits, upkeep
<1>5. WaitKnows'
  <2>1. jobsWait.step # "none" => loop' = "done"
    BY DEF ProcessInv, DrainHoldsIntake, Fill, Draining
  <2> QED
    BY <2>1 DEF ProcessInv, Fill, WaitKnows, ScheduledWrites, Awaited, beats, waits
<1> QED
  BY <1>2, <1>3, <1>4, <1>5 DEF ProcessInv

(* A claim returns only while the drain, if any, still waits for the loop.  *)
LEMMA ClaimReturnsInv ==
    ASSUME ProcessInv, NEW j \in Jobs, ClaimReturns(j) PROVE ProcessInv'
<1> DEFINE a == <<j, claims[j] + 1>>
<1>1. a \in Attempts /\ claims[j] + 1 \in 0..MaxClaims /\ KeyOf(a) = a
  BY DEF ProcessInv, ClaimReturns, SlotsAreCounted, TypeOK, Attempts, KeyOf
<1>2. /\ running' = running \cup {a} /\ inFlight' = inFlight \cup {a}
      /\ writes' = writes \cup {Write(Loop, inFlight')}
      /\ queued' = queued \ {j} /\ claims' = [claims EXCEPT ![j] = @ + 1]
      /\ loop = "claiming" /\ loop' = "beating"
  BY <1>1 DEF ClaimReturns
<1>3. TypeOK'
  <2>1. Write(Loop, inFlight') \in [src : Sources, jobs : SUBSET Jobs, awaited : BOOLEAN]
    <3>1. ActiveJobs(inFlight') \subseteq Jobs
      BY <1>1, <1>2 DEF ProcessInv, TypeOK, ActiveJobs, Attempts
    <3> QED
      BY <3>1 DEF Write, Sources
  <2>2. claims' \in [Jobs -> 0..MaxClaims]
    BY <1>1, <1>2 DEF ProcessInv, TypeOK
  <2>3. queued' \subseteq Jobs
    BY <1>2 DEF ProcessInv, TypeOK
  <2>4. writes' \subseteq [src : Sources, jobs : SUBSET Jobs, awaited : BOOLEAN]
    <3>1. PICK w \in [src : Sources, jobs : SUBSET Jobs, awaited : BOOLEAN] :
               writes' = writes \cup {w}
      BY <1>2, <2>1
    <3> QED
      BY <3>1 DEF ProcessInv, TypeOK
  <2>5. running' \subseteq Attempts /\ inFlight' \subseteq Attempts
    BY <1>1, <1>2 DEF ProcessInv, TypeOK
  <2>6. loop' \in LoopSteps
    BY <1>2 DEF LoopSteps
  <2>7. UNCHANGED <<lifecycle, main, row, upkeep, waits>>
    BY DEF ClaimReturns
  <2> QED
    BY <2>2, <2>3, <2>4, <2>5, <2>6, <2>7 DEF ProcessInv, TypeOK, lifecycle, upkeep, waits
<1>4. SlotsAreCounted'
  <2>1. IsFiniteSet(running') /\ Cardinality(running') <= Cardinality(running) + 1
    <3>1. IsFiniteSet(running) /\ Cardinality(running) \in Nat
      BY FS_CardinalityType DEF ProcessInv, SlotsAreCounted
    <3>2. /\ IsFiniteSet(running \cup {a})
          /\ \/ Cardinality(running \cup {a}) = Cardinality(running)
             \/ Cardinality(running \cup {a}) = Cardinality(running) + 1
      BY <3>1, FS_AddElement
    <3> QED
      BY <1>2, <3>1, <3>2
  <2>2. CapacityHolds'
    BY <1>2, <2>1, FS_CardinalityType DEF ProcessInv, SlotsAreCounted, CapacityHolds
  <2>3. \A i \in queued' : claims'[i] < MaxClaims
    BY <1>2 DEF ProcessInv, SlotsAreCounted, TypeOK
  <2> QED
    BY <1>2, <2>1, <2>2, <2>3 DEF ProcessInv, SlotsAreCounted
<1>5. DrainHoldsIntake'
  BY DEF ProcessInv, ClaimReturns, DrainHoldsIntake, Draining, lifecycle, upkeep, waits
<1>6. WaitKnows'
  BY <1>2 DEF ProcessInv, ClaimReturns, WaitKnows, waits
<1> QED
  BY <1>3, <1>4, <1>5, <1>6 DEF ProcessInv

LEMMA ClaimFailsInv == ASSUME ProcessInv, ClaimFails PROVE ProcessInv'
<1>1. queued' \subseteq queued /\ claims' \in [Jobs -> 0..MaxClaims]
      /\ \A j \in queued' : claims'[j] = claims[j]
  <2>1. CASE UNCHANGED queue
    BY <2>1 DEF ProcessInv, TypeOK, queue
  <2>2. CASE \E j \in queued : /\ queued' = queued \ {j}
                               /\ claims' = [claims EXCEPT ![j] = @ + 1]
    BY <2>2 DEF ProcessInv, SlotsAreCounted, TypeOK
  <2> QED
    BY <2>1, <2>2 DEF ClaimFails
<1>2. TypeOK'
  BY <1>1 DEF ProcessInv, TypeOK, ClaimFails, LoopSteps, lifecycle, beats, upkeep, waits
<1>3. SlotsAreCounted'
  BY <1>1 DEF ProcessInv, SlotsAreCounted, CapacityHolds, ClaimFails
<1>4. DrainHoldsIntake'
  BY DEF ProcessInv, ClaimFails, DrainHoldsIntake, Draining, lifecycle, upkeep, waits
<1>5. WaitKnows'
  BY DEF ProcessInv, ClaimFails, WaitKnows, ScheduledWrites, Awaited, beats, waits
<1> QED
  BY <1>2, <1>3, <1>4, <1>5 DEF ProcessInv

LEMMA ResumeInv == ASSUME ProcessInv, Resume PROVE ProcessInv'
<1>1. TypeOK'
  BY DEF ProcessInv, TypeOK, Resume, LoopSteps, lifecycle, beats, upkeep, waits, queue
<1>2. SlotsAreCounted'
  BY DEF ProcessInv, SlotsAreCounted, CapacityHolds, Resume, queue
<1>3. DrainHoldsIntake'
  BY DEF ProcessInv, Resume, DrainHoldsIntake, Draining, lifecycle, upkeep, waits
<1>4. WaitKnows'
  BY DEF ProcessInv, Resume, WaitKnows, ScheduledWrites, Awaited, beats, waits
<1> QED
  BY <1>1, <1>2, <1>3, <1>4 DEF ProcessInv

(* The write of an attempt that ends is sent while it is still waited for.  *)
LEMMA AttemptEndsInv ==
    ASSUME ProcessInv, NEW a \in running, AttemptEnds(a) PROVE ProcessInv'
<1>1. /\ running' = running \ {a} /\ inFlight' = inFlight \ {a}
      /\ writes' = writes \cup {Write(a, inFlight')}
  BY DEF AttemptEnds, KeyOf
<1>2. TypeOK'
  <2>1. Write(a, inFlight') \in [src : Sources, jobs : SUBSET Jobs, awaited : BOOLEAN]
    <3>1. ActiveJobs(inFlight') \subseteq Jobs /\ a \in Sources
      BY <1>1 DEF ProcessInv, TypeOK, ActiveJobs, Attempts, Sources
    <3> QED
      BY <3>1 DEF Write
  <2>2. writes' \subseteq [src : Sources, jobs : SUBSET Jobs, awaited : BOOLEAN]
    <3>1. PICK w \in [src : Sources, jobs : SUBSET Jobs, awaited : BOOLEAN] :
               writes' = writes \cup {w}
      BY <1>1, <2>1
    <3> QED
      BY <3>1 DEF ProcessInv, TypeOK
  <2>3. running' \subseteq Attempts /\ inFlight' \subseteq Attempts
    BY <1>1 DEF ProcessInv, TypeOK
  <2>4. UNCHANGED <<lifecycle, main, loop, row, upkeep, waits, queue>>
    BY DEF AttemptEnds
  <2> QED
    BY <2>2, <2>3, <2>4 DEF ProcessInv, TypeOK, lifecycle, upkeep, waits, queue
<1>3. SlotsAreCounted'
  <2>1. IsFiniteSet(running') /\ Cardinality(running') <= Cardinality(running)
    <3>1. IsFiniteSet(running) /\ Cardinality(running) \in Nat
      BY FS_CardinalityType DEF ProcessInv, SlotsAreCounted
    <3>2. /\ IsFiniteSet(running \ {a})
          /\ Cardinality(running \ {a}) = Cardinality(running) - 1
      BY <3>1, FS_RemoveElement
    <3> QED
      BY <1>1, <3>1, <3>2
  <2>2. Cardinality(running) \in Nat /\ Cardinality(running') \in Nat
    BY <2>1, FS_CardinalityType DEF ProcessInv, SlotsAreCounted
  <2> QED
    BY <1>1, <2>1, <2>2 DEF ProcessInv, SlotsAreCounted, CapacityHolds, AttemptEnds, queue
<1>4. DrainHoldsIntake'
  BY DEF ProcessInv, AttemptEnds, DrainHoldsIntake, Draining, lifecycle, upkeep, waits
<1>5. WaitKnows'
  BY <1>1 DEF ProcessInv, AttemptEnds, WaitKnows, waits
<1> QED
  BY <1>2, <1>3, <1>4, <1>5 DEF ProcessInv

-----------------------------------------------------------------------------
(* The interval's writes are not the scheduler's; a write that lands or     *)
(* fails is no longer waited for.                                           *)
LEMMA FewerWrites ==
    ASSUME WaitKnows, ScheduledWrites' \subseteq ScheduledWrites,
           UNCHANGED <<jobsWait, loop, running>>
    PROVE  WaitKnows'
  BY DEF WaitKnows

LEMMA BeatInv == ASSUME ProcessInv, BeatStep PROVE ProcessInv'
<1>1. TypeOK' /\ ScheduledWrites' \subseteq ScheduledWrites
  <2>1. CASE HeartbeatTick
    <3>1. Write(Tick, inFlight) \in [src : Sources, jobs : SUBSET Jobs, awaited : BOOLEAN]
      BY DEF ProcessInv, TypeOK, Write, ActiveJobs, Sources, Attempts
    <3>2. TypeOK'
      BY <2>1, <3>1 DEF ProcessInv, TypeOK, HeartbeatTick, lifecycle, intake, upkeep,
         waits, queue
    <3>3. ScheduledWrites' \subseteq ScheduledWrites
      BY <2>1 DEF HeartbeatTick, ScheduledWrites, Awaited, Write
    <3> QED
      BY <3>2, <3>3
  <2>2. CASE \E w \in writes : WriteLands(w)
    <3>1. PICK w \in writes : WriteLands(w)
      BY <2>2
    <3>2. row' \in [present : BOOLEAN, jobs : SUBSET Jobs]
      BY <3>1 DEF ProcessInv, TypeOK, WriteLands, RowUpdated
    <3> QED
      BY <3>1, <3>2 DEF ProcessInv, TypeOK, WriteLands, ScheduledWrites, Awaited,
         lifecycle, intake, upkeep, waits, queue
  <2>3. CASE \E w \in writes : WriteErrs(w)
    <3>1. PICK w \in writes : WriteErrs(w)
      BY <2>3
    <3>2. writes' \subseteq writes \cup {[w EXCEPT !.awaited = FALSE]}
      BY <3>1 DEF WriteErrs
    <3>3. /\ [w EXCEPT !.awaited = FALSE] \in [src : Sources, jobs : SUBSET Jobs, awaited : BOOLEAN]
          /\ ~[w EXCEPT !.awaited = FALSE].awaited
      BY <3>1 DEF ProcessInv, TypeOK
    <3>4. TypeOK'
      BY <3>1, <3>2, <3>3 DEF ProcessInv, TypeOK, WriteErrs, lifecycle, intake, upkeep,
         waits, queue
    <3> QED
      BY <3>2, <3>3, <3>4 DEF ScheduledWrites, Awaited
  <2> QED
    BY <2>1, <2>2, <2>3 DEF BeatStep
<1>2. UNCHANGED <<lifecycle, intake, upkeep, waits, queue>>
  BY DEF BeatStep, HeartbeatTick, WriteLands, WriteErrs
<1>3. SlotsAreCounted'
  BY <1>2 DEF ProcessInv, SlotsAreCounted, CapacityHolds, intake, queue
<1>4. DrainHoldsIntake'
  BY <1>2 DEF ProcessInv, DrainHoldsIntake, Draining, lifecycle, upkeep, waits
<1>5. WaitKnows'
  BY <1>1, <1>2, FewerWrites DEF ProcessInv, intake, waits
<1> QED
  BY <1>1, <1>3, <1>4, <1>5 DEF ProcessInv

LEMMA UpkeepInv == ASSUME ProcessInv, UpkeepStep PROVE ProcessInv'
<1>1. TypeOK'
  BY DEF ProcessInv, TypeOK, UpkeepStep, TimerFires, TaskEnds, AuxStops, lifecycle,
         intake, beats, waits, queue
<1>2. UNCHANGED <<lifecycle, intake, beats, jobsWait, queue>>
  BY DEF UpkeepStep, TimerFires, TaskEnds, AuxStops, waits
<1>3. SlotsAreCounted'
  BY <1>2 DEF ProcessInv, SlotsAreCounted, CapacityHolds, intake, queue
<1>4. DrainHoldsIntake'
  BY <1>2 DEF ProcessInv, DrainHoldsIntake, Draining, lifecycle, UpkeepStep, TimerFires,
         TaskEnds, AuxStops, waits
<1>5. ScheduledWrites' = ScheduledWrites
  BY <1>2 DEF ScheduledWrites, Awaited, beats
<1>6. WaitKnows'
  BY <1>2, <1>5, FewerWrites DEF ProcessInv, intake
<1> QED
  BY <1>1, <1>3, <1>4, <1>6 DEF ProcessInv

-----------------------------------------------------------------------------
LEMMA BeginDrainInv ==
    ASSUME ProcessInv, RequestDrain \/ RequestStop PROVE ProcessInv'
<1>1. UNCHANGED <<drained, main, intake, beats, tasks, lastWait, queue>>
  BY DEF RequestDrain, RequestStop, BeginDrain, upkeep, waits
<1>2. phase' \in {"draining", "stopping"} /\ stopRequested' \in BOOLEAN
  BY DEF ProcessInv, TypeOK, RequestDrain, RequestStop
<1>3. CASE BeginDrain /\ ~Draining
  <2>1. TypeOK'
    BY <1>1, <1>2, <1>3 DEF ProcessInv, TypeOK, Phases, BeginDrain, WaitForJobs,
       WaitForMaintenance, Waits, WaitSteps, intake, beats, queue
  <2>2. DrainHoldsIntake'
    BY <1>1, <1>2, <1>3 DEF ProcessInv, DrainHoldsIntake, TypeOK, BeginDrain, WaitForJobs,
       WaitForMaintenance, Draining
  <2>3. WaitKnows'
    BY <1>3 DEF BeginDrain, WaitForJobs, WaitKnows
  <2> QED
    BY <1>1, <2>1, <2>2, <2>3 DEF ProcessInv, SlotsAreCounted, CapacityHolds, intake, queue
<1>4. CASE UNCHANGED <<upkeep, waits>> /\ Draining
  <2>1. TypeOK'
    BY <1>1, <1>2, <1>4 DEF ProcessInv, TypeOK, Phases, intake, beats, upkeep, waits, queue
  <2>2. DrainHoldsIntake'
    BY <1>1, <1>2, <1>4 DEF ProcessInv, DrainHoldsIntake, upkeep, waits, Draining
  <2>3. WaitKnows'
    BY <1>1, <1>4 DEF ProcessInv, WaitKnows, ScheduledWrites, Awaited, intake, beats, waits
  <2> QED
    BY <1>1, <2>1, <2>2, <2>3 DEF ProcessInv, SlotsAreCounted, CapacityHolds, intake, queue
<1> QED
  BY <1>3, <1>4 DEF RequestDrain, RequestStop, Draining

LEMMA JobsWaitInv == ASSUME ProcessInv, JobsWaitStep PROVE ProcessInv'
<1>1. /\ UNCHANGED <<lifecycle, main, intake, beats, upkeep, tasksWait, lastWait, queue>>
      /\ Settled(jobsWait) /\ jobsWait.step \in {"loop", "jobs", "writes"}
  BY DEF JobsWaitStep, Settled
<1>2. jobsWait' = CASE jobsWait.step = "loop" -> [step |-> "jobs", on |-> running]
                    [] OTHER -> IdleStep(jobsWait)
  BY DEF JobsWaitStep
<1>3. ScheduledWrites' = ScheduledWrites
  BY <1>1 DEF ScheduledWrites, Awaited, beats
<1>4. Draining /\ ~drained
  BY <1>1 DEF ProcessInv, DrainHoldsIntake
<1>5. jobsWait' \in Waits /\ jobsWait'.step # "none" /\ WaitKnows'
  <2>1. CASE jobsWait.step = "loop"
    <3>1. jobsWait' = [step |-> "jobs", on |-> running] /\ loop \in {"off", "done"}
      BY <1>1, <1>2, <2>1 DEF Settled
    <3> QED
      BY <1>1, <3>1 DEF ProcessInv, TypeOK, Waits, WaitSteps, Sources, WaitKnows, intake
  <2>2. CASE jobsWait.step = "jobs"
    <3>1. jobsWait' = [step |-> "writes", on |-> {w.src : w \in ScheduledWrites}]
      BY <1>2, <2>2 DEF IdleStep, ScheduledWrites
    <3>2. running = {} /\ loop \in {"off", "fill", "done"}
      BY <1>1, <2>2 DEF ProcessInv, WaitKnows, Settled
    <3>3. {w.src : w \in ScheduledWrites} \subseteq Sources
      BY DEF ProcessInv, TypeOK, ScheduledWrites, Awaited
    <3> QED
      BY <1>1, <1>3, <3>1, <3>2, <3>3 DEF Waits, WaitSteps, WaitKnows, intake
  <2>3. CASE jobsWait.step = "writes"
    <3>1. jobsWait' = [step |-> "done", on |-> {}]
      BY <1>2, <2>3 DEF IdleStep
    <3>2. ScheduledWrites = {}
      BY <1>1, <2>3 DEF ProcessInv, WaitKnows, Settled, ScheduledWrites, Awaited
    <3> QED
      BY <1>1, <1>3, <2>3, <3>1, <3>2 DEF ProcessInv, Waits, WaitSteps, WaitKnows, intake
  <2> QED
    BY <1>1, <2>1, <2>2, <2>3
<1>6. TypeOK'
  BY <1>1, <1>5 DEF ProcessInv, TypeOK, lifecycle, intake, beats, upkeep, queue
<1>7. SlotsAreCounted'
  BY <1>1 DEF ProcessInv, SlotsAreCounted, CapacityHolds, intake, queue
<1>8. DrainHoldsIntake'
  BY <1>1, <1>4, <1>5 DEF ProcessInv, DrainHoldsIntake, Draining, lifecycle, upkeep
<1> QED
  BY <1>5, <1>6, <1>7, <1>8 DEF ProcessInv

LEMMA DrainCompletesInv == ASSUME ProcessInv, DrainCompletes PROVE ProcessInv'
<1>1. TypeOK'
  BY DEF ProcessInv, TypeOK, DrainCompletes, Phases, intake, beats, upkeep, waits, queue
<1>2. SlotsAreCounted'
  BY DEF ProcessInv, SlotsAreCounted, CapacityHolds, DrainCompletes, intake, queue
<1>3. DrainHoldsIntake'
  BY DEF ProcessInv, DrainHoldsIntake, DrainCompletes, Draining, upkeep, waits
<1>4. WaitKnows'
  BY DEF ProcessInv, DrainCompletes, WaitKnows, ScheduledWrites, Awaited, intake, beats,
         waits
<1> QED
  BY <1>1, <1>2, <1>3, <1>4 DEF ProcessInv

(* main() takes its last steps and changes nothing the invariant is about.  *)
LEMMA EndInv ==
    ASSUME ProcessInv, BeginShutdown \/ LastWaitStep \/ TicksSettle \/ Deregister
    PROVE  ProcessInv'
<1>1. UNCHANGED <<lifecycle, intake, writes, upkeep, jobsWait, tasksWait, queue>>
  BY DEF BeginShutdown, LastWaitStep, TicksSettle, Deregister, beats, waits
<1>2. lastWait' \in Waits
  <2>1. running \subseteq Sources /\ {w.src : w \in Awaited(Sources \ {Tick})} \subseteq Sources
    BY DEF ProcessInv, TypeOK, Sources, Awaited
  <2>2. CASE BeginShutdown
    BY <2>1, <2>2 DEF BeginShutdown, Waits, WaitSteps
  <2>3. CASE LastWaitStep
    <3>1. PICK on \in SUBSET Sources : on = {w.src : w \in Awaited(Sources \ {Tick})}
      BY <2>1
    <3>2. \/ lastWait' = [step |-> "writes", on |-> on]
          \/ lastWait' = [step |-> "done", on |-> {}]
      BY <2>3, <3>1 DEF LastWaitStep, IdleStep
    <3> QED
      BY <3>2 DEF Waits, WaitSteps
  <2>4. CASE TicksSettle \/ Deregister
    BY <2>4 DEF TicksSettle, Deregister, waits, ProcessInv, TypeOK
  <2> QED
    BY <2>2, <2>3, <2>4
<1>3. main' \in MainSteps
  BY DEF ProcessInv, TypeOK, BeginShutdown, LastWaitStep, TicksSettle, Deregister,
         MainSteps
<1>7. row' \in [present : BOOLEAN, jobs : SUBSET Jobs]
  <2>1. CASE UNCHANGED row
    BY <2>1 DEF ProcessInv, TypeOK
  <2>2. CASE row' = [present |-> FALSE, jobs |-> {}]
    BY <2>2
  <2> QED
    BY <2>1, <2>2 DEF BeginShutdown, LastWaitStep, TicksSettle, Deregister, beats
<1>4. TypeOK'
  BY <1>1, <1>2, <1>3, <1>7 DEF ProcessInv, TypeOK, lifecycle, intake, upkeep, queue
<1>5. SlotsAreCounted' /\ DrainHoldsIntake'
  BY <1>1 DEF ProcessInv, SlotsAreCounted, CapacityHolds, DrainHoldsIntake, Draining,
     lifecycle, intake, upkeep, queue
<1>6. WaitKnows'
  BY <1>1 DEF ProcessInv, WaitKnows, ScheduledWrites, Awaited, intake
<1> QED
  BY <1>4, <1>5, <1>6 DEF ProcessInv

LEMMA RequeueInv == ASSUME ProcessInv, NEW j \in Jobs, Requeue(j) PROVE ProcessInv'
<1>1. TypeOK'
  BY DEF ProcessInv, TypeOK, Requeue, lifecycle, intake, beats, upkeep, waits
<1>2. SlotsAreCounted'
  BY DEF ProcessInv, SlotsAreCounted, CapacityHolds, Requeue, intake
<1>3. DrainHoldsIntake'
  BY DEF ProcessInv, DrainHoldsIntake, Requeue, Draining, lifecycle, upkeep, waits
<1>4. WaitKnows'
  BY DEF ProcessInv, Requeue, WaitKnows, ScheduledWrites, Awaited, intake, beats, waits
<1> QED
  BY <1>1, <1>2, <1>3, <1>4 DEF ProcessInv

LEMMA ProcessStutterInv == ASSUME ProcessInv, UNCHANGED vars PROVE ProcessInv'
  BY DEF vars, lifecycle, intake, beats, upkeep, waits, queue, ProcessInv, TypeOK,
         SlotsAreCounted, CapacityHolds, DrainHoldsIntake, Draining, WaitKnows,
         ScheduledWrites, Awaited

LEMMA ProcessStepInv == ProcessInv /\ [Next]_vars => ProcessInv'
  BY StartInv, FillInv, ClaimReturnsInv, ClaimFailsInv, ResumeInv, AttemptEndsInv,
     BeatInv, UpkeepInv, BeginDrainInv, JobsWaitInv, DrainCompletesInv, EndInv,
     RequeueInv, ProcessStutterInv
     DEF Next, SchedulerStep, ShutdownStep

LEMMA ProcessInvariance == Spec => []ProcessInv
  BY ProcessInitInv, ProcessStepInv, PTL DEF Spec

-----------------------------------------------------------------------------
(* A process runs no more programs than its capacity, also while            *)
(* replacements of attempts start that still unwind (createScheduler).      *)
THEOREM CapacityIsKept == Spec => []CapacityHolds
<1>1. ProcessInv => CapacityHolds
  BY DEF ProcessInv, SlotsAreCounted
<1> QED
  BY <1>1, ProcessInvariance, PTL

(* A process that reports itself drained may be stopped without loss        *)
(* (createWorkerLifecycle), whatever was in flight when the drain began.    *)
THEOREM DrainLosesNothing == Spec => []DrainedMeansIdle
<1>1. ProcessInv => DrainedMeansIdle
  BY DEF ProcessInv, DrainHoldsIntake, WaitKnows, DrainedMeansIdle, ScheduledWrites
<1> QED
  BY <1>1, ProcessInvariance, PTL

(* A heartbeat that arrives late, in whatever order, updates the row it     *)
(* finds and inserts none (RowUpserted would break this): a worker that has *)
(* deregistered stays gone.                                                 *)
THEOREM DeregistrationIsFinal == Spec => DeregisteredStaysGone
<1> DEFINE Gone == main = "exited" /\ ~row.present => ~row'.present
<1>1. ASSUME ProcessInv, [Next]_vars PROVE Gone
  <2>1. CASE BeatStep
    BY <1>1, <2>1 DEF ProcessInv, TypeOK, BeatStep, HeartbeatTick, WriteLands, WriteErrs, RowUpdated
  <2>2. CASE ~BeatStep
    <3>1. UNCHANGED row \/ main # "exited"
      BY <1>1, <2>2 DEF Next, StartServing, SchedulerStep, UpkeepStep, ShutdownStep,
         Fill, ClaimReturns, ClaimFails, Resume, AttemptEnds, TimerFires, TaskEnds,
         AuxStops, RequestDrain, RequestStop, BeginDrain, JobsWaitStep, DrainCompletes,
         BeginShutdown, LastWaitStep, TicksSettle, Deregister, Requeue, beats, vars
    <3> QED
      BY <3>1
  <2> QED
    BY <2>1, <2>2
<1> QED
  BY <1>1, ProcessInvariance, PTL DEF Spec, DeregisteredStaysGone

HIDE WorkerAssumption

-----------------------------------------------------------------------------
(***************************************************************************)
(* What holds of the publication of pull requests for any number of        *)
(* publishers, webhooks, epochs, operations and checkpoints at once: the   *)
(* refs of an epoch move forward only, and it gets one pull request.       *)
(*                                                                         *)
(* An operation expects an older one, whatever became of it.  The right to *)
(* create the pull request of an epoch is a token: it is with the          *)
(* publisher that armed the epoch, then with the POST it sent, then spent  *)
(* or, if GitHub refused, with the publisher again; and while it is        *)
(* anywhere the epoch is armed.                                            *)
(***************************************************************************)

SyncRow == [status : {"absent", "pending", "synced", "conflict", "error",
                      "successor_required"},
            gen : 0..MaxGenerations, epoch : 0..MaxEpochs]
Actors == Publishers \cup Hooks \cup {NoToken}
EpochRows == [pinned : BOOLEAN, state : PrStates, armed : BOOLEAN,
              ack : 0..MaxOperations, token : Actors]
OpRows == [status : {"absent", "pending", "claimed", "succeeded", "terminal", "conflict"},
           epoch : Epochs, gen : Generations, expects : 0..MaxOperations,
           by : Publishers \cup {NoToken}, lapsed : BOOLEAN]
Refs == [head : 0..Foreign, fence : 0..MaxOperations]
Pulls == [state : PrStates, made : Nat, changes : 0..MaxChanges]
PubRows == [step : PublisherSteps, op : 0..MaxOperations, pr : PrStates,
            head : 0..Foreign, promoted : BOOLEAN,
            why : {"-", "error", "conflict", "rejected"}]
HookRows == [step : {"idle", "get", "finish"}, epoch : Epochs, pr : PrStates]

Push(o) == [kind |-> "push", of |-> o]
Post(e) == [kind |-> "post", of |-> e]
Messages == {Push(o) : o \in Operations} \cup {Post(e) : e \in Epochs}

PrTypes == /\ sync \in SyncRow
           /\ epochs \in [Epochs -> EpochRows]
           /\ ops \in [Operations -> OpRows]
           /\ remote \in [Epochs -> Refs]
           /\ pull \in [Epochs -> Pulls]
           /\ unheard \subseteq Epochs
           /\ sent \subseteq Messages
           /\ pubs \in [Publishers -> PubRows]
           /\ hooks \in [Hooks -> HookRows]

(* A session without a checkpoint asks for nothing. *)
WantsCheckpoint == sync.status # "absent" \/ sync.epoch # 0 => sync.gen # 0

Exists(o) == ops[o].status # "absent"

OperationsInOrder ==
    /\ \A o \in Operations : Exists(o) => /\ ops[o].expects < o
                                          /\ \A older \in 1..(o - 1) : Exists(older)
    /\ \A e \in Epochs : epochs[e].ack # 0 => Exists(epochs[e].ack)
    /\ \A p \in Publishers : pubs[p].step # "idle" =>
                                pubs[p].op \in Operations /\ Exists(pubs[p].op)
    /\ \A o \in Operations : Push(o) \in sent => Exists(o)

(* The publisher may send the POST, or knows that its POST was refused.     *)
Creates(p) == \/ pubs[p].step = "post"
              \/ pubs[p].step = "fail" /\ pubs[p].why = "rejected"
CreatesFor(p, e) == Creates(p) /\ EpochOf(p) = e

OneToken(e) ==
    /\ \A p, q \in Publishers : CreatesFor(p, e) /\ CreatesFor(q, e) => p = q
    /\ \A p \in Publishers : CreatesFor(p, e) =>
                                epochs[e].armed /\ Post(e) \notin sent /\ pull[e].made = 0
    /\ Post(e) \in sent => epochs[e].armed /\ pull[e].made = 0
    /\ pull[e].made # 0 => epochs[e].armed
    /\ pull[e].made \in {0, 1}
    /\ pull[e].state = "none" <=> pull[e].made = 0
OneCreation == \A e \in Epochs : OneToken(e)

PrInv == PrTypes /\ WantsCheckpoint /\ OperationsInOrder /\ OneCreation

USE CanonicalAssumption

LEMMA PrTyped ==
    ASSUME PrInv
    PROVE  /\ sync \in SyncRow
           /\ \A e \in Epochs : epochs[e] \in EpochRows /\ remote[e] \in Refs
                                                        /\ pull[e] \in Pulls
           /\ \A o \in Operations : ops[o] \in OpRows
           /\ \A p \in Publishers : pubs[p] \in PubRows
           /\ \A h \in Hooks : hooks[h] \in HookRows
  BY DEF PrInv, PrTypes

LEMMA Idles == IdlePublisher \in PubRows /\ IdlePublisher.step = "idle"
  BY DEF IdlePublisher, PubRows, PublisherSteps, PrStates, Foreign

LEMMA PrInitInv == CanonicalInit => PrInv
<1> SUFFICES ASSUME CanonicalInit PROVE PrInv
  OBVIOUS
<1>1. 1 \in Epochs /\ 1 \in Generations /\ 0 \in 0..MaxOperations /\ 0 \in 0..Foreign
  BY DEF Epochs, Generations, Foreign
<1>2. /\ NoEpoch \in EpochRows /\ NoOperation \in OpRows /\ IdleHook \in HookRows
      /\ [head |-> 0, fence |-> 0] \in Refs
      /\ [state |-> "none", made |-> 0, changes |-> 0] \in Pulls
      /\ [status |-> "absent", gen |-> 0, epoch |-> 0] \in SyncRow
  BY <1>1 DEF NoEpoch, EpochRows, NoOperation, OpRows, IdleHook, HookRows, Refs, Pulls,
              SyncRow, PrStates, Actors
<1>3. PrTypes
  BY <1>2, Idles DEF CanonicalInit, PrTypes
<1>4. WantsCheckpoint
  BY DEF CanonicalInit, WantsCheckpoint
<1>5. OperationsInOrder
  BY Idles DEF CanonicalInit, OperationsInOrder, Exists, NoOperation, NoEpoch
<1>6. OneCreation
  BY Idles DEF CanonicalInit, OneCreation, OneToken, CreatesFor, Creates
<1> QED
  BY <1>3, <1>4, <1>5, <1>6 DEF PrInv

-----------------------------------------------------------------------------
(* Steps that begin no operation and create nothing *)

OpsMove == /\ ops' \in [Operations -> OpRows]
           /\ \A o \in Operations : /\ Exists(o)' <=> Exists(o)
                                    /\ ops'[o].epoch = ops[o].epoch
                                    /\ ops'[o].expects = ops[o].expects
EpochRowsMove == /\ epochs' \in [Epochs -> EpochRows]
                 /\ \A e \in Epochs : \/ epochs'[e].ack = epochs[e].ack
                                     \/ /\ epochs'[e].ack \in Operations
                                        /\ Exists(epochs'[e].ack)
EpochsMove == /\ EpochRowsMove
              /\ \A e \in Epochs : epochs[e].armed => epochs'[e].armed
SyncMoves == sync' \in SyncRow /\ WantsCheckpoint'
RemoteMoves == remote' \in [Epochs -> Refs]
PullTyped == pull' \in [Epochs -> Pulls]
PullMoves == /\ PullTyped
             /\ \A e \in Epochs : /\ pull'[e].made = pull[e].made
                                  /\ pull'[e].state = "none" <=> pull[e].state = "none"
PushesMove == /\ sent' \subseteq Messages
              /\ \A o \in Operations : Push(o) \in sent' => Push(o) \in sent \/ Exists(o)
SentMoves == PushesMove /\ \A e \in Epochs : Post(e) \in sent' => Post(e) \in sent
PubsAtWork == /\ pubs' \in [Publishers -> PubRows]
              /\ \A p \in Publishers : pubs'[p].step # "idle" =>
                    pubs[p].step # "idle" /\ pubs'[p].op = pubs[p].op
PubsMove == PubsAtWork /\ \A p \in Publishers : Creates(p)' => Creates(p)
HooksMove == hooks' \in [Hooks -> HookRows] /\ unheard' \subseteq Epochs

LEMMA Unmoved ==
    ASSUME PrInv
    PROVE  /\ UNCHANGED ops => OpsMove
           /\ UNCHANGED epochs => EpochsMove
           /\ UNCHANGED sync => SyncMoves
           /\ UNCHANGED remote => RemoteMoves
           /\ UNCHANGED pull => PullMoves
           /\ UNCHANGED sent => SentMoves
           /\ UNCHANGED pubs => PubsMove
           /\ UNCHANGED <<hooks, unheard>> => HooksMove
  BY DEF PrInv, PrTypes, WantsCheckpoint, OpsMove, Exists, EpochsMove, SyncMoves,
         RemoteMoves, PullMoves, PullTyped, SentMoves, PushesMove, PubsMove, PubsAtWork,
         Creates, HooksMove, EpochRowsMove

LEMMA OrderedStep ==
    ASSUME PrInv, OpsMove, EpochRowsMove, SyncMoves, RemoteMoves, PullTyped, PushesMove,
           PubsAtWork, HooksMove
    PROVE  PrTypes' /\ WantsCheckpoint' /\ OperationsInOrder'
<1>1. PrTypes' /\ WantsCheckpoint'
  BY DEF PrTypes, OpsMove, EpochRowsMove, SyncMoves, RemoteMoves, PullTyped, PushesMove,
         PubsAtWork, HooksMove
<1>2. \A o \in Operations : 1..(o - 1) \subseteq Operations
  BY DEF Operations
<1>3. \A e \in Epochs : epochs'[e].ack # 0 => ops'[epochs'[e].ack].status # "absent"
  <2> SUFFICES ASSUME NEW e \in Epochs, epochs'[e].ack # 0
               PROVE  ops'[epochs'[e].ack].status # "absent"
    OBVIOUS
  <2>1. epochs'[e].ack \in Operations
    BY <1>1 DEF PrTypes, EpochRows, Operations
  <2> QED
    BY <2>1 DEF PrInv, OperationsInOrder, EpochRowsMove, OpsMove, Exists
<1>4. \A o \in Operations :
         Exists(o)' => ops'[o].expects < o /\ \A older \in 1..(o - 1) : Exists(older)'
  BY <1>2 DEF PrInv, OperationsInOrder, OpsMove
<1>5. \A p \in Publishers : pubs'[p].step # "idle" =>
         pubs'[p].op \in Operations /\ ops'[pubs'[p].op].status # "absent"
  BY DEF PrInv, OperationsInOrder, OpsMove, PubsAtWork, Exists
<1>6. \A o \in Operations : Push(o) \in sent' => Exists(o)'
  BY DEF PrInv, OperationsInOrder, OpsMove, PushesMove
<1> QED
  BY <1>1, <1>3, <1>4, <1>5, <1>6 DEF OperationsInOrder, Push, Exists

(* What a publisher works for does not change while it works. *)
LEMMA SameEpoch ==
    ASSUME PrInv, OpsMove, PubsAtWork, NEW p \in Publishers, pubs'[p].step # "idle"
    PROVE  EpochOf(p)' = EpochOf(p)
  BY DEF PrInv, OperationsInOrder, OpsMove, PubsAtWork, EpochOf

LEMMA TokenStays ==
    ASSUME NEW e \in Epochs, OneToken(e),
           \A p \in Publishers : CreatesFor(p, e)' => CreatesFor(p, e),
           epochs[e].armed => epochs'[e].armed, Post(e) \in sent' => Post(e) \in sent,
           pull'[e].made = pull[e].made, pull'[e].state = "none" <=> pull[e].state = "none"
    PROVE  OneToken(e)'
  BY DEF OneToken, Post

LEMMA QuietStep ==
    ASSUME PrInv, OpsMove, EpochsMove, SyncMoves, RemoteMoves, PullMoves, SentMoves,
           PubsMove, HooksMove
    PROVE  PrInv'
<1>1. PrTypes' /\ WantsCheckpoint' /\ OperationsInOrder'
  BY OrderedStep DEF EpochsMove, PullMoves, SentMoves, PubsMove
<1>2. \A p \in Publishers, e \in Epochs : CreatesFor(p, e)' => CreatesFor(p, e)
  BY SameEpoch DEF PubsMove, CreatesFor, Creates
<1>3. OneCreation'
  BY <1>2, TokenStays DEF PrInv, OneCreation, EpochsMove, PullMoves, SentMoves
<1> QED
  BY <1>1, <1>3 DEF PrInv

-----------------------------------------------------------------------------
(* What a publisher does with itself *)

LEMMA PubMoves ==
    ASSUME PrInv, NEW p \in Publishers, NEW to \in PubRows,
           pubs' = [pubs EXCEPT ![p] = to],
           to.step # "idle" => pubs[p].step # "idle" /\ to.op = pubs[p].op,
           to.step = "post" \/ (to.step = "fail" /\ to.why = "rejected") => Creates(p)
    PROVE  PubsMove
<1>1. /\ pubs'[p] = to /\ pubs' \in [Publishers -> PubRows]
      /\ \A q \in Publishers \ {p} : pubs'[q] = pubs[q]
  BY DEF PrInv, PrTypes
<1> QED
  BY <1>1 DEF PubsMove, PubsAtWork, Creates

LEMMA ThrowMoves ==
    ASSUME PrInv, NEW p \in Publishers, NEW why \in {"error", "conflict"},
           pubs[p].step # "idle", Throws(p, why)
    PROVE  PubsMove
<1>1. PICK to \in PubRows : /\ pubs' = [pubs EXCEPT ![p] = to] /\ to.step = "fail"
                            /\ to.op = pubs[p].op /\ to.why = why
  <2> DEFINE to == [IdlePublisher EXCEPT !.step = "fail", !.op = pubs[p].op, !.why = why]
  <2>1. pubs[p].op \in 0..MaxOperations
    BY PrTyped DEF PubRows
  <2>2. /\ to \in PubRows /\ to.step = "fail" /\ to.op = pubs[p].op /\ to.why = why
    BY <2>1, Idles DEF IdlePublisher, PubRows, PublisherSteps
  <2> QED
    BY <2>2 DEF Throws
<1> QED
  BY <1>1, PubMoves

LEMMA EndMoves == ASSUME PrInv, NEW p \in Publishers, PublisherEnds(p) PROVE PubsMove
  BY Idles, PubMoves DEF PublisherEnds

LEMMA ContinueMoves ==
    ASSUME PrInv, NEW p \in Publishers, NEW step \in PublisherSteps \ {"post", "fail"},
           pubs[p].step # "idle", Continues(p, step)
    PROVE  PubsMove
<1>1. PICK to \in PubRows : /\ pubs' = [pubs EXCEPT ![p] = to] /\ to.step = step
                            /\ to.op = pubs[p].op
  <2> DEFINE to == [pubs[p] EXCEPT !.step = step]
  <2>1. to \in PubRows /\ to.step = step /\ to.op = pubs[p].op
    BY PrTyped DEF PubRows
  <2>2. pubs' = [pubs EXCEPT ![p] = to]
    BY DEF Continues
  <2> QED
    BY <2>1, <2>2
<1> QED
  BY <1>1, PubMoves

(* It goes on with what it read. *)
LEMMA ReadMoves ==
    ASSUME PrInv, NEW p \in Publishers, NEW step \in PublisherSteps \ {"post", "fail"},
           NEW pr \in PrStates, NEW head \in 0..Foreign, NEW promoted \in BOOLEAN,
           pubs[p].step # "idle",
           pubs' = [pubs EXCEPT ![p] = [pubs[p] EXCEPT !.step = step, !.pr = pr,
                                          !.head = head, !.promoted = promoted]]
    PROVE  PubsMove
<1>1. PICK to \in PubRows : /\ pubs' = [pubs EXCEPT ![p] = to] /\ to.step = step
                            /\ to.op = pubs[p].op
  <2> DEFINE to == [pubs[p] EXCEPT !.step = step, !.pr = pr, !.head = head,
                                   !.promoted = promoted]
  <2>1. to \in PubRows /\ to.step = step /\ to.op = pubs[p].op
    BY PrTyped DEF PubRows
  <2> QED
    BY <2>1
<1> QED
  BY <1>1, PubMoves

(* An operation at work exists, and its epoch is one. *)
LEMMA AtWork ==
    ASSUME PrInv, NEW p \in Publishers, pubs[p].step # "idle"
    PROVE  /\ pubs[p].op \in Operations /\ Exists(pubs[p].op)
           /\ ops[pubs[p].op] \in OpRows /\ EpochOf(p) \in Epochs
           /\ epochs[EpochOf(p)] \in EpochRows /\ pull[EpochOf(p)] \in Pulls
           /\ remote[EpochOf(p)] \in Refs /\ pubs[p] \in PubRows
<1>1. pubs[p].op \in Operations /\ Exists(pubs[p].op)
  BY DEF PrInv, OperationsInOrder
<1>2. EpochOf(p) \in Epochs
  BY <1>1, PrTyped DEF OpRows, EpochOf
<1> QED
  BY <1>1, <1>2, PrTyped

-----------------------------------------------------------------------------
(* Publishers that read, push and report *)

LEMMA LookUpInv == ASSUME PrInv, NEW p \in Publishers, LookUp(p) PROVE PrInv'
<1>1. UNCHANGED <<prRows, prGitHub, hooks>> /\ pubs[p].step = "look"
  BY DEF LookUp
<1>2. PubsMove
  <2>1. CASE ClaimHolds(p)
    <3>1. PICK pr \in PrStates, step \in {"reserve", "promote"} :
             pubs' = [pubs EXCEPT ![p].pr = pr, ![p].step = step]
      <4>1. pull[EpochOf(p)].state \in PrStates
        BY <1>1, AtWork DEF Pulls
      <4> QED
        BY <2>1, <4>1 DEF LookUp
    <3>2. pubs' = [pubs EXCEPT ![p] = [pubs[p] EXCEPT !.step = step, !.pr = pr,
                     !.head = pubs[p].head, !.promoted = pubs[p].promoted]]
      BY <3>1, PrTyped DEF PubRows
    <3> QED
      BY <1>1, <3>2, ReadMoves, PrTyped DEF PubRows, PublisherSteps
  <2>2. CASE ~ClaimHolds(p)
    BY <1>1, <2>2, ThrowMoves DEF LookUp
  <2> QED
    BY <2>1, <2>2
<1> QED
  BY <1>1, <1>2, Unmoved, QuietStep DEF prRows, prGitHub

LEMMA PromoteInv == ASSUME PrInv, NEW p \in Publishers, PromoteRefs(p) PROVE PrInv'
<1>1. UNCHANGED <<prRows, remote, pull, unheard, hooks>> /\ pubs[p].step = "promote"
  BY DEF PromoteRefs
<1>2. \/ UNCHANGED sent
      \/ sent' = sent \cup {Push(pubs[p].op)}
  BY DEF PromoteRefs, Judge, PushOf, Push
<1>3. SentMoves
  BY <1>1, <1>2, AtWork DEF PrInv, PrTypes, SentMoves, PushesMove, Messages, Push, Post
<1>4. PubsMove
  <2>1. \/ Throws(p, "error") \/ Throws(p, "conflict")
        \/ Continues(p, "confirm") \/ Continues(p, "reread")
        \/ \E pr \in Terminal : pubs' = [pubs EXCEPT ![p].pr = pr, ![p].step = "reserve"]
    BY DEF PromoteRefs, Judge
  <2>2. ASSUME NEW pr \in Terminal,
               pubs' = [pubs EXCEPT ![p].pr = pr, ![p].step = "reserve"]
        PROVE  PubsMove
    <3>1. pubs' = [pubs EXCEPT ![p] = [pubs[p] EXCEPT !.step = "reserve", !.pr = pr,
                     !.head = pubs[p].head, !.promoted = pubs[p].promoted]]
      BY <2>2, PrTyped DEF PubRows
    <3> QED
      BY <1>1, <3>1, ReadMoves, PrTyped DEF PubRows, PublisherSteps, Terminal, PrStates
  <2> QED
    BY <1>1, <2>1, <2>2, ThrowMoves, ContinueMoves DEF PublisherSteps
<1> QED
  BY <1>1, <1>3, <1>4, Unmoved, QuietStep DEF prRows

LEMMA RereadInv == ASSUME PrInv, NEW p \in Publishers, RereadRemote(p) PROVE PrInv'
<1>1. UNCHANGED <<prRows, prGitHub, hooks>> /\ pubs[p].step = "reread"
  BY DEF RereadRemote
<1>2. Throws(p, "error") \/ Throws(p, "conflict") \/ Continues(p, "confirm")
  BY DEF RereadRemote, Judge
<1>3. PubsMove
  BY <1>1, <1>2, ThrowMoves, ContinueMoves DEF PublisherSteps
<1> QED
  BY <1>1, <1>3, Unmoved, QuietStep DEF prRows, prGitHub

LEMMA ConfirmInv == ASSUME PrInv, NEW p \in Publishers, ConfirmPromotion(p) PROVE PrInv'
<1>1. UNCHANGED <<prRows, prGitHub, hooks>> /\ pubs[p].step = "confirm"
  BY DEF ConfirmPromotion
<1>2. PubsMove
  <2>1. CASE ClaimHolds(p)
    <3>1. PICK pr \in PrStates, step \in {"arm", "reserve"} :
             pubs' = [pubs EXCEPT ![p].promoted = TRUE, ![p].pr = pr, ![p].step = step]
      <4>1. PICK pr \in PrStates : pr = IF pubs[p].pr = "none" THEN pull[EpochOf(p)].state
                                                              ELSE pubs[p].pr
        BY <1>1, AtWork DEF Pulls, PubRows
      <4> QED
        BY <2>1, <4>1 DEF ConfirmPromotion
    <3>2. pubs' = [pubs EXCEPT ![p] = [pubs[p] EXCEPT !.step = step, !.pr = pr,
                     !.head = pubs[p].head, !.promoted = TRUE]]
      BY <3>1, PrTyped DEF PubRows
    <3> QED
      BY <1>1, <3>2, ReadMoves, PrTyped DEF PubRows, PublisherSteps
  <2>2. CASE ~ClaimHolds(p)
    BY <1>1, <2>2, ThrowMoves DEF ConfirmPromotion
  <2> QED
    BY <2>1, <2>2
<1> QED
  BY <1>1, <1>2, Unmoved, QuietStep DEF prRows, prGitHub

(* A claim that holds is one of the session's epoch, which has a checkpoint. *)
LEMMA SyncSet ==
    ASSUME PrInv, sync.epoch # 0 \/ sync.status # "absent",
           NEW status \in {"pending", "synced", "conflict", "error", "successor_required"},
           sync' = [sync EXCEPT !.status = status]
    PROVE  SyncMoves
  BY PrTyped DEF PrInv, WantsCheckpoint, SyncMoves, SyncRow

LEMMA ClaimOfSession ==
    ASSUME PrInv, NEW p \in Publishers, pubs[p].step # "idle", ClaimHolds(p)
    PROVE  sync.epoch # 0
  BY AtWork DEF ClaimHolds, OpRows, Epochs

LEMMA EpochMoves ==
    ASSUME PrInv, NEW e \in Epochs, NEW rec \in EpochRows,
           epochs' = [epochs EXCEPT ![e] = rec], epochs[e].armed => rec.armed,
           \/ rec.ack = epochs[e].ack
           \/ rec.ack \in Operations /\ Exists(rec.ack)
    PROVE  EpochsMove
  BY DEF EpochsMove, EpochRowsMove, PrInv, PrTypes

LEMMA ReserveInv == ASSUME PrInv, NEW p \in Publishers, ReserveObservation(p) PROVE PrInv'
<1>1. UNCHANGED <<ops, prGitHub, hooks>> /\ pubs[p].step = "reserve"
  BY DEF ReserveObservation
<1>2. CASE ClaimHolds(p)
  <2>1. /\ epochs' = [epochs EXCEPT ![EpochOf(p)].pinned = TRUE, ![EpochOf(p)].token = p]
        /\ sync' = [sync EXCEPT !.status = "pending"]
        /\ Continues(p, "observe")
    BY <1>2 DEF ReserveObservation
  <2>2. SyncMoves
    BY <1>1, <1>2, <2>1, ClaimOfSession, SyncSet
  <2>3. PICK e \in Epochs : e = EpochOf(p)
    BY <1>1, AtWork
  <2>4. EpochsMove
    <3> DEFINE rec == [epochs[e] EXCEPT !.pinned = TRUE, !.token = p]
    <3>1. rec \in EpochRows /\ rec.armed = epochs[e].armed /\ rec.ack = epochs[e].ack
      BY PrTyped DEF EpochRows, Actors
    <3>2. epochs' = [epochs EXCEPT ![e] = rec]
      BY <2>1, <2>3
    <3> QED
      BY <3>1, <3>2, EpochMoves
  <2>5. PubsMove
    BY <1>1, <2>1, ContinueMoves DEF PublisherSteps
  <2> QED
    BY <1>1, <2>2, <2>4, <2>5, Unmoved, QuietStep DEF prGitHub
<1>3. CASE ~ClaimHolds(p)
  BY <1>1, <1>3, ThrowMoves, Unmoved, QuietStep DEF ReserveObservation, prGitHub
<1> QED
  BY <1>2, <1>3

LEMMA ObserveInv == ASSUME PrInv, NEW p \in Publishers, ObservePull(p) PROVE PrInv'
<1>1. UNCHANGED <<prRows, prGitHub, hooks>> /\ pubs[p].step = "observe"
  BY DEF ObservePull
<1>2. PICK pr \in PrStates, head \in 0..Foreign :
         pubs' = [pubs EXCEPT ![p].step = "finish", ![p].head = head, ![p].pr = pr]
  <2>1. PICK pr \in PrStates : pr = IF pubs[p].pr = "open" THEN pull[EpochOf(p)].state
                                                          ELSE pubs[p].pr
    BY <1>1, AtWork DEF Pulls, PubRows
  <2>2. remote[EpochOf(p)].head \in 0..Foreign
    BY <1>1, AtWork DEF Refs
  <2> QED
    BY <2>1, <2>2 DEF ObservePull
<1>3. pubs' = [pubs EXCEPT ![p] = [pubs[p] EXCEPT !.step = "finish", !.pr = pr,
                 !.head = head, !.promoted = pubs[p].promoted]]
  BY <1>2, PrTyped DEF PubRows
<1>4. PubsMove
  BY <1>1, <1>3, ReadMoves, PrTyped DEF PubRows, PublisherSteps
<1> QED
  BY <1>1, <1>4, Unmoved, QuietStep DEF prRows, prGitHub

-----------------------------------------------------------------------------
(* Rows of operations that are released, taken over or lapse *)

LEMMA OpMoves ==
    ASSUME PrInv, NEW o \in Operations, NEW rec \in OpRows,
           ops' = [ops EXCEPT ![o] = rec], Exists(o), rec.status # "absent",
           rec.epoch = ops[o].epoch, rec.expects = ops[o].expects
    PROVE  OpsMove
  BY DEF OpsMove, PrInv, PrTypes, Exists

LEMMA ReleasedTyped ==
    ASSUME NEW rec \in OpRows, NEW status \in {"pending", "succeeded", "terminal", "conflict"}
    PROVE  /\ Released(rec, status) \in OpRows /\ Released(rec, status).status = status
           /\ Released(rec, status).epoch = rec.epoch
           /\ Released(rec, status).expects = rec.expects
  BY DEF Released, OpRows

LEMMA ReleaseMoves ==
    ASSUME PrInv, NEW o \in Operations, Exists(o),
           NEW status \in {"pending", "succeeded", "terminal", "conflict"},
           ops' = [ops EXCEPT ![o] = Released(@, status)]
    PROVE  OpsMove
<1>1. PICK rec \in OpRows : /\ rec = Released(ops[o], status) /\ rec.status = status
                            /\ rec.epoch = ops[o].epoch /\ rec.expects = ops[o].expects
  BY ReleasedTyped, PrTyped
<1> QED
  BY <1>1, OpMoves

LEMMA LeaseLapsesInv ==
    ASSUME PrInv, NEW o \in Operations, LeaseOfOperationLapses(o) PROVE PrInv'
<1>1. PICK rec \in OpRows : /\ ops' = [ops EXCEPT ![o] = rec]
                            /\ rec.status = ops[o].status
                            /\ rec.epoch = ops[o].epoch /\ rec.expects = ops[o].expects
  <2> DEFINE rec == [ops[o] EXCEPT !.lapsed = TRUE]
  <2>1. /\ rec \in OpRows /\ rec.status = ops[o].status
        /\ rec.epoch = ops[o].epoch /\ rec.expects = ops[o].expects
    BY PrTyped DEF OpRows
  <2>2. ops' = [ops EXCEPT ![o] = rec]
    BY DEF LeaseOfOperationLapses
  <2> QED
    BY <2>1, <2>2
<1>2. OpsMove
  BY <1>1, OpMoves DEF LeaseOfOperationLapses, Exists
<1> QED
  BY <1>2, Unmoved, QuietStep DEF LeaseOfOperationLapses, prGitHub

LEMMA SyncAfterTyped ==
    ASSUME NEW p PROVE SyncAfter(p) \in {"pending", "synced", "conflict", "successor_required"}
  BY DEF SyncAfter

(* The receipt acknowledges the operation it is of. *)
LEMMA FinishInv == ASSUME PrInv, NEW p \in Publishers, FinishSync(p) PROVE PrInv'
<1>1. UNCHANGED <<prGitHub, hooks>> /\ pubs[p].step = "finish"
  BY DEF FinishSync
<1>2. PubsMove
  BY <1>1, EndMoves, ThrowMoves DEF FinishSync
<1>3. PICK e \in Epochs, o \in Operations : e = EpochOf(p) /\ o = pubs[p].op /\ Exists(o)
  BY <1>1, AtWork
<1>4. CASE ClaimHolds(p) /\ Receipt(p)
  <2>1. PICK status \in {"terminal", "succeeded"} :
           ops' = [ops EXCEPT ![o] = Released(@, status)]
    BY <1>3, <1>4 DEF Receipt
  <2>2. OpsMove
    BY <1>3, <2>1, ReleaseMoves
  <2>3. PICK shown \in {"pending", "synced", "conflict", "successor_required"} :
           sync' = [sync EXCEPT !.status = shown]
    BY <1>4, SyncAfterTyped DEF Receipt
  <2>4. SyncMoves
    BY <1>1, <1>4, <2>3, ClaimOfSession, SyncSet
  <2>5. PICK ack \in 0..MaxOperations :
           /\ ack = IF pubs[p].pr \in Terminal THEN epochs[e].ack ELSE o
    BY PrTyped DEF EpochRows, Operations
  <2> DEFINE rec == [epochs[e] EXCEPT !.state = pubs[p].pr, !.token = NoToken, !.ack = ack]
  <2>6. /\ rec \in EpochRows /\ rec.armed = epochs[e].armed /\ rec.ack = ack
    BY PrTyped DEF EpochRows, Actors, PubRows
  <2>7. epochs' = [epochs EXCEPT ![e] = rec]
    BY <1>3, <1>4, <2>5 DEF Receipt
  <2>8. EpochsMove
    BY <1>3, <2>5, <2>6, <2>7, EpochMoves
  <2> QED
    BY <1>1, <1>2, <2>2, <2>4, <2>8, Unmoved, QuietStep DEF prGitHub
<1>5. CASE UNCHANGED <<sync, epochs, ops>>
  BY <1>1, <1>2, <1>5, Unmoved, QuietStep DEF prGitHub
<1> QED
  BY <1>4, <1>5 DEF FinishSync

LEMMA CallFailsInv ==
    ASSUME PrInv, NEW p \in Publishers, CallFails(p) \/ PublisherDies(p) PROVE PrInv'
<1>1. PubsMove /\ UNCHANGED <<prRows, prGitHub, hooks>>
  BY ThrowMoves, EndMoves DEF CallFails, PublisherDies
<1> QED
  BY <1>1, Unmoved, QuietStep DEF prRows, prGitHub

-----------------------------------------------------------------------------
(* The right to create the pull request *)

(* Publishers that did not move create for whom they did. *)
LEMMA OthersCreate ==
    ASSUME PrInv, OpsMove, PubsAtWork, NEW p \in Publishers,
           \A q \in Publishers \ {p} : pubs'[q] = pubs[q]
    PROVE  \A q \in Publishers \ {p}, e \in Epochs : CreatesFor(q, e)' => CreatesFor(q, e)
  BY SameEpoch DEF CreatesFor, Creates

(* Whoever arms an epoch finds it unarmed: the token is nowhere.            *)
LEMMA ArmInv == ASSUME PrInv, NEW p \in Publishers, ArmCreation(p) PROVE PrInv'
<1>1. UNCHANGED <<sync, ops, prGitHub, hooks>> /\ pubs[p].step = "arm"
  BY DEF ArmCreation
<1>2. PICK e \in Epochs : e = EpochOf(p)
  BY <1>1, AtWork
<1>3. CASE ClaimHolds(p) /\ Armable(e)
  <2>1. /\ epochs' = [epochs EXCEPT ![e].armed = TRUE] /\ Continues(p, "post")
    BY <1>2, <1>3 DEF ArmCreation
  <2> DEFINE rec == [epochs[e] EXCEPT !.armed = TRUE]
             to == [pubs[p] EXCEPT !.step = "post"]
  <2>2. rec \in EpochRows /\ rec.ack = epochs[e].ack /\ rec.armed
    BY PrTyped DEF EpochRows
  <2>3. EpochsMove /\ epochs'[e].armed
    BY <2>1, <2>2, EpochMoves DEF PrInv, PrTypes
  <2>4. to \in PubRows /\ to.op = pubs[p].op /\ to.step = "post"
    BY PrTyped DEF PubRows, PublisherSteps
  <2>5. /\ pubs' \in [Publishers -> PubRows] /\ pubs'[p] = to
        /\ \A q \in Publishers \ {p} : pubs'[q] = pubs[q]
    BY <2>1, <2>4 DEF Continues, PrInv, PrTypes
  <2>6. PubsAtWork
    BY <1>1, <2>4, <2>5 DEF PubsAtWork
  <2>7. OpsMove /\ SyncMoves /\ RemoteMoves /\ PullMoves /\ SentMoves /\ HooksMove
    BY <1>1, Unmoved DEF prGitHub
  <2>8. PrTypes' /\ WantsCheckpoint' /\ OperationsInOrder'
    BY <2>3, <2>6, <2>7, OrderedStep DEF EpochsMove, PullMoves, SentMoves
  <2>9. EpochOf(p)' = e
    BY <1>2, <2>4, <2>5, <2>6, <2>7, SameEpoch
  <2>10. ~epochs[e].armed
    BY <1>3 DEF Armable
  <2>11. \A q \in Publishers, f \in Epochs :
            CreatesFor(q, f)' => CreatesFor(q, f) \/ (q = p /\ f = e)
    BY <2>5, <2>6, <2>7, <2>9, OthersCreate DEF CreatesFor
  <2>12. /\ \A q \in Publishers : ~CreatesFor(q, e)
         /\ Post(e) \notin sent /\ pull[e].made = 0
    BY <2>10 DEF PrInv, OneCreation, OneToken
  <2>13. UNCHANGED <<sent, pull>>
    BY <1>1 DEF prGitHub
  <2>14. OneCreation'
    <3>1. \A f \in Epochs \ {e} :
             /\ epochs[f].armed => epochs'[f].armed
             /\ \A q \in Publishers : CreatesFor(q, f)' => CreatesFor(q, f)
      BY <2>3, <2>11 DEF EpochsMove
    <3>2. \A q \in Publishers : CreatesFor(q, e)' => q = p
      BY <2>11, <2>12
    <3>3. \A f \in Epochs \ {e} : OneToken(f)'
      BY <2>13, <3>1, TokenStays DEF PrInv, OneCreation
    <3>4. OneToken(e)'
      BY <2>3, <2>12, <2>13, <3>2 DEF PrInv, OneCreation, OneToken, Post
    <3> QED
      BY <3>3, <3>4 DEF OneCreation
  <2> QED
    BY <2>8, <2>14 DEF PrInv
<1>4. CASE ~(ClaimHolds(p) /\ Armable(e))
  BY <1>1, <1>2, <1>4, ThrowMoves, Unmoved, QuietStep DEF ArmCreation, prGitHub
<1> QED
  BY <1>3, <1>4

LEMMA SendPostInv == ASSUME PrInv, NEW p \in Publishers, SendPost(p) PROVE PrInv'
<1>1. UNCHANGED <<prRows, remote, pull, unheard, hooks>> /\ pubs[p].step = "post"
  BY DEF SendPost
<1>2. PICK e \in Epochs : e = EpochOf(p)
  BY <1>1, AtWork
<1>3. CASE ClaimHolds(p)
  <2>1. sent' = sent \cup {Post(e)} /\ Continues(p, "answer")
    BY <1>2, <1>3 DEF SendPost, PostOf, Post
  <2> DEFINE to == [pubs[p] EXCEPT !.step = "answer"]
  <2>2. to \in PubRows /\ to.op = pubs[p].op /\ to.step = "answer"
    BY PrTyped DEF PubRows, PublisherSteps
  <2>3. /\ pubs' \in [Publishers -> PubRows] /\ pubs'[p] = to
        /\ \A q \in Publishers \ {p} : pubs'[q] = pubs[q]
    BY <2>1, <2>2 DEF Continues, PrInv, PrTypes
  <2>4. PubsAtWork
    BY <1>1, <2>2, <2>3 DEF PubsAtWork
  <2>5. OpsMove /\ EpochsMove /\ SyncMoves /\ RemoteMoves /\ PullMoves /\ HooksMove
    BY <1>1, Unmoved DEF prRows
  <2>6. PushesMove
    <3>1. Post(e) \in Messages /\ \A o \in Operations : Post(e) # Push(o)
      BY DEF Messages, Push, Post
    <3> QED
      BY <2>1, <3>1 DEF PushesMove, PrInv, PrTypes
  <2>7. PrTypes' /\ WantsCheckpoint' /\ OperationsInOrder'
    BY <2>4, <2>5, <2>6, OrderedStep DEF EpochsMove, PullMoves
  <2>8. \A q \in Publishers, f \in Epochs : CreatesFor(q, f)' => CreatesFor(q, f) /\ q # p
    <3>1. ~Creates(p)'
      BY <2>2, <2>3 DEF Creates
    <3>2. \A q \in Publishers \ {p}, f \in Epochs : CreatesFor(q, f)' => CreatesFor(q, f)
      BY <2>3, <2>4, <2>5, OthersCreate
    <3> QED
      BY <3>1, <3>2 DEF CreatesFor
  <2>9. CreatesFor(p, e)
    BY <1>1, <1>2 DEF CreatesFor, Creates
  <2>10. \A f \in Epochs : Post(f) \in sent' => Post(f) \in sent \/ f = e
    BY <2>1 DEF Post
  <2>11. UNCHANGED <<epochs, pull>>
    BY <1>1 DEF prRows
  <2>12. OneCreation'
    <3>1. /\ \A q \in Publishers : ~CreatesFor(q, e)'
          /\ epochs[e].armed /\ pull[e].made = 0
      BY <2>8, <2>9 DEF PrInv, OneCreation, OneToken
    <3>2. \A f \in Epochs \ {e} : OneToken(f)'
      BY <2>8, <2>10, <2>11, TokenStays DEF PrInv, OneCreation
    <3>3. OneToken(e)'
      BY <2>11, <3>1 DEF PrInv, OneCreation, OneToken
    <3> QED
      BY <3>2, <3>3 DEF OneCreation
  <2> QED
    BY <2>7, <2>12 DEF PrInv
<1>4. CASE ~ClaimHolds(p)
  BY <1>1, <1>4, ThrowMoves, Unmoved, QuietStep DEF SendPost, prRows
<1> QED
  BY <1>3, <1>4

(* A refusal takes the POST back: the token is with the publisher again.    *)
LEMMA AnswerInv == ASSUME PrInv, NEW p \in Publishers, AnswerPost(p) PROVE PrInv'
<1>1. UNCHANGED <<prRows, remote, pull, unheard, hooks>> /\ pubs[p].step = "answer"
  BY DEF AnswerPost
<1>2. PICK e \in Epochs : e = EpochOf(p)
  BY <1>1, AtWork
<1>3. sent' \subseteq sent
  BY DEF AnswerPost
<1>4. SentMoves
  BY <1>3 DEF SentMoves, PushesMove, PrInv, PrTypes
<1>5. OpsMove /\ EpochsMove /\ SyncMoves /\ RemoteMoves /\ PullMoves /\ HooksMove
  BY <1>1, Unmoved DEF prRows
<1>6. CASE Throws(p, "rejected") /\ Post(e) \in sent /\ sent' = sent \ {Post(e)}
  <2> DEFINE to == [IdlePublisher EXCEPT !.step = "fail", !.op = pubs[p].op,
                                         !.why = "rejected"]
  <2>1. pubs[p].op \in 0..MaxOperations
    BY PrTyped DEF PubRows
  <2>2. /\ to \in PubRows /\ to.step = "fail" /\ to.op = pubs[p].op
    BY <2>1, Idles DEF IdlePublisher, PubRows, PublisherSteps
  <2>3. /\ pubs' \in [Publishers -> PubRows] /\ pubs'[p] = to
        /\ \A q \in Publishers \ {p} : pubs'[q] = pubs[q]
    BY <1>6, <2>2 DEF Throws, PrInv, PrTypes
  <2>4. PubsAtWork
    BY <1>1, <2>2, <2>3 DEF PubsAtWork
  <2>5. PrTypes' /\ WantsCheckpoint' /\ OperationsInOrder'
    BY <1>4, <1>5, <2>4, OrderedStep DEF EpochsMove, PullMoves, SentMoves
  <2>6. EpochOf(p)' = e
    BY <1>2, <1>5, <2>2, <2>3, <2>4, SameEpoch
  <2>7. \A q \in Publishers, f \in Epochs :
           CreatesFor(q, f)' => CreatesFor(q, f) \/ (q = p /\ f = e)
    BY <1>5, <2>3, <2>4, <2>6, OthersCreate DEF CreatesFor
  <2>8. /\ \A q \in Publishers : ~CreatesFor(q, e)
        /\ epochs[e].armed /\ pull[e].made = 0
    BY <1>6 DEF PrInv, OneCreation, OneToken
  <2>9. UNCHANGED <<epochs, pull>>
    BY <1>1 DEF prRows
  <2>10. \A f \in Epochs \ {e} : OneToken(f)'
    BY <1>3, <2>7, <2>9, TokenStays DEF PrInv, OneCreation
  <2>11. Post(e) \notin sent' /\ \A q \in Publishers : CreatesFor(q, e)' => q = p
    BY <1>6, <2>7, <2>8
  <2>12. OneToken(e)'
    BY <2>8, <2>9, <2>11 DEF PrInv, OneCreation, OneToken, Post
  <2> QED
    BY <2>5, <2>10, <2>12 DEF PrInv, OneCreation
<1>7. CASE Throws(p, "error")
  BY <1>1, <1>4, <1>5, <1>7, ThrowMoves, QuietStep
<1>8. CASE Found(p)
  <2>1. PICK pr \in PrStates : pr = pull[EpochOf(p)].state
    BY <1>1, AtWork DEF Pulls
  <2>2. pubs' = [pubs EXCEPT ![p] = [pubs[p] EXCEPT !.step = "reserve", !.pr = pr,
                   !.head = pubs[p].head, !.promoted = pubs[p].promoted]]
    BY <1>8, <2>1, PrTyped DEF Found, PubRows
  <2>3. PubsMove
    BY <1>1, <2>2, ReadMoves, PrTyped DEF PubRows, PublisherSteps
  <2> QED
    BY <1>4, <1>5, <2>3, QuietStep
<1> QED
  BY <1>2, <1>6, <1>7, <1>8 DEF AnswerPost, PostOf, Post

(* Only the publisher whose POST was refused disarms an epoch, and gives up *)
(* the token as it does.                                                    *)
LEMMA FailInv == ASSUME PrInv, NEW p \in Publishers, FailSync(p) PROVE PrInv'
<1>1. UNCHANGED <<prGitHub, hooks>> /\ PublisherEnds(p) /\ pubs[p].step = "fail"
  BY DEF FailSync
<1>2. PICK e \in Epochs, o \in Operations : e = EpochOf(p) /\ o = pubs[p].op /\ Exists(o)
  BY <1>1, AtWork
<1>3. PubsMove /\ ~Creates(p)' /\ \A q \in Publishers \ {p} : pubs'[q] = pubs[q]
  <2>1. /\ pubs'[p] = IdlePublisher
        /\ \A q \in Publishers \ {p} : pubs'[q] = pubs[q]
    BY <1>1 DEF PublisherEnds, PrInv, PrTypes
  <2> QED
    BY <1>1, <2>1, EndMoves, Idles DEF Creates
<1>4. RemoteMoves /\ PullMoves /\ SentMoves /\ HooksMove
  BY <1>1, Unmoved DEF prGitHub
<1>5. CASE ~ClaimHolds(p)
  <2>1. OpsMove /\ EpochsMove /\ SyncMoves
    BY <1>5, Unmoved DEF FailSync
  <2> QED
    BY <1>3, <1>4, <2>1, QuietStep
<1>6. CASE ClaimHolds(p)
  <2>1. PICK status \in {"conflict", "pending"} :
           ops' = [ops EXCEPT ![o] = Released(@, status)]
    BY <1>2, <1>6 DEF FailSync
  <2>2. OpsMove
    BY <1>2, <2>1, ReleaseMoves
  <2>3. PICK shown \in {"conflict", "error"} : sync' = [sync EXCEPT !.status = shown]
    BY <1>6 DEF FailSync
  <2>4. SyncMoves
    BY <1>1, <1>6, <2>3, ClaimOfSession, SyncSet
  <2>5. CASE UNCHANGED epochs
    BY <1>3, <1>4, <2>2, <2>4, <2>5, Unmoved, QuietStep
  <2>6. CASE pubs[p].why = "rejected" /\ epochs' = [epochs EXCEPT ![e].armed = FALSE]
    <3> DEFINE rec == [epochs[e] EXCEPT !.armed = FALSE]
    <3>1. rec \in EpochRows /\ rec.ack = epochs[e].ack
      BY PrTyped DEF EpochRows
    <3>2. /\ epochs' \in [Epochs -> EpochRows] /\ epochs'[e] = rec
          /\ \A f \in Epochs \ {e} : epochs'[f] = epochs[f]
      BY <2>6, <3>1 DEF PrInv, PrTypes
    <3>3. EpochRowsMove
      BY <3>1, <3>2 DEF EpochRowsMove
    <3>4. PrTypes' /\ WantsCheckpoint' /\ OperationsInOrder'
      BY <1>3, <1>4, <2>2, <2>4, <3>3, OrderedStep DEF PubsMove, PullMoves, SentMoves
    <3>5. \A q \in Publishers, f \in Epochs : CreatesFor(q, f)' => CreatesFor(q, f) /\ q # p
      BY <1>3, <2>2, OthersCreate DEF PubsMove, CreatesFor
    <3>6. CreatesFor(p, e)
      BY <1>1, <1>2, <2>6 DEF CreatesFor, Creates
    <3>7. /\ \A q \in Publishers : ~CreatesFor(q, e)'
          /\ Post(e) \notin sent /\ pull[e].made = 0
      BY <3>5, <3>6 DEF PrInv, OneCreation, OneToken
    <3>8. UNCHANGED <<sent, pull>>
      BY <1>1 DEF prGitHub
    <3>9. \A f \in Epochs \ {e} : OneToken(f)'
      BY <3>2, <3>5, <3>8, TokenStays DEF PrInv, OneCreation
    <3>10. OneToken(e)'
      BY <3>7, <3>8 DEF PrInv, OneCreation, OneToken, Post
    <3> QED
      BY <3>4, <3>9, <3>10 DEF PrInv, OneCreation
  <2> QED
    BY <1>2, <1>6, <2>5, <2>6 DEF FailSync
<1> QED
  BY <1>5, <1>6

(* The POST takes effect: the token is spent. *)
LEMMA PostLandsInv == ASSUME PrInv, PostLands PROVE PrInv'
<1>1. UNCHANGED <<prRows, remote, unheard, pubs, hooks>>
  BY DEF PostLands
<1>2. PICK e \in Epochs :
         /\ Post(e) \in sent /\ sent' = sent \ {Post(e)}
         /\ pull' = IF pull[e].state = "open" THEN pull
                    ELSE [pull EXCEPT ![e].state = "open", ![e].made = @ + 1]
  <2>1. PICK m \in sent :
           /\ m.kind = "post" /\ sent' = sent \ {m}
           /\ pull' = IF pull[m.of].state = "open" THEN pull
                      ELSE [pull EXCEPT ![m.of].state = "open", ![m.of].made = @ + 1]
    BY DEF PostLands
  <2>2. PICK e \in Epochs : m = Post(e)
    BY <2>1 DEF PrInv, PrTypes, Messages, Push, Post
  <2> QED
    BY <2>1, <2>2 DEF Post
<1>3. epochs[e].armed /\ pull[e].made = 0 /\ pull[e].state = "none"
      /\ \A p \in Publishers : ~CreatesFor(p, e)
  BY <1>2 DEF PrInv, OneCreation, OneToken
<1>4. /\ pull' \in [Epochs -> Pulls] /\ pull'[e].made = 1 /\ pull'[e].state = "open"
      /\ \A f \in Epochs \ {e} : pull'[f] = pull[f]
  <2> DEFINE rec == [pull[e] EXCEPT !.state = "open", !.made = pull[e].made + 1]
  <2>1. rec \in Pulls /\ rec.made = 1 /\ rec.state = "open"
    <3>1. pull[e].made + 1 = 1 /\ 1 \in Nat /\ "open" \in PrStates
      BY <1>3 DEF PrStates
    <3>2. pull[e] \in Pulls
      BY PrTyped
    <3> QED
      BY <3>1, <3>2 DEF Pulls
  <2>2. pull' = [pull EXCEPT ![e].state = "open", ![e].made = @ + 1]
    BY <1>2, <1>3
  <2>3. pull' = [pull EXCEPT ![e] = rec]
    BY <2>2, PrTyped DEF Pulls
  <2> QED
    BY <2>1, <2>3 DEF PrInv, PrTypes
<1>5. SentMoves
  BY <1>2 DEF SentMoves, PushesMove, PrInv, PrTypes
<1>6. OpsMove /\ EpochsMove /\ SyncMoves /\ RemoteMoves /\ PubsMove /\ HooksMove
  BY <1>1, Unmoved DEF prRows
<1>7. PrTypes' /\ WantsCheckpoint' /\ OperationsInOrder'
  BY <1>4, <1>5, <1>6, OrderedStep DEF PullTyped, EpochsMove, PubsMove, SentMoves
<1>8. \A p \in Publishers, f \in Epochs : CreatesFor(p, f)' => CreatesFor(p, f)
  BY <1>1 DEF CreatesFor, Creates, EpochOf, prRows
<1>9. UNCHANGED epochs
  BY <1>1 DEF prRows
<1>10. \A f \in Epochs \ {e} : OneToken(f)'
  BY <1>2, <1>4, <1>8, <1>9, TokenStays DEF PrInv, OneCreation
<1>11. OneToken(e)'
  <2>1. Post(e) \notin sent' /\ \A p \in Publishers : ~CreatesFor(p, e)'
    BY <1>2, <1>3, <1>8
  <2> QED
    BY <1>3, <1>4, <1>9, <2>1 DEF OneToken, Post
<1> QED
  BY <1>7, <1>10, <1>11 DEF PrInv, OneCreation

-----------------------------------------------------------------------------
(* The session's side *)

LEMMA SessionInv == ASSUME PrInv, Enqueue \/ AuthorizeSuccessor PROVE PrInv'
<1>1. UNCHANGED <<epochs, ops, prGitHub, pubs, hooks>>
  BY DEF Enqueue, AuthorizeSuccessor
<1>2. CASE Enqueue
  <2>1. PICK status \in {"pending", "successor_required"} :
           sync' = [sync EXCEPT !.gen = @ + 1, !.status = status]
    BY <1>2 DEF Enqueue, UnlessTerminal
  <2>2. sync.gen + 1 \in 0..MaxGenerations /\ sync.gen + 1 # 0
    BY <1>2, PrTyped DEF Enqueue, SyncRow
  <2>3. sync' \in SyncRow /\ sync'.gen # 0
    BY <2>1, <2>2, PrTyped DEF SyncRow
  <2> QED
    BY <1>1, <2>3, Unmoved, QuietStep DEF SyncMoves, WantsCheckpoint, prGitHub
<1>3. CASE AuthorizeSuccessor
  <2>1. sync.gen # 0
    BY <1>3 DEF AuthorizeSuccessor, PrInv, WantsCheckpoint
  <2>2. sync.epoch + 1 \in 0..MaxEpochs
    BY <1>3, PrTyped DEF AuthorizeSuccessor, SyncRow
  <2>3. sync' = [sync EXCEPT !.epoch = sync.epoch + 1, !.status = "pending"]
    BY <1>3 DEF AuthorizeSuccessor
  <2>4. sync' \in SyncRow /\ sync'.gen # 0
    BY <2>1, <2>2, <2>3, PrTyped DEF SyncRow
  <2> QED
    BY <1>1, <2>4, Unmoved, QuietStep DEF SyncMoves, WantsCheckpoint, prGitHub
<1> QED
  BY <1>2, <1>3

-----------------------------------------------------------------------------
(* An operation is taken over, or the next one begun *)

(* The operations that exist come first, so what an epoch acknowledged is   *)
(* older than one that is begun.                                            *)
LEMMA FreshIsNext ==
    ASSUME PrInv, NEW o \in FreshOps
    PROVE  /\ o \in Operations /\ ~Exists(o)
           /\ \A older \in 1..(o - 1) : Exists(older)
           /\ \A e \in Epochs : epochs[e].ack < o
<1>1. o \in Operations /\ ~Exists(o) /\ \A older \in 1..(o - 1) : Exists(older)
  BY DEF FreshOps, Exists
<1>2. ASSUME NEW e \in Epochs PROVE epochs[e].ack < o
  <2>1. epochs[e].ack \in 0..MaxOperations
    BY PrTyped DEF EpochRows
  <2>2. CASE epochs[e].ack = 0
    BY <1>1, <2>2 DEF Operations
  <2>3. CASE epochs[e].ack # 0
    <3>1. epochs[e].ack \in Operations /\ Exists(epochs[e].ack)
      BY <2>1, <2>3 DEF Operations, PrInv, OperationsInOrder
    <3>2. epochs[e].ack # o
      BY <1>1, <3>1
    <3>3. ~(o < epochs[e].ack)
      <4> SUFFICES ASSUME o < epochs[e].ack PROVE FALSE
        OBVIOUS
      <4>1. o \in 1..(epochs[e].ack - 1)
        BY <1>1, <3>1 DEF Operations
      <4> QED
        BY <1>1, <3>1, <4>1 DEF PrInv, OperationsInOrder
    <3> QED
      BY <1>1, <3>1, <3>2, <3>3 DEF Operations
  <2> QED
    BY <2>2, <2>3
<1> QED
  BY <1>1, <1>2

LEMMA ClaimInv == ASSUME PrInv, NEW p \in Publishers, ClaimSync(p) PROVE PrInv'
<1> DEFINE e == IF sync.epoch = 0 THEN 1 ELSE sync.epoch
<1>1. /\ UNCHANGED <<epochs, prGitHub, hooks>> /\ pubs[p].step = "idle"
      /\ sync.status \in {"pending", "error"}
  BY DEF ClaimSync
<1>2. sync.gen \in Generations /\ sync \in SyncRow /\ 1 \in Epochs
  <2>1. sync \in SyncRow /\ sync.gen # 0
    BY <1>1, PrTyped DEF PrInv, WantsCheckpoint
  <2> QED
    BY <2>1 DEF SyncRow, Generations, Epochs
<1>3. CASE /\ sync' = [sync EXCEPT !.status = "successor_required"]
           /\ UNCHANGED <<ops, pubs>>
  BY <1>1, <1>3, SyncSet, Unmoved, QuietStep DEF prGitHub
<1>4. ASSUME NEW o \in Operations, NEW rec \in OpRows, NEW f \in Epochs,
             sync' = [sync EXCEPT !.epoch = f],
             pubs' = [pubs EXCEPT ![p].step = "look", ![p].op = o],
             ops' = [ops EXCEPT ![o] = rec], rec.status = "claimed",
             \/ /\ Exists(o)
                /\ rec.epoch = ops[o].epoch /\ rec.expects = ops[o].expects
             \/ /\ ~Exists(o) /\ rec.expects < o
                /\ \A older \in 1..(o - 1) : Exists(older)
      PROVE  PrInv'
  <2> DEFINE to == [pubs[p] EXCEPT !.step = "look", !.op = o]
  <2>1. to \in PubRows /\ to.step = "look" /\ to.op = o
    <3>1. o \in 0..MaxOperations
      BY DEF Operations
    <3> QED
      BY <3>1, PrTyped DEF PubRows, PublisherSteps
  <2>2. /\ pubs' \in [Publishers -> PubRows] /\ pubs'[p] = to
        /\ \A q \in Publishers \ {p} : pubs'[q] = pubs[q]
    <3>1. pubs' = [pubs EXCEPT ![p] = to]
      BY <1>4, PrTyped DEF PubRows
    <3> QED
      BY <2>1, <3>1 DEF PrInv, PrTypes
  <2>3. /\ ops' \in [Operations -> OpRows] /\ ops'[o] = rec
        /\ \A x \in Operations \ {o} : ops'[x] = ops[x]
    BY <1>4 DEF PrInv, PrTypes
  <2>4. sync' \in SyncRow /\ sync'.gen # 0
    <3>1. f \in 0..MaxEpochs /\ sync.gen # 0
      BY <1>2 DEF Epochs, Generations
    <3> QED
      BY <1>2, <1>4, <3>1 DEF SyncRow
  <2>5. PrTypes' /\ WantsCheckpoint'
    BY <1>1, <2>2, <2>3, <2>4 DEF PrInv, PrTypes, WantsCheckpoint, prGitHub
  <2>6. \A x \in Operations : Exists(x)' <=> Exists(x) \/ x = o
    BY <1>4, <2>3 DEF Exists
  <2>7. \A x \in Operations : 1..(x - 1) \subseteq Operations
    BY DEF Operations
  <2>8. \A x \in Operations :
           Exists(x)' => ops'[x].expects < x /\ \A older \in 1..(x - 1) : Exists(older)'
    <3> SUFFICES ASSUME NEW x \in Operations, Exists(x)'
                 PROVE  /\ ops'[x].expects < x
                        /\ \A older \in 1..(x - 1) : Exists(older)'
      OBVIOUS
    <3>1. CASE x # o
      BY <2>3, <2>6, <2>7, <3>1 DEF PrInv, OperationsInOrder
    <3>2. CASE x = o
      BY <1>4, <2>3, <2>6, <2>7, <3>2 DEF PrInv, OperationsInOrder
    <3> QED
      BY <3>1, <3>2
  <2>9. \A q \in Publishers : pubs'[q].step # "idle" =>
           pubs'[q].op \in Operations /\ ops'[pubs'[q].op].status # "absent"
    BY <1>4, <2>1, <2>2, <2>3 DEF PrInv, OperationsInOrder, Exists
  <2>10. \A g \in Epochs : epochs[g].ack # 0 => ops'[epochs[g].ack].status # "absent"
    <3>1. \A g \in Epochs : epochs[g].ack # 0 => epochs[g].ack \in Operations
      BY PrTyped DEF EpochRows, Operations
    <3> QED
      BY <1>4, <2>3, <3>1 DEF PrInv, OperationsInOrder, Exists
  <2>11. \A x \in Operations : Push(x) \in sent => Exists(x)'
    BY <2>6 DEF PrInv, OperationsInOrder
  <2>12. UNCHANGED <<epochs, pull, sent>>
    BY <1>1 DEF prGitHub
  <2>13. OperationsInOrder'
    BY <2>8, <2>9, <2>10, <2>11, <2>12 DEF OperationsInOrder, Exists, Push
  <2>14. \A q \in Publishers, g \in Epochs : CreatesFor(q, g)' => CreatesFor(q, g)
    <3> SUFFICES ASSUME NEW q \in Publishers, NEW g \in Epochs, CreatesFor(q, g)'
                 PROVE  CreatesFor(q, g)
      OBVIOUS
    <3>1. q # p
      BY <2>1, <2>2 DEF CreatesFor, Creates
    <3>2. pubs'[q] = pubs[q] /\ Creates(q)
      BY <2>2, <3>1 DEF CreatesFor, Creates
    <3>3. pubs[q].op \in Operations /\ Exists(pubs[q].op)
      BY <3>2, AtWork DEF Creates
    <3>4. ops'[pubs[q].op].epoch = ops[pubs[q].op].epoch
      BY <1>4, <2>3, <3>3
    <3> QED
      BY <3>2, <3>4 DEF CreatesFor, EpochOf
  <2>15. OneCreation'
    BY <2>12, <2>14, TokenStays DEF PrInv, OneCreation
  <2> QED
    BY <2>5, <2>13, <2>15 DEF PrInv
<1>5. PICK f \in Epochs : f = e
  BY <1>2 DEF SyncRow, Epochs
<1>6. CASE \E o \in UnresolvedOps(e) :
              /\ ops' = Claimed(p, o)
              /\ sync' = [sync EXCEPT !.epoch = e]
              /\ pubs' = [pubs EXCEPT ![p].step = "look", ![p].op = o]
  <2>1. PICK o \in UnresolvedOps(e) :
              /\ ops' = Claimed(p, o)
              /\ sync' = [sync EXCEPT !.epoch = e]
              /\ pubs' = [pubs EXCEPT ![p].step = "look", ![p].op = o]
    BY <1>6
  <2>2. o \in Operations /\ Exists(o)
    BY DEF UnresolvedOps, Unresolved, Exists
  <2> DEFINE rec == [ops[o] EXCEPT !.status = "claimed", !.by = p, !.lapsed = FALSE]
  <2>3. /\ rec \in OpRows /\ rec.status = "claimed"
        /\ rec.epoch = ops[o].epoch /\ rec.expects = ops[o].expects
    BY <2>2, PrTyped DEF OpRows
  <2>4. ops' = [ops EXCEPT ![o] = rec]
    BY <2>1, <2>2, PrTyped DEF Claimed, OpRows
  <2> QED
    BY <1>4, <1>5, <2>1, <2>2, <2>3, <2>4
<1>7. CASE \E o \in FreshOps :
              /\ ops' = [ops EXCEPT ![o] =
                            [status |-> "claimed", by |-> p, lapsed |-> FALSE,
                             epoch |-> e, gen |-> sync.gen, expects |-> epochs[e].ack]]
              /\ sync' = [sync EXCEPT !.epoch = e]
              /\ pubs' = [pubs EXCEPT ![p].step = "look", ![p].op = o]
  <2>1. PICK o \in FreshOps :
              /\ ops' = [ops EXCEPT ![o] =
                            [status |-> "claimed", by |-> p, lapsed |-> FALSE,
                             epoch |-> f, gen |-> sync.gen, expects |-> epochs[f].ack]]
              /\ sync' = [sync EXCEPT !.epoch = f]
              /\ pubs' = [pubs EXCEPT ![p].step = "look", ![p].op = o]
    BY <1>5, <1>7
  <2> DEFINE rec == [status |-> "claimed", by |-> p, lapsed |-> FALSE,
                     epoch |-> f, gen |-> sync.gen, expects |-> epochs[f].ack]
  <2>2. rec \in OpRows
    BY <1>2, PrTyped DEF OpRows, EpochRows
  <2>3. rec.status = "claimed" /\ rec.expects < o
    BY FreshIsNext
  <2> QED
    BY <1>4, <2>1, <2>2, <2>3, FreshIsNext
<1> QED
  BY <1>1, <1>3, <1>6, <1>7 DEF ClaimSync

-----------------------------------------------------------------------------
(* GitHub, and the people who use it *)

LEMMA PairTyped ==
    ASSUME PrInv, NEW o \in 0..MaxOperations
    PROVE  /\ PairOf(o) \in Refs /\ PairOf(o).head # Foreign
           /\ PairOf(o).fence = o
<1>1. 0 \in 0..Foreign /\ 0 # Foreign /\ \A g \in Generations : g \in 0..Foreign /\ g # Foreign
  BY DEF Foreign, Generations
<1>2. CASE o = 0
  BY <1>1, <1>2 DEF PairOf, Refs
<1>3. CASE o # 0
  <2>1. o \in Operations /\ ops[o] \in OpRows
    BY <1>3, PrTyped DEF Operations
  <2> QED
    BY <1>1, <1>3, <2>1 DEF PairOf, Refs, OpRows
<1> QED
  BY <1>2, <1>3

(* A push that takes effect finds what its operation expects: an older pair *)
(* that nobody else has touched.                                            *)
LEMMA PushForward ==
    ASSUME PrInv, NEW o \in Operations, PushLands(o)
    PROVE  /\ remote' \in [Epochs -> Refs]
           /\ \A e \in Epochs : /\ remote'[e].fence >= remote[e].fence
                                /\ remote[e].head = Foreign => remote'[e] = remote[e]
<1>1. CASE UNCHANGED remote
  BY <1>1, PrTyped DEF PrInv, PrTypes, Refs
<1>2. CASE /\ PushAllowed(o)
           /\ remote' = [remote EXCEPT ![ops[o].epoch] = PairOf(o)]
  <2>1. /\ ops[o].epoch \in Epochs /\ ops[o].expects \in 0..MaxOperations
        /\ o \in 0..MaxOperations
    BY PrTyped DEF OpRows, Operations
  <2>2. ops[o].expects < o
    BY DEF PrInv, OperationsInOrder, PushLands, PushOf, Push
  <2>3. /\ PairOf(o) \in Refs /\ PairOf(o).fence = o
        /\ remote[ops[o].epoch].fence = ops[o].expects
        /\ remote[ops[o].epoch].head # Foreign
    BY <1>2, <2>1, PairTyped DEF PushAllowed
  <2>4. /\ remote' \in [Epochs -> Refs] /\ remote'[ops[o].epoch] = PairOf(o)
        /\ \A e \in Epochs \ {ops[o].epoch} : remote'[e] = remote[e]
    BY <1>2, <2>1, <2>3 DEF PrInv, PrTypes
  <2> QED
    BY <2>1, <2>2, <2>3, <2>4, PrTyped DEF Refs
<1> QED
  BY <1>1, <1>2 DEF PushLands

LEMMA PushLandsInv == ASSUME PrInv, NEW o \in Operations, PushLands(o) PROVE PrInv'
<1>1. SentMoves
  BY DEF PushLands, SentMoves, PushesMove, PrInv, PrTypes
<1>2. RemoteMoves
  BY PushForward DEF RemoteMoves
<1> QED
  BY <1>1, <1>2, Unmoved, QuietStep DEF PushLands, prRows

LEMMA PersonInv ==
    ASSUME PrInv, NEW e \in Epochs, PersonChanges(e) \/ PersonPushes(e) PROVE PrInv'
<1>1. CASE PersonChanges(e)
  <2>1. PICK s \in PrStates \ {"none"} :
           /\ pull[e].state # "none"
           /\ pull' = [pull EXCEPT ![e].state = s, ![e].changes = @ + 1]
    BY <1>1 DEF PersonChanges
  <2> DEFINE rec == [pull[e] EXCEPT !.state = s, !.changes = pull[e].changes + 1]
  <2>2. rec \in Pulls /\ rec.made = pull[e].made /\ rec.state = s
    <3>1. pull[e].changes + 1 \in 0..MaxChanges /\ pull[e] \in Pulls
      BY <1>1, PrTyped DEF PersonChanges, Pulls
    <3> QED
      BY <3>1 DEF Pulls
  <2>3. pull' = [pull EXCEPT ![e] = rec]
    BY <2>1, PrTyped DEF Pulls
  <2>4. PullMoves
    BY <2>1, <2>2, <2>3 DEF PullMoves, PullTyped, PrInv, PrTypes
  <2>5. HooksMove
    BY <1>1 DEF PersonChanges, HooksMove, PrInv, PrTypes
  <2> QED
    BY <1>1, <2>4, <2>5, Unmoved, QuietStep DEF PersonChanges, prRows
<1>2. CASE PersonPushes(e)
  <2>1. RemoteMoves
    BY <1>2 DEF PersonPushes, RemoteMoves, PrInv, PrTypes, Refs, Foreign
  <2> QED
    BY <1>2, <2>1, Unmoved, QuietStep DEF PersonPushes, prRows
<1> QED
  BY <1>1, <1>2

-----------------------------------------------------------------------------
(* The webhook *)

LEMMA HookWrites ==
    ASSUME PrInv, NEW h \in Hooks, NEW to \in HookRows, hooks' = [hooks EXCEPT ![h] = to],
           unheard' \subseteq unheard
    PROVE  HooksMove
  BY DEF HooksMove, PrInv, PrTypes

LEMMA IdleHookTyped == IdleHook \in HookRows
<1>1. 1 \in Epochs
  BY DEF Epochs
<1> QED
  BY <1>1 DEF IdleHook, HookRows, PrStates

LEMMA BeginObservationInv ==
    ASSUME PrInv, NEW h \in Hooks, BeginObservation(h) PROVE PrInv'
<1>1. UNCHANGED <<ops, remote, pull, sent, pubs>> /\ unheard' \subseteq unheard
  BY DEF BeginObservation
<1>2. CASE UNCHANGED <<sync, epochs, hooks>>
  <2>1. HooksMove
    BY <1>1, <1>2 DEF HooksMove, PrInv, PrTypes
  <2> QED
    BY <1>1, <1>2, <2>1, Unmoved, QuietStep
<1>3. CASE \E e \in unheard :
              /\ epochs' = [epochs EXCEPT ![e].token = h]
              /\ sync' = IF sync.epoch = e
                         THEN [sync EXCEPT !.status = UnlessTerminal(e, "pending")] ELSE sync
              /\ hooks' = [hooks EXCEPT ![h] = [IdleHook EXCEPT !.step = "get", !.epoch = e]]
  <2>1. PICK e \in Epochs :
              /\ epochs' = [epochs EXCEPT ![e].token = h]
              /\ sync' = IF sync.epoch = e
                         THEN [sync EXCEPT !.status = UnlessTerminal(e, "pending")] ELSE sync
              /\ hooks' = [hooks EXCEPT ![h] = [IdleHook EXCEPT !.step = "get", !.epoch = e]]
    BY <1>3 DEF PrInv, PrTypes
  <2> DEFINE rec == [epochs[e] EXCEPT !.token = h]
             to == [IdleHook EXCEPT !.step = "get", !.epoch = e]
  <2>2. rec \in EpochRows /\ rec.armed = epochs[e].armed /\ rec.ack = epochs[e].ack
    BY PrTyped DEF EpochRows, Actors
  <2>3. EpochsMove
    BY <2>1, <2>2, EpochMoves
  <2>4. to \in HookRows
    BY DEF IdleHook, HookRows, PrStates
  <2>5. HooksMove
    BY <1>1, <2>1, <2>4, HookWrites
  <2>6. SyncMoves
    <3>1. CASE sync.epoch = e
      <4>1. PICK status \in {"pending", "successor_required"} :
               sync' = [sync EXCEPT !.status = status]
        BY <2>1, <3>1 DEF UnlessTerminal
      <4> QED
        BY <3>1, <4>1, SyncSet DEF Epochs
    <3>2. CASE sync.epoch # e
      BY <2>1, <3>2, Unmoved
    <3> QED
      BY <3>1, <3>2
  <2> QED
    BY <1>1, <2>3, <2>5, <2>6, Unmoved, QuietStep
<1> QED
  BY <1>2, <1>3 DEF BeginObservation

(* What a hook writes to the operations of its epoch is that they are over. *)
LEMMA FinishObservationInv ==
    ASSUME PrInv, NEW h \in Hooks, FinishObservation(h) PROVE PrInv'
<1>1. UNCHANGED <<prGitHub, pubs>> /\ hooks' = [hooks EXCEPT ![h] = IdleHook]
  BY DEF FinishObservation, HookEnds
<1>2. HooksMove
  BY <1>1, IdleHookTyped, HookWrites DEF prGitHub
<1>3. CASE UNCHANGED <<sync, epochs, ops>>
  BY <1>1, <1>2, <1>3, Unmoved, QuietStep DEF prGitHub
<1>4. CASE ~UNCHANGED <<sync, epochs, ops>>
  <2>1. PICK e \in Epochs, pr \in PrStates : e = hooks[h].epoch /\ pr = hooks[h].pr
    BY PrTyped DEF HookRows
  <2>2. /\ epochs' = [epochs EXCEPT ![e].state = pr, ![e].token = NoToken]
        /\ sync' = IF sync.epoch # e THEN sync
                   ELSE [sync EXCEPT !.status = IF pr \in Terminal
                           THEN "successor_required" ELSE "pending"]
        /\ ops' = [o \in Operations |->
                     IF pr \in Terminal /\ o \in UnresolvedOps(e)
                     THEN Released(ops[o], "terminal") ELSE ops[o]]
    BY <1>4, <2>1 DEF FinishObservation
  <2> DEFINE rec == [epochs[e] EXCEPT !.state = pr, !.token = NoToken]
  <2>3. rec \in EpochRows /\ rec.armed = epochs[e].armed /\ rec.ack = epochs[e].ack
    BY PrTyped DEF EpochRows, Actors
  <2>4. epochs' = [epochs EXCEPT ![e] = rec]
    BY <2>2
  <2>5. EpochsMove
    BY <2>3, <2>4, EpochMoves
  <2>6. OpsMove
    <3>1. \A o \in Operations :
             LET released == Released(ops[o], "terminal")
             IN  /\ released \in OpRows /\ released.status = "terminal"
                 /\ released.epoch = ops[o].epoch /\ released.expects = ops[o].expects
      BY ReleasedTyped, PrTyped
    <3>2. \A o \in UnresolvedOps(e) : Exists(o)
      BY DEF UnresolvedOps, Unresolved, Exists
    <3> QED
      BY <2>2, <3>1, <3>2, PrTyped DEF OpsMove, Exists
  <2>7. SyncMoves
    <3>1. CASE sync.epoch = e
      <4>1. PICK status \in {"pending", "successor_required"} :
               sync' = [sync EXCEPT !.status = status]
        BY <2>2, <3>1
      <4> QED
        BY <3>1, <4>1, SyncSet DEF Epochs
    <3>2. CASE sync.epoch # e
      BY <2>2, <3>2, Unmoved
    <3> QED
      BY <3>1, <3>2
  <2> QED
    BY <1>1, <1>2, <2>5, <2>6, <2>7, Unmoved, QuietStep DEF prGitHub
<1> QED
  BY <1>3, <1>4

LEMMA HookInv ==
    ASSUME PrInv, NEW h \in Hooks, HookReads(h) \/ HookFails(h) PROVE PrInv'
<1>1. UNCHANGED <<prRows, prGitHub, pubs>>
  BY DEF HookReads, HookFails
<1>2. HooksMove
  <2>1. CASE HookFails(h)
    BY <1>1, <2>1, IdleHookTyped, HookWrites DEF HookFails, HookEnds, prGitHub
  <2>2. CASE HookReads(h)
    <3>1. PICK pr \in PrStates : pr = pull[hooks[h].epoch].state
      BY PrTyped DEF HookRows, Pulls
    <3> DEFINE to == [hooks[h] EXCEPT !.step = "finish", !.pr = pr]
    <3>2. to \in HookRows
      BY PrTyped DEF HookRows
    <3>3. hooks' = [hooks EXCEPT ![h] = to]
      BY <2>2, <3>1 DEF HookReads
    <3> QED
      BY <1>1, <3>2, <3>3, HookWrites DEF prGitHub
  <2> QED
    BY <2>1, <2>2
<1> QED
  BY <1>1, <1>2, Unmoved, QuietStep DEF prRows, prGitHub

-----------------------------------------------------------------------------
LEMMA PrStutterInv == ASSUME PrInv, UNCHANGED prVars PROVE PrInv'
  BY Unmoved, QuietStep DEF prVars, prRows, prGitHub

LEMMA PrStepInv == PrInv /\ [CanonicalNext]_prVars => PrInv'
  BY SessionInv, PostLandsInv, ClaimInv, LookUpInv, PromoteInv, RereadInv, ConfirmInv,
     ArmInv, SendPostInv, AnswerInv, ReserveInv, ObserveInv, FinishInv, FailInv,
     CallFailsInv, BeginObservationInv, HookInv, FinishObservationInv, LeaseLapsesInv,
     PushLandsInv, PersonInv, PrStutterInv
     DEF CanonicalNext, PublisherStep, HookStep

LEMMA PrInvariance == CanonicalSpec => []PrInv
  BY PrInitInv, PrStepInv, PTL DEF CanonicalSpec

LEMMA RefsForward ==
    ASSUME PrInv, [CanonicalNext]_prVars, NEW e \in Epochs
    PROVE  /\ remote'[e].fence >= remote[e].fence
           /\ remote[e].head = Foreign => remote'[e] = remote[e]
<1>1. CASE \E o \in Operations : PushLands(o)
  BY <1>1, PushForward
<1>2. CASE \E f \in Epochs : PersonPushes(f)
  <2>1. PICK f \in Epochs : /\ remote[f].head # Foreign
                            /\ remote' = [remote EXCEPT ![f].head = Foreign]
    BY <1>2 DEF PersonPushes
  <2> QED
    BY <2>1, PrTyped DEF PrInv, PrTypes, Refs
<1>3. CASE UNCHANGED remote
  BY <1>3, PrTyped DEF Refs
<1> QED
  BY <1>1, <1>2, <1>3
     DEF CanonicalNext, PublisherStep, HookStep, Enqueue, AuthorizeSuccessor, PostLands,
         ClaimSync, LookUp, PromoteRefs, RereadRemote, ConfirmPromotion, ArmCreation,
         SendPost, AnswerPost, ReserveObservation, ObservePull, FinishSync, FailSync,
         CallFails, PublisherDies, BeginObservation, HookReads, FinishObservation,
         HookFails, LeaseOfOperationLapses, PersonChanges, prGitHub, prVars

(* The refs of an epoch pass through its operations in their order, are not *)
(* moved once somebody else has pushed, and an epoch gets one pull request, *)
(* whatever requests are late or lost and whoever took a claim over.        *)
THEOREM PublicationIsForward == CanonicalSpec => PublicationMovesForward
<1> DEFINE Forward ==
        \A e \in Epochs :
           /\ remote'[e].fence >= remote[e].fence
           /\ remote[e].head = Foreign => remote'[e] = remote[e]
           /\ pull'[e].made <= 1
<1>1. ASSUME PrInv, [CanonicalNext]_prVars PROVE Forward
  <2>1. \A e \in Epochs : pull'[e].made <= 1
    BY <1>1, PrStepInv DEF PrInv, OneCreation, OneToken
  <2> QED
    BY <1>1, <2>1, RefsForward
<1> QED
  BY <1>1, PrInvariance, PTL DEF CanonicalSpec, PublicationMovesForward

-----------------------------------------------------------------------------
(* A synchronised session, and the reports that make one                    *)

(* The pull request is open, or a webhook is still to tell that it is not.  *)
Told(e) == pull[e].state # "open" => e \in unheard

(* A publisher speaks of a pull request only when there is one, reports of  *)
(* one that was pinned, and one whose observation still counts has seen     *)
(* everything nobody else will tell.                                        *)
PubHeard(p) ==
    /\ pubs[p].step = "idle" => pubs[p].pr = "none"
    /\ pubs[p].step \in {"reserve", "observe", "finish"} => pubs[p].pr # "none"
    /\ pubs[p].step # "idle" /\ pubs[p].pr # "none" => pull[EpochOf(p)].state # "none"
    /\ pubs[p].step \in {"observe", "finish"} => epochs[EpochOf(p)].pinned
    /\ pubs[p].step = "finish" /\ pubs[p].pr = "open" /\ epochs[EpochOf(p)].token = p =>
          Told(EpochOf(p))

IsHeard(e) ==
    /\ e \in Epochs /\ epochs[e].pinned
    /\ epochs[e].state = "open" /\ epochs[e].token = NoToken
    /\ epochs[e].ack # 0 /\ ops[epochs[e].ack].gen = sync.gen
    /\ Told(e)

PubsHeard == \A p \in Publishers : PubHeard(p)
SyncHeard == sync.status = "synced" => IsHeard(sync.epoch)
HeardInv == PubsHeard /\ SyncHeard

(* What an operation is for is settled when it is begun. *)
OpsStay == \A o \in Operations : Exists(o) => /\ ops'[o].epoch = ops[o].epoch
                                             /\ ops'[o].gen = ops[o].gen
PullsStay == \A e \in Epochs : pull[e].state # "none" => pull'[e].state # "none"
PinsStay == \A e \in Epochs : epochs[e].pinned => epochs'[e].pinned

LEMMA HeardStarts == CanonicalInit => HeardInv
  BY Idles DEF CanonicalInit, HeardInv, PubsHeard, PubHeard, SyncHeard, IdlePublisher

LEMMA EpochStays ==
    ASSUME PrInv, OpsStay, NEW p \in Publishers, pubs[p].step # "idle",
           pubs'[p].op = pubs[p].op
    PROVE  EpochOf(p)' = EpochOf(p) /\ EpochOf(p) \in Epochs
  BY AtWork DEF OpsStay, EpochOf

(* A publisher that does not move knows what it knew, unless its            *)
(* observation counts no longer.                                            *)
LEMMA PubStays ==
    ASSUME PrInv, OpsStay, PullsStay, PinsStay, NEW p \in Publishers, PubHeard(p),
           pubs'[p] = pubs[p],
           \A e \in Epochs : epochs[e].pinned /\ epochs'[e].token = p =>
                                epochs[e].token = p /\ (Told(e) => Told(e)')
    PROVE  PubHeard(p)'
<1>1. CASE pubs[p].step = "idle"
  BY <1>1 DEF PubHeard
<1>2. CASE pubs[p].step # "idle"
  <2>1. PICK e \in Epochs : e = EpochOf(p) /\ EpochOf(p)' = e
    BY <1>2, EpochStays
  <2> QED
    BY <1>2, <2>1 DEF PubHeard, PullsStay, PinsStay, Told
<1> QED
  BY <1>1, <1>2

LEMMA SyncStays ==
    ASSUME PrInv, OpsStay, SyncHeard,
           sync'.status = "synced" =>
              /\ UNCHANGED sync /\ (Told(sync.epoch) => Told(sync.epoch)')
              /\ epochs'[sync.epoch].pinned = epochs[sync.epoch].pinned
              /\ epochs'[sync.epoch].state = epochs[sync.epoch].state
              /\ epochs'[sync.epoch].token = epochs[sync.epoch].token
              /\ epochs'[sync.epoch].ack = epochs[sync.epoch].ack
    PROVE  SyncHeard'
<1> SUFFICES ASSUME sync'.status = "synced" PROVE IsHeard(sync.epoch)'
  BY DEF SyncHeard
<1>1. PICK e \in Epochs : e = sync.epoch /\ IsHeard(e)
  BY DEF SyncHeard, IsHeard
<1>2. epochs[e].ack \in Operations /\ Exists(epochs[e].ack)
  BY <1>1, PrTyped DEF EpochRows, Operations, PrInv, OperationsInOrder, IsHeard
<1>3. ops'[epochs[e].ack].gen = sync.gen
  BY <1>1, <1>2 DEF OpsStay, IsHeard
<1> QED
  BY <1>1, <1>3 DEF IsHeard, Told

-----------------------------------------------------------------------------
(* Steps of others than publishers *)

LEMMA OutsideStep ==
    ASSUME PrInv, HeardInv, UNCHANGED <<pubs, epochs>>, OpsStay, PullsStay,
           \A e \in Epochs : Told(e) => Told(e)',
           sync'.status = "synced" => UNCHANGED sync
    PROVE  HeardInv'
<1>1. PinsStay
  BY DEF PinsStay
<1>2. PubsHeard'
  BY <1>1, PubStays DEF HeardInv, PubsHeard
<1>3. sync'.status = "synced" => sync.epoch \in Epochs
  BY DEF HeardInv, SyncHeard, IsHeard
<1>4. SyncHeard'
  BY <1>3, SyncStays DEF HeardInv
<1> QED
  BY <1>2, <1>4 DEF HeardInv

LEMMA RestStays ==
    /\ UNCHANGED ops => OpsStay
    /\ UNCHANGED pull => PullsStay
    /\ UNCHANGED epochs => PinsStay
    /\ UNCHANGED <<pull, unheard>> => \A e \in Epochs : Told(e) => Told(e)'
  BY DEF OpsStay, PullsStay, PinsStay, Told

LEMMA SessionHeard ==
    ASSUME PrInv, HeardInv, Enqueue \/ AuthorizeSuccessor PROVE HeardInv'
<1>1. UNCHANGED <<epochs, ops, prGitHub, pubs, hooks>>
  BY DEF Enqueue, AuthorizeSuccessor
<1>2. sync'.status # "synced"
  BY PrTyped DEF Enqueue, AuthorizeSuccessor, UnlessTerminal, SyncRow
<1> QED
  BY <1>1, <1>2, RestStays, OutsideStep DEF prGitHub

LEMMA GitHubHeard ==
    ASSUME PrInv, HeardInv,
           \/ PostLands \/ \E o \in Operations : LeaseOfOperationLapses(o) \/ PushLands(o)
           \/ \E e \in Epochs : PersonChanges(e) \/ PersonPushes(e)
    PROVE  HeardInv'
<1>1. UNCHANGED <<sync, epochs, pubs>>
  BY DEF PostLands, LeaseOfOperationLapses, PushLands, PersonChanges, PersonPushes, prRows,
         prGitHub
<1>2. OpsStay
  <2>1. ASSUME NEW o \in Operations, LeaseOfOperationLapses(o) PROVE OpsStay
    BY <2>1, PrTyped DEF LeaseOfOperationLapses, OpsStay, OpRows, PrInv, PrTypes
  <2> QED
    BY <2>1, RestStays DEF PostLands, PushLands, PersonChanges, PersonPushes, prRows
<1>3. PullsStay /\ \A e \in Epochs : Told(e) => Told(e)'
  <2>1. CASE UNCHANGED <<pull, unheard>>
    BY <2>1, RestStays
  <2>2. CASE PostLands
    <3>1. PICK f \in Epochs : pull' = IF pull[f].state = "open" THEN pull
                  ELSE [pull EXCEPT ![f].state = "open", ![f].made = @ + 1]
      <4>1. PICK m \in sent :
               /\ m.kind = "post"
               /\ pull' = IF pull[m.of].state = "open" THEN pull
                          ELSE [pull EXCEPT ![m.of].state = "open", ![m.of].made = @ + 1]
        BY <2>2 DEF PostLands
      <4>2. m.of \in Epochs
        BY <4>1 DEF PrInv, PrTypes, Messages, Push, Post
      <4> QED
        BY <4>1, <4>2
    <3>2. /\ pull \in [Epochs -> Pulls] /\ unheard' = unheard
      BY <2>2 DEF PrInv, PrTypes, PostLands
    <3>3. \A e \in Epochs : pull'[e].state \in {pull[e].state, "open"}
      BY <3>1, <3>2 DEF Pulls
    <3> QED
      BY <3>2, <3>3 DEF PullsStay, Told
  <2>3. ASSUME NEW f \in Epochs, PersonChanges(f)
        PROVE  PullsStay /\ \A e \in Epochs : Told(e) => Told(e)'
    <3>1. PICK s \in PrStates \ {"none"} :
             pull' = [pull EXCEPT ![f].state = s, ![f].changes = @ + 1]
      BY <2>3 DEF PersonChanges
    <3>2. /\ pull \in [Epochs -> Pulls] /\ unheard' = unheard \cup {f}
      BY <2>3 DEF PrInv, PrTypes, PersonChanges
    <3>3. \A e \in Epochs : \/ e = f /\ pull'[e].state = s
                            \/ e # f /\ pull'[e].state = pull[e].state
      BY <3>1, <3>2 DEF Pulls
    <3> QED
      BY <3>2, <3>3 DEF PullsStay, Told
  <2> QED
    BY <2>1, <2>2, <2>3
       DEF LeaseOfOperationLapses, PushLands, PersonPushes, prGitHub
<1> QED
  BY <1>1, <1>2, <1>3, OutsideStep

(* A webhook that takes the news of a pull request away leaves a token that *)
(* is not the publishers', and no session synchronised.                     *)
LEMMA BeginObservationHeard ==
    ASSUME PrInv, HeardInv, NEW h \in Hooks, BeginObservation(h) PROVE HeardInv'
<1>1. PICK e \in Epochs : /\ unheard' = unheard \ {e}
                          /\ IF epochs[e].pinned
                             THEN /\ epochs' = [epochs EXCEPT ![e].token = h]
                                  /\ sync' = IF sync.epoch = e
                                             THEN [sync EXCEPT !.status =
                                                      UnlessTerminal(e, "pending")]
                                             ELSE sync
                             ELSE UNCHANGED <<sync, epochs>>
  BY DEF BeginObservation, PrInv, PrTypes
<1>2. UNCHANGED <<ops, pull, pubs>> /\ epochs \in [Epochs -> EpochRows] /\ sync \in SyncRow
      /\ h \notin Publishers
  BY DEF BeginObservation, PrInv, PrTypes
<1>3. OpsStay /\ PullsStay
  BY <1>2, RestStays
<1>4. /\ \A f \in Epochs \ {e} : /\ epochs'[f] = epochs[f]
                                 /\ Told(f) => Told(f)'
      /\ epochs'[e].pinned = epochs[e].pinned
      /\ epochs[e].pinned => epochs'[e].token = h
  BY <1>1, <1>2 DEF EpochRows, Told
<1>5. PinsStay
  BY <1>4 DEF PinsStay
<1>6. PubsHeard'
  BY <1>2, <1>3, <1>4, <1>5, PubStays DEF HeardInv, PubsHeard
<1>7. sync'.status = "synced" => UNCHANGED sync /\ sync.epoch \in Epochs \ {e}
  BY <1>1, <1>2 DEF UnlessTerminal, SyncRow, HeardInv, SyncHeard, IsHeard
<1>8. SyncHeard'
  BY <1>3, <1>4, <1>7, SyncStays DEF HeardInv
<1> QED
  BY <1>6, <1>8 DEF HeardInv

LEMMA FinishObservationHeard ==
    ASSUME PrInv, HeardInv, NEW h \in Hooks, FinishObservation(h) PROVE HeardInv'
<1>1. UNCHANGED <<pull, unheard, pubs>>
  BY DEF FinishObservation, prGitHub
<1>2. CASE UNCHANGED <<sync, epochs, ops>>
  BY <1>1, <1>2, RestStays, OutsideStep
<1>3. CASE ~UNCHANGED <<sync, epochs, ops>>
  <2>1. PICK e \in Epochs, pr \in PrStates : e = hooks[h].epoch /\ pr = hooks[h].pr
    BY PrTyped DEF HookRows
  <2>2. /\ epochs' = [epochs EXCEPT ![e].state = pr, ![e].token = NoToken]
        /\ sync' = IF sync.epoch # e THEN sync
                   ELSE [sync EXCEPT !.status = IF pr \in Terminal
                           THEN "successor_required" ELSE "pending"]
        /\ ops' = [o \in Operations |->
                     IF pr \in Terminal /\ o \in UnresolvedOps(e)
                     THEN Released(ops[o], "terminal") ELSE ops[o]]
    BY <1>3, <2>1 DEF FinishObservation
  <2>3. epochs \in [Epochs -> EpochRows] /\ ops \in [Operations -> OpRows] /\ sync \in SyncRow
    BY DEF PrInv, PrTypes
  <2>4. OpsStay
    BY <2>2, <2>3 DEF OpsStay, Released, OpRows
  <2>5. /\ \A f \in Epochs \ {e} : epochs'[f] = epochs[f]
        /\ epochs'[e].pinned = epochs[e].pinned /\ epochs'[e].token = NoToken
    BY <2>2, <2>3 DEF EpochRows
  <2>6. PinsStay /\ PullsStay /\ \A f \in Epochs : Told(f) => Told(f)'
    BY <1>1, <2>5, RestStays DEF PinsStay
  <2>7. PubsHeard'
    BY <1>1, <2>4, <2>5, <2>6, PubStays DEF HeardInv, PubsHeard
  <2>8. sync'.status = "synced" => UNCHANGED sync /\ sync.epoch \in Epochs \ {e}
    BY <2>2, <2>3 DEF SyncRow, HeardInv, SyncHeard, IsHeard
  <2>9. SyncHeard'
    BY <2>4, <2>5, <2>6, <2>8, SyncStays DEF HeardInv
  <2> QED
    BY <2>7, <2>9 DEF HeardInv
<1> QED
  BY <1>2, <1>3

LEMMA HookHeard ==
    ASSUME PrInv, HeardInv, NEW h \in Hooks, HookReads(h) \/ HookFails(h) PROVE HeardInv'
<1>1. UNCHANGED <<prRows, prGitHub, pubs>>
  BY DEF HookReads, HookFails
<1> QED
  BY <1>1, RestStays, OutsideStep DEF prRows, prGitHub

-----------------------------------------------------------------------------
(* Steps of publishers *)

OthersWait(p) == \A q \in Publishers \ {p} : pubs'[q] = pubs[q]

(* Publishers that did not move lose nothing to one that did. *)
LEMMA PublisherStepHeard ==
    ASSUME PrInv, HeardInv, NEW p \in Publishers, OthersWait(p), OpsStay, PinsStay,
           UNCHANGED <<pull, unheard>>,
           \A e \in Epochs : epochs'[e].token \in {epochs[e].token, p, NoToken},
           PubHeard(p)'
    PROVE  PubsHeard'
<1>1. PullsStay /\ \A e \in Epochs : Told(e) => Told(e)'
  BY RestStays
<1>2. ASSUME NEW q \in Publishers \ {p} PROVE PubHeard(q)'
  <2>1. \A e \in Epochs : epochs'[e].token = q => epochs[e].token = q
    BY <1>2
  <2> QED
    BY <1>1, <1>2, <2>1, PubStays DEF OthersWait, HeardInv, PubsHeard
<1> QED
  BY <1>2 DEF PubsHeard

LEMMA ThrownHeard ==
    ASSUME PrInv, NEW p \in Publishers, NEW why \in {"error", "conflict", "rejected"},
           Throws(p, why) \/ PublisherEnds(p)
    PROVE  OthersWait(p) /\ PubHeard(p)'
<1>1. pubs \in [Publishers -> PubRows]
  BY DEF PrInv, PrTypes
<1>2. OthersWait(p)
  BY <1>1 DEF OthersWait, Throws, PublisherEnds
<1>3. pubs'[p].pr = "none" /\ pubs'[p].step \in {"idle", "fail"}
  <2>1. \/ pubs'[p] = IdlePublisher
        \/ pubs'[p] = [IdlePublisher EXCEPT !.step = "fail", !.op = pubs[p].op, !.why = why]
    BY <1>1 DEF Throws, PublisherEnds
  <2>2. CASE pubs'[p] = IdlePublisher
    BY <2>2 DEF IdlePublisher
  <2>3. CASE pubs'[p] = [IdlePublisher EXCEPT !.step = "fail", !.op = pubs[p].op, !.why = why]
    BY <2>3 DEF IdlePublisher
  <2> QED
    BY <2>1, <2>2, <2>3
<1> QED
  BY <1>2, <1>3 DEF PubHeard

(* It goes on with a pull request it has found, or without one. *)
LEMMA GoesOnHeard ==
    ASSUME PrInv, OpsStay, NEW p \in Publishers, pubs[p].step # "idle",
           pubs'[p].op = pubs[p].op, pubs'[p].step \notin {"idle", "observe", "finish"},
           pubs'[p].step = "reserve" => pubs'[p].pr # "none",
           pubs'[p].pr # "none" => pull'[EpochOf(p)].state # "none"
    PROVE  PubHeard(p)'
  BY EpochStays DEF PubHeard

LEMMA ContinuesHeard ==
    ASSUME PrInv, HeardInv, UNCHANGED <<pull, ops>>, NEW p \in Publishers,
           pubs[p].step # "idle",
           NEW step \in PublisherSteps \ {"idle", "reserve", "observe", "finish"},
           Continues(p, step)
    PROVE  OthersWait(p) /\ PubHeard(p)'
<1>1. pubs \in [Publishers -> PubRows]
  BY DEF PrInv, PrTypes
<1>2. OthersWait(p)
  BY <1>1 DEF OthersWait, Continues
<1>3. pubs'[p].op = pubs[p].op /\ pubs'[p].step = step /\ pubs'[p].pr = pubs[p].pr
  BY <1>1 DEF Continues, PubRows
<1> QED
  BY <1>2, <1>3, RestStays, GoesOnHeard DEF HeardInv, PubsHeard, PubHeard

(* The steps that find out and prepare. *)
Prepares(p) == \/ LookUp(p) \/ PromoteRefs(p) \/ RereadRemote(p) \/ ConfirmPromotion(p)
               \/ ArmCreation(p) \/ SendPost(p) \/ AnswerPost(p)

LEMMA PreparesHeard ==
    ASSUME PrInv, HeardInv, NEW p \in Publishers, Prepares(p)
    PROVE  OthersWait(p) /\ PubHeard(p)'
<1>1. /\ UNCHANGED <<pull, ops>> /\ pubs[p].step \notin {"idle", "reserve", "observe", "finish"}
      /\ pubs \in [Publishers -> PubRows]
  BY DEF Prepares, LookUp, PromoteRefs, RereadRemote, ConfirmPromotion, ArmCreation,
         SendPost, AnswerPost, prRows, prGitHub, PrInv, PrTypes
<1>2. PICK e \in Epochs : e = EpochOf(p) /\ pull[e] \in Pulls
  BY <1>1, AtWork
<1>3. pubs[p].pr # "none" => pull[e].state # "none"
  BY <1>1, <1>2 DEF HeardInv, PubsHeard, PubHeard
<1>4. ASSUME NEW to \in PubRows, pubs' = [pubs EXCEPT ![p] = to], to.op = pubs[p].op,
             to.step \notin {"idle", "observe", "finish"},
             to.step = "reserve" => to.pr # "none",
             to.pr # "none" => pull[e].state # "none"
      PROVE  OthersWait(p) /\ PubHeard(p)'
  <2>1. pubs'[p] = to /\ OthersWait(p)
    BY <1>1, <1>4 DEF OthersWait
  <2> QED
    BY <1>1, <1>2, <1>4, <2>1, RestStays, GoesOnHeard
<1>5. ASSUME NEW why \in {"error", "conflict", "rejected"}, Throws(p, why) PROVE OthersWait(p) /\ PubHeard(p)'
  BY <1>5, ThrownHeard
<1>6. ASSUME NEW step \in {"reread", "confirm", "post", "answer"}, Continues(p, step)
      PROVE  OthersWait(p) /\ PubHeard(p)'
  BY <1>1, <1>6, ContinuesHeard DEF PublisherSteps
<1>7. ASSUME NEW pr \in PrStates, NEW step \in {"reserve", "promote", "arm"},
             NEW promoted \in BOOLEAN,
             pubs' = [pubs EXCEPT ![p].pr = pr, ![p].step = step, ![p].promoted = promoted],
             step = "reserve" => pr # "none", pr # "none" => pull[e].state # "none"
      PROVE  OthersWait(p) /\ PubHeard(p)'
  <2> DEFINE to == [pubs[p] EXCEPT !.pr = pr, !.step = step, !.promoted = promoted]
  <2>1. /\ to \in PubRows /\ to.op = pubs[p].op /\ to.step = step /\ to.pr = pr
    BY PrTyped DEF PubRows, PublisherSteps
  <2>2. pubs' = [pubs EXCEPT ![p] = to]
    BY <1>1, <1>7 DEF PubRows
  <2> QED
    BY <1>4, <1>7, <2>1, <2>2
<1>8. ASSUME NEW pr \in PrStates, NEW step \in {"reserve", "promote"},
             pubs' = [pubs EXCEPT ![p].pr = pr, ![p].step = step],
             step = "reserve" => pr # "none", pr # "none" => pull[e].state # "none"
      PROVE  OthersWait(p) /\ PubHeard(p)'
  <2>1. pubs[p].promoted \in BOOLEAN /\ pubs' = [pubs EXCEPT ![p].pr = pr,
           ![p].step = step, ![p].promoted = pubs[p].promoted]
    BY <1>1, <1>8 DEF PubRows
  <2> QED
    BY <1>7, <1>8, <2>1
<1>9. pull[e].state \in PrStates /\ pubs[p].pr \in PrStates
  BY <1>2, PrTyped DEF Pulls, PubRows
<1>10. CASE LookUp(p)
  <2>1. CASE pull[e].state \in Terminal
    <3>1. \/ Throws(p, "error")
          \/ pubs' = [pubs EXCEPT ![p].pr = pull[e].state, ![p].step = "reserve"]
      BY <1>2, <1>10, <2>1 DEF LookUp
    <3> QED
      BY <1>5, <1>8, <1>9, <2>1, <3>1 DEF Terminal
  <2>2. CASE pull[e].state \notin Terminal
    <3>1. \/ Throws(p, "error")
          \/ pubs' = [pubs EXCEPT ![p].pr = pull[e].state, ![p].step = "promote"]
      BY <1>2, <1>10, <2>2 DEF LookUp
    <3> QED
      BY <1>5, <1>8, <1>9, <3>1
  <2> QED
    BY <2>1, <2>2
<1>11. CASE PromoteRefs(p)
  <2>1. \/ Throws(p, "error") \/ Throws(p, "conflict")
        \/ Continues(p, "confirm") \/ Continues(p, "reread")
        \/ /\ pull[e].state \in Terminal
           /\ pubs' = [pubs EXCEPT ![p].pr = pull[e].state, ![p].step = "reserve"]
    BY <1>2, <1>11 DEF PromoteRefs, Judge, Terminal
  <2> QED
    BY <1>5, <1>6, <1>8, <1>9, <2>1 DEF Terminal
<1>12. CASE RereadRemote(p)
  BY <1>5, <1>6, <1>12 DEF RereadRemote, Judge
<1>13. CASE ConfirmPromotion(p)
  <2>1. PICK pr \in PrStates : pr = IF pubs[p].pr = "none" THEN pull[e].state ELSE pubs[p].pr
    BY <1>9
  <2>2. \/ Throws(p, "error")
        \/ pubs' = [pubs EXCEPT ![p].promoted = TRUE, ![p].pr = pr,
                      ![p].step = IF pr = "none" THEN "arm" ELSE "reserve"]
    BY <1>2, <1>13, <2>1 DEF ConfirmPromotion
  <2>3. pr # "none" => pull[e].state # "none"
    BY <1>3, <2>1
  <2>4. CASE Throws(p, "error")
    BY <1>5, <2>4
  <2>5. CASE pubs' = [pubs EXCEPT ![p].promoted = TRUE, ![p].pr = pr,
                        ![p].step = IF pr = "none" THEN "arm" ELSE "reserve"]
    <3>1. PICK step \in {"arm", "reserve"} : /\ step = IF pr = "none" THEN "arm" ELSE "reserve"
                                             /\ step = "reserve" => pr # "none"
      OBVIOUS
    <3>2. pubs' = [pubs EXCEPT ![p].pr = pr, ![p].step = step, ![p].promoted = TRUE]
      BY <1>1, <2>5, <3>1 DEF PubRows
    <3> QED
      BY <1>7, <2>3, <3>1, <3>2
  <2> QED
    BY <2>2, <2>4, <2>5
<1>14. CASE ArmCreation(p) \/ SendPost(p)
  BY <1>5, <1>6, <1>14 DEF ArmCreation, SendPost
<1>15. CASE AnswerPost(p)
  <2>1. \/ Throws(p, "error") \/ Throws(p, "rejected")
        \/ /\ pull[e].state # "none"
           /\ pubs' = [pubs EXCEPT ![p].pr = pull[e].state, ![p].step = "reserve"]
    BY <1>2, <1>15 DEF AnswerPost, Found
  <2> QED
    BY <1>5, <1>8, <1>9, <2>1
<1> QED
  BY <1>10, <1>11, <1>12, <1>13, <1>14, <1>15 DEF Prepares

LEMMA PreparesInvHeard ==
    ASSUME PrInv, HeardInv, NEW p \in Publishers, Prepares(p) PROVE HeardInv'
<1>1. UNCHANGED <<sync, ops, pull, unheard>>
  BY DEF Prepares, LookUp, PromoteRefs, RereadRemote, ConfirmPromotion, ArmCreation,
         SendPost, AnswerPost, prRows, prGitHub
<1>2. \A e \in Epochs : /\ epochs'[e].pinned = epochs[e].pinned
                        /\ epochs'[e].state = epochs[e].state
                        /\ epochs'[e].token = epochs[e].token
                        /\ epochs'[e].ack = epochs[e].ack
  <2>1. CASE UNCHANGED epochs
    BY <2>1
  <2>2. CASE ArmCreation(p) /\ ~UNCHANGED epochs
    <3>1. PICK f \in Epochs : epochs' = [epochs EXCEPT ![f].armed = TRUE]
      BY <2>2, AtWork DEF ArmCreation
    <3> QED
      BY <3>1 DEF PrInv, PrTypes, EpochRows
  <2> QED
    BY <2>1, <2>2 DEF Prepares, LookUp, PromoteRefs, RereadRemote, ConfirmPromotion, SendPost,
                      AnswerPost, prRows
<1>3. OpsStay /\ PinsStay /\ \A e \in Epochs : Told(e) => Told(e)'
  BY <1>1, <1>2, RestStays DEF PinsStay
<1>4. PubsHeard'
  BY <1>1, <1>2, <1>3, PreparesHeard, PublisherStepHeard
<1>5. sync.status = "synced" => sync.epoch \in Epochs
  BY DEF HeardInv, SyncHeard, IsHeard
<1>6. SyncHeard'
  BY <1>1, <1>2, <1>3, <1>5, SyncStays DEF HeardInv
<1> QED
  BY <1>4, <1>6 DEF HeardInv

(* What is released is for the same epoch and the same checkpoint. *)
LEMMA ReleasedStays ==
    ASSUME PrInv, NEW o \in Operations,
           NEW status \in {"pending", "succeeded", "terminal", "conflict"},
           ops' = [ops EXCEPT ![o] = Released(@, status)]
    PROVE  \A x \in Operations : ops'[x].epoch = ops[x].epoch /\ ops'[x].gen = ops[x].gen
<1>1. /\ ops \in [Operations -> OpRows]
      /\ Released(ops[o], status).epoch = ops[o].epoch
      /\ Released(ops[o], status).gen = ops[o].gen
  BY DEF Released, OpRows, PrInv, PrTypes
<1> QED
  BY <1>1

(* A step that leaves the session unsynchronised. *)
LEMMA UnsyncedHeard ==
    ASSUME PrInv, HeardInv, NEW p \in Publishers, OthersWait(p), OpsStay, PinsStay,
           UNCHANGED <<pull, unheard>>,
           \A e \in Epochs : epochs'[e].token \in {epochs[e].token, p, NoToken},
           PubHeard(p)', sync'.status # "synced"
    PROVE  HeardInv'
  BY PublisherStepHeard DEF HeardInv, SyncHeard

(* Taking an operation over, or beginning one, is for a session that is not *)
(* synchronised, and knows nothing of a pull request yet.                   *)
LEMMA ClaimHeard == ASSUME PrInv, HeardInv, NEW p \in Publishers, ClaimSync(p) PROVE HeardInv'
<1>1. /\ UNCHANGED <<epochs, prGitHub, hooks>> /\ pubs[p].step = "idle"
      /\ sync.status \in {"pending", "error"} /\ sync \in SyncRow
      /\ pubs \in [Publishers -> PubRows] /\ ops \in [Operations -> OpRows]
  BY DEF ClaimSync, PrInv, PrTypes
<1>2. sync'.status # "synced"
  BY <1>1 DEF ClaimSync, SyncRow
<1>3. pubs[p].pr = "none"
  BY <1>1 DEF HeardInv, PubsHeard, PubHeard
<1>4. OthersWait(p)
  BY <1>1 DEF ClaimSync, OthersWait
<1>5. pubs'[p].pr = "none" /\ pubs'[p].step \in {"idle", "look"}
  <2>1. CASE UNCHANGED pubs
    BY <1>1, <1>3, <2>1
  <2>2. CASE \E o \in Operations : pubs' = [pubs EXCEPT ![p].step = "look", ![p].op = o]
    BY <1>1, <1>3, <2>2 DEF PubRows
  <2> QED
    BY <2>1, <2>2 DEF ClaimSync, UnresolvedOps, FreshOps
<1>6. PubHeard(p)'
  BY <1>5 DEF PubHeard
<1>7. OpsStay
  <2>1. CASE UNCHANGED ops
    BY <2>1, RestStays
  <2>2. CASE \E o \in Operations : ops' = Claimed(p, o)
    BY <1>1, <2>2 DEF Claimed, OpsStay, OpRows
  <2>3. CASE \E o \in FreshOps : \E rec : ops' = [ops EXCEPT ![o] = rec]
    BY <1>1, <2>3 DEF OpsStay, FreshOps, Exists
  <2> QED
    BY <2>1, <2>2, <2>3 DEF ClaimSync, UnresolvedOps
<1> QED
  BY <1>1, <1>2, <1>4, <1>6, <1>7, RestStays, UnsyncedHeard DEF prGitHub

LEMMA ReserveHeard ==
    ASSUME PrInv, HeardInv, NEW p \in Publishers, ReserveObservation(p) PROVE HeardInv'
<1>1. /\ UNCHANGED <<ops, pull, unheard>> /\ pubs[p].step = "reserve"
      /\ pubs \in [Publishers -> PubRows]
  BY DEF ReserveObservation, prGitHub, PrInv, PrTypes
<1>2. PICK e \in Epochs : e = EpochOf(p)
  BY <1>1, AtWork
<1>3. CASE ClaimHolds(p)
  <2>1. /\ epochs' = [epochs EXCEPT ![e].pinned = TRUE, ![e].token = p]
        /\ sync' = [sync EXCEPT !.status = "pending"]
        /\ pubs' = [pubs EXCEPT ![p].step = "observe"]
    BY <1>2, <1>3 DEF ReserveObservation, Continues
  <2>2. epochs \in [Epochs -> EpochRows] /\ sync \in SyncRow
    BY DEF PrInv, PrTypes
  <2>3. /\ \A f \in Epochs \ {e} : epochs'[f] = epochs[f]
        /\ epochs'[e].pinned /\ epochs'[e].token = p
    BY <2>1, <2>2 DEF EpochRows
  <2>4. /\ OthersWait(p) /\ pubs'[p].step = "observe"
        /\ pubs'[p].op = pubs[p].op /\ pubs'[p].pr = pubs[p].pr
    BY <1>1, <2>1 DEF OthersWait, PubRows
  <2>5. OpsStay /\ PinsStay /\ sync'.status # "synced"
    BY <1>1, <2>1, <2>2, <2>3, RestStays DEF PinsStay, SyncRow
  <2>6. EpochOf(p)' = e
    BY <1>1, <1>2, <2>4, <2>5, EpochStays
  <2>7. pubs[p].pr # "none" /\ pull[e].state # "none"
    BY <1>1, <1>2 DEF HeardInv, PubsHeard, PubHeard
  <2>8. PubHeard(p)'
    BY <1>1, <2>3, <2>4, <2>6, <2>7 DEF PubHeard
  <2> QED
    BY <1>1, <2>3, <2>4, <2>5, <2>8, UnsyncedHeard
<1>4. CASE ~ClaimHolds(p)
  <2>1. OthersWait(p) /\ PubHeard(p)' /\ UNCHANGED <<sync, epochs>>
    BY <1>4, ThrownHeard DEF ReserveObservation
  <2>2. OpsStay /\ PinsStay /\ \A f \in Epochs : Told(f) => Told(f)'
    BY <1>1, <2>1, RestStays
  <2>3. PubsHeard'
    BY <1>1, <2>1, <2>2, PublisherStepHeard
  <2>4. SyncHeard'
    BY <2>1, <2>2, SyncStays DEF HeardInv, SyncHeard, IsHeard
  <2> QED
    BY <2>3, <2>4 DEF HeardInv
<1> QED
  BY <1>3, <1>4

(* Steps in which the rows stay as they are. *)
LEMMA QuietHeard ==
    ASSUME PrInv, HeardInv, NEW p \in Publishers, OthersWait(p), PubHeard(p)',
           UNCHANGED <<sync, epochs, ops, pull, unheard>>
    PROVE  HeardInv'
<1>1. OpsStay /\ PinsStay /\ \A f \in Epochs : Told(f) => Told(f)'
  BY RestStays
<1>2. PubsHeard'
  BY <1>1, PublisherStepHeard
<1>3. SyncHeard'
  BY <1>1, SyncStays DEF HeardInv, SyncHeard, IsHeard
<1> QED
  BY <1>2, <1>3 DEF HeardInv

(* A publisher that found the pull request open either sees it open now, or *)
(* reports that it is not: nothing it read is left untold.                  *)
LEMMA ObserveHeard ==
    ASSUME PrInv, HeardInv, NEW p \in Publishers, ObservePull(p) PROVE HeardInv'
<1>1. /\ UNCHANGED <<sync, epochs, ops, pull, unheard>> /\ pubs[p].step = "observe"
      /\ pubs \in [Publishers -> PubRows]
  BY DEF ObservePull, prRows, prGitHub, PrInv, PrTypes
<1>2. PICK e \in Epochs : e = EpochOf(p)
  BY <1>1, AtWork
<1>3. /\ OthersWait(p) /\ pubs'[p].step = "finish" /\ pubs'[p].op = pubs[p].op
      /\ pubs'[p].pr = IF pubs[p].pr = "open" THEN pull[e].state ELSE pubs[p].pr
  BY <1>1, <1>2 DEF ObservePull, OthersWait, PubRows
<1>4. EpochOf(p)' = e
  BY <1>1, <1>2, <1>3, RestStays, EpochStays
<1>5. pubs[p].pr # "none" /\ pull[e].state # "none" /\ epochs[e].pinned
  BY <1>1, <1>2 DEF HeardInv, PubsHeard, PubHeard
<1>6. PubHeard(p)'
  BY <1>1, <1>3, <1>4, <1>5 DEF PubHeard, Told
<1> QED
  BY <1>1, <1>3, <1>6, QuietHeard

(* The receipt: the session is synchronised by an observation that counts.  *)
LEMMA FinishHeard ==
    ASSUME PrInv, HeardInv, NEW p \in Publishers, FinishSync(p) PROVE HeardInv'
<1>1. UNCHANGED <<pull, unheard>> /\ pubs[p].step = "finish"
  BY DEF FinishSync, prGitHub
<1>2. OthersWait(p) /\ PubHeard(p)'
  BY ThrownHeard DEF FinishSync
<1>3. PICK e \in Epochs, o \in Operations :
         e = EpochOf(p) /\ o = pubs[p].op /\ e = ops[o].epoch
  BY <1>1, AtWork DEF EpochOf
<1>4. CASE /\ ClaimHolds(p) /\ TokenHolds(e, p) /\ Receipt(p)
  <2>1. PICK ack \in 0..MaxOperations : ack = IF pubs[p].pr \in Terminal THEN epochs[e].ack
                                                                         ELSE o
    BY PrTyped DEF EpochRows, Operations
  <2>2. /\ epochs \in [Epochs -> EpochRows] /\ ops \in [Operations -> OpRows]
        /\ sync \in SyncRow /\ pubs[p].pr \in PrStates
    BY PrTyped DEF PrInv, PrTypes, PubRows
  <2>3. epochs' = [epochs EXCEPT ![e].state = pubs[p].pr, ![e].token = NoToken, ![e].ack = ack]
    BY <1>3, <1>4, <2>1 DEF Receipt
  <2>4. /\ \A f \in Epochs \ {e} : epochs'[f] = epochs[f]
        /\ epochs'[e].pinned = epochs[e].pinned /\ epochs'[e].state = pubs[p].pr
        /\ epochs'[e].token = NoToken /\ epochs'[e].ack = ack
    BY <2>2, <2>3 DEF EpochRows
  <2>5. \A x \in Operations : ops'[x].epoch = ops[x].epoch /\ ops'[x].gen = ops[x].gen
    <3>1. PICK status \in {"terminal", "succeeded"} :
             ops' = [ops EXCEPT ![o] = Released(@, status)]
      BY <1>3, <1>4 DEF Receipt
    <3> QED
      BY <3>1, ReleasedStays
  <2>6. sync' = [sync EXCEPT !.status = SyncAfter(p)]
    BY <1>4 DEF Receipt
  <2>7. OpsStay /\ PinsStay
    BY <2>4, <2>5 DEF OpsStay, PinsStay
  <2>8. PubsHeard'
    BY <1>1, <1>2, <2>4, <2>7, PublisherStepHeard
  <2>9. ASSUME sync'.status = "synced" PROVE IsHeard(sync.epoch)'
    <3>1. SyncAfter(p) = "synced"
      BY <2>2, <2>6, <2>9 DEF SyncRow
    <3>2. pubs[p].pr \notin Terminal /\ sync.gen = ops[o].gen
      BY <1>3, <3>1 DEF SyncAfter
    <3>3. sync'.epoch = e /\ sync'.gen = sync.gen
      BY <1>3, <1>4, <2>2, <2>6 DEF ClaimHolds, SyncRow
    <3>4. pubs[p].pr = "open" /\ epochs[e].pinned
      BY <1>1, <1>3, <2>2, <3>2 DEF HeardInv, PubsHeard, PubHeard, PrStates, Terminal
    <3>5. Told(e)
      BY <1>1, <1>3, <1>4, <3>4 DEF HeardInv, PubsHeard, PubHeard, TokenHolds
    <3>6. ack = o /\ o # 0
      BY <2>1, <3>2 DEF Operations
    <3> QED
      BY <1>1, <2>4, <2>5, <3>2, <3>3, <3>4, <3>5, <3>6 DEF IsHeard, Told
  <2> QED
    BY <2>8, <2>9 DEF HeardInv, SyncHeard
<1>5. CASE UNCHANGED <<sync, epochs, ops>>
  BY <1>1, <1>2, <1>5, QuietHeard
<1> QED
  BY <1>3, <1>4, <1>5 DEF FinishSync

LEMMA FailHeard == ASSUME PrInv, HeardInv, NEW p \in Publishers, FailSync(p) PROVE HeardInv'
<1>1. UNCHANGED <<pull, unheard>> /\ pubs[p].step = "fail"
  BY DEF FailSync, prGitHub
<1>2. OthersWait(p) /\ PubHeard(p)'
  BY ThrownHeard DEF FailSync
<1>3. CASE ClaimHolds(p)
  <2>1. PICK e \in Epochs, o \in Operations : e = EpochOf(p) /\ o = pubs[p].op
    BY <1>1, AtWork
  <2>2. /\ epochs \in [Epochs -> EpochRows] /\ ops \in [Operations -> OpRows]
        /\ sync \in SyncRow
    BY DEF PrInv, PrTypes
  <2>3. PICK status \in {"conflict", "pending"} : ops' = [ops EXCEPT ![o] = Released(@, status)]
    BY <1>3, <2>1 DEF FailSync
  <2>4. OpsStay
    BY <2>3, ReleasedStays DEF OpsStay
  <2>5. sync'.status # "synced"
    BY <1>3, <2>2 DEF FailSync, SyncRow
  <2>6. UNCHANGED epochs \/ epochs' = [epochs EXCEPT ![e].armed = FALSE]
    BY <1>3, <2>1 DEF FailSync
  <2>7. \A f \in Epochs : epochs'[f].pinned = epochs[f].pinned
                          /\ epochs'[f].token = epochs[f].token
    BY <2>2, <2>6 DEF EpochRows
  <2> QED
    BY <1>1, <1>2, <2>4, <2>5, <2>7, UnsyncedHeard DEF PinsStay
<1>4. CASE ~ClaimHolds(p)
  BY <1>1, <1>2, <1>4, QuietHeard DEF FailSync
<1> QED
  BY <1>3, <1>4

LEMMA CallFailsHeard ==
    ASSUME PrInv, HeardInv, NEW p \in Publishers, CallFails(p) \/ PublisherDies(p)
    PROVE  HeardInv'
  BY ThrownHeard, QuietHeard DEF CallFails, PublisherDies, prRows, prGitHub

LEMMA HeardStep == PrInv /\ HeardInv /\ [CanonicalNext]_prVars => HeardInv'
<1>1. ASSUME PrInv, HeardInv, UNCHANGED prVars PROVE HeardInv'
  BY <1>1, RestStays, OutsideStep DEF prVars, prRows, prGitHub
<1> QED
  BY <1>1, SessionHeard, GitHubHeard, BeginObservationHeard, FinishObservationHeard,
     HookHeard, PreparesInvHeard, ClaimHeard, ReserveHeard, ObserveHeard, FinishHeard,
     FailHeard, CallFailsHeard
     DEF CanonicalNext, PublisherStep, HookStep, Prepares

(* A session counts as synchronised only while its newest checkpoint is     *)
(* acknowledged and nobody has told since that the pull request is not open *)
(* any more: whoever was slow, took over or reported late.                  *)
THEOREM SyncIsHeard == CanonicalSpec => []SyncedIsHeard
<1>1. HeardInv => SyncedIsHeard
  BY DEF HeardInv, SyncHeard, IsHeard, SyncedIsHeard, Told, Epochs
<1> QED
  BY <1>1, HeardStarts, HeardStep, PrInvariance, PTL DEF CanonicalSpec

HIDE CanonicalAssumption

-----------------------------------------------------------------------------
(***************************************************************************)
(* That a session follows the moves of its Linear issue forward and once,  *)
(* for any number of reconcilers, moves, edits, renamings, changes of the  *)
(* routing and changes by others.                                          *)
(*                                                                         *)
(* A reading may be arbitrarily late, but every reading is one of the same *)
(* issue: later moves begin after earlier readings were last edited, and   *)
(* readings of a move agree on when it began.  The receipt is a reading.   *)
(***************************************************************************)

Reading == [span : Nat \ {0}, status : Statuses, started : Nat, updated : Nat]
Sweeps == [step : {"idle", "routing", "observe", "apply"}, fresh : BOOLEAN,
           config : BOOLEAN, saw : SUBSET Reading]
Receipts == [span : Nat, started : Nat, updated : Nat,
             key : {<<>>} \cup (Statuses \X (Targets \cup {NoTarget, Unselected}))]

LinearTypes ==
    /\ issue \in Reading
    /\ routing \in Configurations
    /\ linked \in Sessions
    /\ receipt \in Receipts
    /\ sweeps \in [Reconcilers -> Sweeps]
    /\ \A r \in Reconcilers : sweeps[r].step # "apply" => sweeps[r].saw = {}
    /\ acts \in [span : Nat, flip : BOOLEAN]
    /\ bounds \in [rearmed : SUBSET (Nat \ {0}), rearms : Nat, touches : Nat]

(* What is known of the issue, by somebody. *)
Seen == {issue} \cup UNION {sweeps[r].saw : r \in Reconcilers}

Coherent(o, p) == /\ o.span < p.span => o.updated <= p.started
                  /\ p.span < o.span => p.updated <= o.started
                  /\ o.span = p.span => o.started = p.started

ReadingsAgree ==
    \A o \in Seen : /\ o.started <= o.updated
                    /\ o.updated <= issue.updated /\ o.span <= issue.span
                    /\ o.span = 1 => o.started = 0
                    /\ \A p \in Seen : Coherent(o, p)

ReceiptIsReading ==
    receipt.span # 0 =>
        /\ receipt.started <= receipt.updated
        /\ receipt.updated <= issue.updated /\ receipt.span <= issue.span
        /\ \A o \in Seen : Coherent(receipt, o)

(* While a move keeps its meaning, who would consume it again knows that it *)
(* is consumed.                                                             *)
SameMeaning ==
    \A o, p \in Seen : o.span = p.span /\ o.span \notin bounds.rearmed => o.status = p.status
Knows(o) == receipt.span = o.span /\ o.span \notin bounds.rearmed => receipt.key = Key(o)
MeaningIsConsumed ==
    /\ Knows(issue)
    /\ \A r \in Reconcilers : sweeps[r].config => \A o \in sweeps[r].saw : Knows(o)

LinearInv == /\ LinearTypes /\ ReadingsAgree /\ ReceiptIsReading
             /\ SameMeaning /\ MeaningIsConsumed
             /\ acts.span <= receipt.span

USE LinearAssumption

-----------------------------------------------------------------------------
LEMMA LinearInitInv == LinearInit => LinearInv
<1> SUFFICES ASSUME LinearInit PROVE LinearInv
  OBVIOUS
<1>1. \A r \in Reconcilers : sweeps[r] = IdleSweep /\ sweeps[r].saw = {}
  BY DEF LinearInit, IdleSweep
<1>2. LinearTypes
  BY DEF LinearInit, LinearTypes, Reading, Sweeps, Receipts, Sessions, IdleSweep, NoReceipt
<1>3. Seen = {issue}
  BY <1>1 DEF Seen
<1>4. ReadingsAgree /\ SameMeaning
  BY <1>3 DEF LinearInit, ReadingsAgree, SameMeaning, Coherent
<1>5. ReceiptIsReading /\ MeaningIsConsumed /\ acts.span <= receipt.span
  BY <1>1, <1>3 DEF LinearInit, ReceiptIsReading, MeaningIsConsumed, Knows, NoReceipt
<1> QED
  BY <1>2, <1>4, <1>5 DEF LinearInv

(* How one reconciler's sweep may go on while the receipt stays. *)
Goes(r) == /\ sweeps'[r] \in Sweeps
           /\ sweeps'[r].step # "apply" => sweeps'[r].saw = {}
           /\ \/ sweeps'[r].saw = {}
              \/ sweeps'[r].saw = {issue}
              \/ sweeps'[r].saw = sweeps[r].saw /\ (sweeps'[r].config => sweeps[r].config)

SweepsGo == /\ sweeps' \in [Reconcilers -> Sweeps]
            /\ \A r \in Reconcilers : Goes(r)

LEMMA SeenShrinks ==
    ASSUME SweepsGo, issue' = issue
    PROVE  Seen' \subseteq Seen
  BY DEF SweepsGo, Goes, Seen

LEMMA ReadersKeepInv ==
    ASSUME LinearInv, SweepsGo, UNCHANGED <<issue, routing, receipt, acts>>,
           linked' \in Sessions, bounds'.rearmed = bounds.rearmed,
           bounds' \in [rearmed : SUBSET (Nat \ {0}), rearms : Nat, touches : Nat]
    PROVE  LinearInv'
<1>1. Seen' \subseteq Seen
  BY SeenShrinks
<1>2. LinearTypes'
  BY DEF LinearInv, LinearTypes, SweepsGo, Goes
<1>3. ReadingsAgree' /\ ReceiptIsReading' /\ SameMeaning'
  BY <1>1 DEF LinearInv, ReadingsAgree, ReceiptIsReading, SameMeaning, Coherent
<1>4. \A o : Knows(o)' <=> Knows(o)
  BY DEF Knows, Key, Target
<1>5. MeaningIsConsumed'
  BY <1>4 DEF LinearInv, MeaningIsConsumed, SweepsGo, Goes
<1> QED
  BY <1>2, <1>3, <1>5 DEF LinearInv

-----------------------------------------------------------------------------
(* Steps of Linear and of other people *)

(* The issue's timestamps only grow, and a new move is later than all that  *)
(* was read.                                                                *)
LEMMA IssueMovesInv == ASSUME LinearInv, IssueMoves PROVE LinearInv'
<1>1. PICK s \in Statuses, t \in {issue.updated, issue.updated + 1} :
        issue' = [span |-> issue.span + 1, status |-> s, started |-> t, updated |-> t]
  BY DEF IssueMoves
<1>2. /\ issue'.span = issue.span + 1 /\ issue'.started = t /\ issue'.updated = t
      /\ issue' \in Reading /\ t \in Nat /\ t >= issue.updated
      /\ issue.span \in Nat \ {0} /\ issue.started \in Nat /\ issue.updated \in Nat
  BY <1>1 DEF LinearInv, LinearTypes, Reading
<1>3. LinearTypes'
  BY <1>2 DEF LinearInv, LinearTypes, IssueMoves
<1>4. Seen' \subseteq Seen \cup {issue'} /\ issue \in Seen
  BY DEF IssueMoves, Seen
<1>5. \A o \in Seen : /\ o \in Reading /\ o.span <= issue.span /\ o.started <= o.updated
                      /\ o.updated <= issue.updated /\ Coherent(o, issue)
  BY <1>4 DEF LinearInv, LinearTypes, ReadingsAgree, Seen, Sweeps
<1>6. \A o \in Seen : o.span < issue'.span /\ o.updated <= issue'.started
  BY <1>2, <1>5 DEF Coherent, Reading
<1>7. \A o \in Seen : Coherent(o, issue') /\ Coherent(issue', o)
  BY <1>2, <1>5, <1>6 DEF Coherent, Reading
<1>8. ReadingsAgree'
  <2>1. \A o \in Seen' : \A p \in Seen' : Coherent(o, p)
    BY <1>2, <1>4, <1>7 DEF LinearInv, ReadingsAgree, Coherent, Reading
  <2>2. \A o \in Seen' : /\ o.started <= o.updated /\ o.span <= issue'.span
                         /\ o.updated <= issue'.updated
                         /\ o.span = 1 => o.started = 0
    BY <1>2, <1>4, <1>5, <1>6 DEF LinearInv, ReadingsAgree, Reading
  <2> QED
    BY <2>1, <2>2 DEF ReadingsAgree, Coherent
<1>9. receipt \in Receipts /\ receipt' = receipt
  BY DEF LinearInv, LinearTypes, IssueMoves
<1>10. ReceiptIsReading'
  <2> SUFFICES ASSUME receipt.span # 0
               PROVE  /\ receipt.started <= receipt.updated /\ receipt.span <= issue'.span
                      /\ receipt.updated <= issue'.updated
                      /\ \A o \in Seen' : Coherent(receipt, o)
    BY <1>9 DEF ReceiptIsReading, Coherent
  <2>1. /\ receipt.started <= receipt.updated /\ receipt.span <= issue.span
        /\ receipt.updated <= issue.updated
        /\ \A o \in Seen : Coherent(receipt, o)
    BY DEF LinearInv, ReceiptIsReading
  <2>2. Coherent(receipt, issue')
    BY <1>2, <1>4, <1>5, <1>9, <2>1 DEF Coherent, Receipts, Reading
  <2> QED
    BY <1>2, <1>4, <1>9, <2>1, <2>2 DEF Receipts
<1>11. SameMeaning'
  BY <1>2, <1>4, <1>6 DEF LinearInv, SameMeaning, IssueMoves, Reading
<1>12. \A o : Knows(o)' <=> Knows(o)
  BY DEF Knows, Key, Target, IssueMoves
<1>13. receipt.span <= issue.span
  BY <1>2, <1>9 DEF LinearInv, ReceiptIsReading, Receipts
<1>14. Knows(issue')
  BY <1>2, <1>9, <1>13 DEF Knows, Receipts
<1>15. MeaningIsConsumed'
  BY <1>12, <1>14 DEF LinearInv, MeaningIsConsumed, IssueMoves
<1> QED
  BY <1>3, <1>8, <1>10, <1>11, <1>15 DEF LinearInv, IssueMoves

LEMMA IssueIsEditedInv == ASSUME LinearInv, IssueIsEdited PROVE LinearInv'
<1>1. /\ issue \in Reading /\ issue' = [issue EXCEPT !.updated = @ + 1]
      /\ issue.span \in Nat \ {0} /\ issue.started \in Nat /\ issue.updated \in Nat
  BY DEF LinearInv, LinearTypes, Reading, IssueIsEdited
<1>2. /\ issue' \in Reading /\ issue'.span = issue.span /\ issue'.started = issue.started
      /\ issue'.updated = issue.updated + 1 /\ issue'.status = issue.status
  BY <1>1 DEF Reading
<1>3. LinearTypes'
  BY <1>2 DEF LinearInv, LinearTypes, IssueIsEdited
<1>4. Seen' \subseteq Seen \cup {issue'} /\ issue \in Seen
  BY DEF IssueIsEdited, Seen
<1>5. \A o \in Seen : /\ o \in Reading /\ o.span <= issue.span
                      /\ o.updated <= issue.updated /\ Coherent(o, issue)
  BY <1>4 DEF LinearInv, LinearTypes, ReadingsAgree, Seen, Sweeps
<1>6. \A o \in Seen : Coherent(o, issue') /\ Coherent(issue', o)
  BY <1>1, <1>2, <1>5 DEF Coherent, Reading
<1>7. ReadingsAgree'
  <2>1. \A o \in Seen' : \A p \in Seen' : Coherent(o, p)
    BY <1>2, <1>4, <1>6 DEF LinearInv, ReadingsAgree, Coherent, Reading
  <2>2. \A o \in Seen' : /\ o.started <= o.updated /\ o.span <= issue'.span
                         /\ o.updated <= issue'.updated
                         /\ o.span = 1 => o.started = 0
    BY <1>1, <1>2, <1>4, <1>5 DEF LinearInv, ReadingsAgree, Reading
  <2> QED
    BY <2>1, <2>2 DEF ReadingsAgree, Coherent
<1>8. receipt \in Receipts /\ receipt' = receipt
  BY DEF LinearInv, LinearTypes, IssueIsEdited
<1>9. ReceiptIsReading'
  <2> SUFFICES ASSUME receipt.span # 0
               PROVE  /\ receipt.started <= receipt.updated /\ receipt.span <= issue'.span
                      /\ receipt.updated <= issue'.updated
                      /\ \A o \in Seen' : Coherent(receipt, o)
    BY <1>8 DEF ReceiptIsReading, Coherent
  <2>1. /\ receipt.started <= receipt.updated /\ receipt.span <= issue.span
        /\ receipt.updated <= issue.updated
        /\ \A o \in Seen : Coherent(receipt, o)
    BY DEF LinearInv, ReceiptIsReading
  <2>2. Coherent(receipt, issue')
    BY <1>1, <1>2, <1>4, <1>8, <2>1 DEF Coherent, Receipts
  <2> QED
    BY <1>1, <1>2, <1>4, <1>8, <2>1, <2>2 DEF Receipts
<1>10. SameMeaning'
  BY <1>2, <1>4 DEF LinearInv, SameMeaning, IssueIsEdited
<1>11. \A o : Knows(o)' <=> Knows(o)
  BY DEF Knows, Key, Target, IssueIsEdited
<1>12. Knows(issue')
  BY <1>2 DEF LinearInv, MeaningIsConsumed, Knows, Key, Target
<1>13. MeaningIsConsumed'
  BY <1>11, <1>12 DEF LinearInv, MeaningIsConsumed, IssueIsEdited
<1> QED
  BY <1>3, <1>7, <1>9, <1>10, <1>13 DEF LinearInv, IssueIsEdited

(* A meaning that changes is that of the open move. *)
LEMMA RearmedTypes ==
    ASSUME LinearTypes, Rearmed
    PROVE  /\ bounds' \in [rearmed : SUBSET (Nat \ {0}), rearms : Nat, touches : Nat]
           /\ bounds'.rearmed = bounds.rearmed \cup {issue.span}
<1>1. /\ bounds \in [rearmed : SUBSET (Nat \ {0}), rearms : Nat, touches : Nat]
      /\ issue.span \in Nat \ {0}
  BY DEF LinearTypes, Reading
<1>2. bounds' = [bounds EXCEPT !.rearms = bounds.rearms + 1,
                               !.rearmed = bounds.rearmed \cup {issue.span}]
  BY DEF Rearmed
<1>3. bounds' = [rearmed |-> bounds.rearmed \cup {issue.span},
                 rearms |-> bounds.rearms + 1, touches |-> bounds.touches]
  BY <1>1, <1>2
<1> QED
  BY <1>1, <1>3

LEMMA StateIsRenamedInv == ASSUME LinearInv, StateIsRenamed PROVE LinearInv'
<1>1. PICK s \in Statuses : issue' = [issue EXCEPT !.status = s]
  BY DEF StateIsRenamed
<1>2. /\ issue \in Reading /\ issue' \in Reading /\ issue'.span = issue.span
      /\ issue'.started = issue.started /\ issue'.updated = issue.updated
  BY <1>1 DEF LinearInv, LinearTypes, Reading
<1>3. /\ bounds' \in [rearmed : SUBSET (Nat \ {0}), rearms : Nat, touches : Nat]
      /\ bounds'.rearmed = bounds.rearmed \cup {issue.span}
  BY RearmedTypes DEF LinearInv, StateIsRenamed
<1>4. LinearTypes'
  BY <1>2, <1>3 DEF LinearInv, LinearTypes, StateIsRenamed
<1>5. Seen' \subseteq Seen \cup {issue'} /\ issue \in Seen
  BY DEF StateIsRenamed, Seen
<1>6. ReadingsAgree'
  BY <1>2, <1>5 DEF LinearInv, ReadingsAgree, Coherent
<1>7. ReceiptIsReading'
  BY <1>2, <1>5 DEF LinearInv, ReceiptIsReading, Coherent, StateIsRenamed
<1>8. SameMeaning'
  BY <1>2, <1>3, <1>5 DEF LinearInv, SameMeaning
<1>9. \A o : Knows(o) => Knows(o)'
  BY <1>3 DEF Knows, Key, Target, StateIsRenamed
<1>10. Knows(issue)'
  BY <1>2, <1>3 DEF Knows
<1>11. MeaningIsConsumed'
  BY <1>9, <1>10 DEF LinearInv, MeaningIsConsumed, StateIsRenamed
<1> QED
  BY <1>4, <1>6, <1>7, <1>8, <1>11 DEF LinearInv, StateIsRenamed

LEMMA RoutingChangesInv == ASSUME LinearInv, RoutingChanges PROVE LinearInv'
<1>1. /\ bounds' \in [rearmed : SUBSET (Nat \ {0}), rearms : Nat, touches : Nat]
      /\ bounds'.rearmed = bounds.rearmed \cup {issue.span}
  BY RearmedTypes DEF LinearInv, RoutingChanges
<1>2. \A r \in Reconcilers : /\ sweeps'[r] \in Sweeps /\ sweeps'[r].saw = sweeps[r].saw
                             /\ sweeps'[r].step = sweeps[r].step /\ ~sweeps'[r].config
  <2> TAKE r \in Reconcilers
  <2>1. sweeps[r] \in Sweeps /\ sweeps'[r] = [sweeps[r] EXCEPT !.config = FALSE]
    BY DEF LinearInv, LinearTypes, RoutingChanges
  <2> QED
    BY <2>1 DEF Sweeps
<1>3. LinearTypes'
  BY <1>1, <1>2 DEF LinearInv, LinearTypes, RoutingChanges
<1>4. Seen' = Seen
  BY <1>2 DEF RoutingChanges, Seen
<1>5. ReadingsAgree' /\ ReceiptIsReading'
  BY <1>4 DEF LinearInv, ReadingsAgree, ReceiptIsReading, Coherent, RoutingChanges
<1>6. SameMeaning'
  BY <1>1, <1>4 DEF LinearInv, SameMeaning
<1>7. MeaningIsConsumed'
  BY <1>1, <1>2 DEF MeaningIsConsumed, Knows, RoutingChanges
<1> QED
  BY <1>3, <1>5, <1>6, <1>7 DEF LinearInv, RoutingChanges

(* Snapshots of the session may end meanwhile, and one sweep with them.     *)
LEMMA TouchedGo ==
    ASSUME LinearInv, NEW Q,
           sweeps' = [q \in Reconcilers |-> IF q \in Q THEN IdleSweep
                                            ELSE [sweeps[q] EXCEPT !.fresh = FALSE]]
    PROVE  SweepsGo
<1>1. IdleSweep \in Sweeps /\ IdleSweep.saw = {}
  BY DEF IdleSweep, Sweeps
<1>2. ASSUME NEW q \in Reconcilers PROVE Goes(q)
  <2>1. sweeps[q] \in Sweeps /\ (sweeps[q].step # "apply" => sweeps[q].saw = {})
    BY DEF LinearInv, LinearTypes
  <2>2. CASE q \in Q
    BY <1>1, <2>2 DEF Goes
  <2>3. CASE q \notin Q
    <3>1. sweeps'[q] = [sweeps[q] EXCEPT !.fresh = FALSE]
      BY <2>3
    <3> QED
      BY <2>1, <3>1 DEF Goes, Sweeps
  <2> QED
    BY <2>2, <2>3
<1> QED
  BY <1>2 DEF SweepsGo, Goes

(* Or one sweep goes on, and the others as they are. *)
LEMMA OneGoes ==
    ASSUME LinearInv, NEW r \in Reconcilers, NEW s \in Sweeps,
           s.step # "apply" => s.saw = {}, s.saw \in {{}, {issue}},
           sweeps' = [sweeps EXCEPT ![r] = s]
    PROVE  SweepsGo
<1>1. ASSUME NEW q \in Reconcilers PROVE Goes(q)
  <2>1. sweeps[q] \in Sweeps /\ (sweeps[q].step # "apply" => sweeps[q].saw = {})
    BY DEF LinearInv, LinearTypes
  <2>2. CASE q = r
    BY <2>2 DEF Goes, LinearInv, LinearTypes
  <2>3. CASE q # r
    BY <2>1, <2>3 DEF Goes, LinearInv, LinearTypes
  <2> QED
    BY <2>2, <2>3
<1> QED
  BY <1>1 DEF SweepsGo, Goes, LinearInv, LinearTypes

LEMMA LocalChangeInv == ASSUME LinearInv, LocalChange PROVE LinearInv'
<1>1. SweepsGo
  <2>1. sweeps' = [q \in Reconcilers |-> IF q \in {} THEN IdleSweep
                                         ELSE [sweeps[q] EXCEPT !.fresh = FALSE]]
    BY DEF LocalChange, Touched
  <2> QED
    BY <2>1, TouchedGo
<1>2. /\ bounds' \in [rearmed : SUBSET (Nat \ {0}), rearms : Nat, touches : Nat]
      /\ bounds'.rearmed = bounds.rearmed /\ linked' \in Sessions
  BY DEF LinearInv, LinearTypes, LocalChange
<1> QED
  BY <1>1, <1>2, ReadersKeepInv DEF LocalChange

-----------------------------------------------------------------------------
(* Steps of a reconciler *)

LEMMA ReadsInv ==
    ASSUME LinearInv, NEW r \in Reconcilers,
           ListSessions(r) \/ LoadRouting(r) \/ ObserveIssue(r) \/ SweepFails(r)
    PROVE  LinearInv'
<1>1. SweepsGo
  <2>1. /\ sweeps \in [Reconcilers -> Sweeps] /\ sweeps[r] \in Sweeps /\ issue \in Reading
        /\ sweeps[r].step # "apply" => sweeps[r].saw = {}
    BY DEF LinearInv, LinearTypes
  <2>2. CASE ListSessions(r)
    <3> DEFINE s == [IdleSweep EXCEPT !.step = "routing", !.fresh = TRUE]
    <3>1. s \in Sweeps /\ s.step # "apply" /\ s.saw = {}
      BY DEF IdleSweep, Sweeps
    <3> QED
      BY <2>2, <3>1, OneGoes DEF ListSessions
  <2>3. CASE LoadRouting(r)
    <3> DEFINE s == [sweeps[r] EXCEPT !.step = "observe", !.config = TRUE]
    <3>1. s \in Sweeps /\ s.step # "apply" /\ s.saw = {}
      BY <2>1, <2>3 DEF LoadRouting, Sweeps
    <3>2. sweeps' = [sweeps EXCEPT ![r] = s]
      BY <2>3 DEF LoadRouting
    <3> QED
      BY <3>1, <3>2, OneGoes
  <2>4. CASE ObserveIssue(r)
    <3> DEFINE s == [sweeps[r] EXCEPT !.step = "apply", !.saw = {issue}]
    <3>1. s \in Sweeps /\ s.step = "apply" /\ s.saw = {issue}
      BY <2>1 DEF Sweeps
    <3>2. sweeps' = [sweeps EXCEPT ![r] = s]
      BY <2>4 DEF ObserveIssue
    <3> QED
      BY <3>1, <3>2, OneGoes
  <2>5. CASE SweepFails(r)
    <3>1. IdleSweep \in Sweeps /\ IdleSweep.saw = {}
      BY DEF IdleSweep, Sweeps
    <3> QED
      BY <2>5, <3>1, OneGoes DEF SweepFails, Returns
  <2> QED
    BY <2>2, <2>3, <2>4, <2>5
<1>2. UNCHANGED <<issue, routing, linked, receipt, acts, bounds>>
  BY DEF ListSessions, LoadRouting, ObserveIssue, SweepFails
<1>3. linked' \in Sessions /\ bounds' \in [rearmed : SUBSET (Nat \ {0}), rearms : Nat, touches : Nat]
  BY <1>2 DEF LinearInv, LinearTypes
<1> QED
  BY <1>1, <1>2, <1>3, ReadersKeepInv

(* Both ways to return are sweeps that go on. *)
LEMMA ReturnsGo ==
    ASSUME LinearInv, NEW r \in Reconcilers, sweeps' \in {Returns(r), ReturnsTouching(r)}
    PROVE  SweepsGo
<1>1. CASE sweeps' = Returns(r)
  <2>1. IdleSweep \in Sweeps /\ IdleSweep.saw = {}
    BY DEF IdleSweep, Sweeps
  <2> QED
    BY <1>1, <2>1, OneGoes DEF Returns
<1>2. CASE sweeps' = ReturnsTouching(r)
  <2>1. sweeps' = [q \in Reconcilers |-> IF q \in {r} THEN IdleSweep
                                         ELSE [sweeps[q] EXCEPT !.fresh = FALSE]]
    BY <1>2 DEF ReturnsTouching
  <2> QED
    BY <2>1, TouchedGo
<1> QED
  BY <1>1, <1>2

Noted(o) == [span |-> o.span, started |-> o.started, updated |-> o.updated, key |-> Key(o)]

(* What the branches of the function have in common. *)
Outcome(r, o) ==
    /\ sweeps' \in {Returns(r), ReturnsTouching(r)}
    /\ linked' \in Sessions
    /\ UNCHANGED <<issue, routing, bounds>>
    /\ \/ UNCHANGED <<receipt, acts>>
       \/ /\ ~Stale(r, o) /\ receipt' = Noted(o)
          /\ \/ UNCHANGED acts
             \/ /\ ~Consumed(o) /\ Acts(o)
                /\ linked'.archived \/ ~FirstSight(o)

LEMMA TransitionOutcome ==
    ASSUME LinearInv, NEW r \in Reconcilers, Transition(r)
    PROVE  \E o \in sweeps[r].saw : Outcome(r, o)
<1>1. UNCHANGED <<issue, routing, bounds>> /\ linked \in Sessions
  BY DEF Transition, LinearInv, LinearTypes
<1>2. PICK o \in sweeps[r].saw :
        IF linked.exhausted /\ (o.status = "rework" \/ ContinuesWork(o))
        THEN sweeps' = Returns(r) /\ UNCHANGED <<linked, receipt, acts>>
        ELSE Applies(r, o)
  BY DEF Transition
<1>3. CASE ~Applies(r, o)
  BY <1>1, <1>2, <1>3 DEF Outcome
<1>4. CASE Applies(r, o)
  <2>1. CASE Stale(r, o)
    BY <1>1, <1>4, <2>1 DEF Applies, Outcome
  <2>2. CASE ~Stale(r, o) /\ Consumed(o)
    <3>1. /\ receipt' = [receipt EXCEPT !.updated = o.updated]
          /\ sweeps' = Returns(r) /\ UNCHANGED <<linked, acts>>
      BY <1>4, <2>2 DEF Applies
    <3>2. o \in Seen /\ o \in Reading /\ receipt \in Receipts
      BY DEF Seen, LinearInv, LinearTypes, Sweeps
    <3>3. receipt.span = o.span /\ receipt.key = Key(o) /\ receipt.span # 0
      BY <2>2, <3>2 DEF Consumed, Reading
    <3>4. receipt.started = o.started
      BY <3>2, <3>3 DEF LinearInv, ReceiptIsReading, Coherent
    <3>5. receipt' = Noted(o)
      BY <3>1, <3>2, <3>3, <3>4 DEF Noted, Receipts
    <3> QED
      BY <1>1, <2>2, <3>1, <3>5 DEF Outcome
  <2>3. CASE /\ ~Stale(r, o) /\ ~Consumed(o)
             /\ MissesTarget(o) \/ (linked.archived /\ RoutesTo(o))
    BY <1>1, <1>4, <2>3 DEF Applies, Outcome
  <2>4. CASE /\ ~Stale(r, o) /\ ~Consumed(o)
             /\ ~(MissesTarget(o) \/ (linked.archived /\ RoutesTo(o)))
    <3>1. receipt' = Noted(o)
      BY <1>4, <2>4 DEF Applies, Record, Noted
    <3>2. CASE Exhausts(r, o)
      BY <1>1, <2>4, <3>1, <3>2 DEF Exhausts, Outcome, Sessions
    <3>3. CASE Archives(r, o)
      BY <1>1, <2>4, <3>1, <3>3 DEF Archives, Outcome, Sessions
    <3>4. CASE RoutesSession(r, o)
      BY <1>1, <2>4, <3>1, <3>4 DEF RoutesSession, Outcome, Sessions
    <3>5. CASE ContinuesSession(r, o)
      BY <1>1, <2>4, <3>1, <3>5 DEF ContinuesSession, Outcome, Sessions
    <3>6. CASE Observes(r, o)
      BY <1>1, <2>4, <3>1, <3>6 DEF Observes, Outcome
    <3> QED
      BY <1>4, <2>4, <3>2, <3>3, <3>4, <3>5, <3>6 DEF Applies
  <2> QED
    BY <2>1, <2>2, <2>3, <2>4
<1> QED
  BY <1>3, <1>4

(* A reading that is not behind is of no earlier move than the receipt. *)
LEMMA ConsumedForward ==
    ASSUME LinearInv, NEW r \in Reconcilers, NEW o \in sweeps[r].saw, ~Stale(r, o)
    PROVE  /\ o \in Seen /\ o \in Reading /\ sweeps[r].config
           /\ o.span >= receipt.span
           /\ receipt.span = o.span => receipt.updated <= o.updated
<1>1. o \in Seen /\ o \in Reading /\ receipt \in Receipts
  BY DEF Seen, LinearInv, LinearTypes, Sweeps
<1>2. sweeps[r].config /\ ~Behind(o)
  BY DEF Stale
<1>3. CASE receipt.span = 0
  BY <1>1, <1>2, <1>3 DEF Reading
<1>4. CASE receipt.span # 0
  <2>1. /\ receipt.started <= receipt.updated
        /\ Coherent(receipt, o) /\ o.started <= o.updated
    BY <1>1, <1>4 DEF LinearInv, ReceiptIsReading, ReadingsAgree
  <2>2. ~(o.span < receipt.span)
    <3> SUFFICES ASSUME o.span < receipt.span PROVE FALSE
      OBVIOUS
    <3>1. o.updated <= receipt.started
      BY <1>1, <2>1 DEF Coherent
    <3>2. o.started <= receipt.started /\ o.updated <= receipt.updated
      BY <1>1, <2>1, <3>1 DEF Reading, Receipts
    <3>3. o.span # receipt.span
      BY <1>1 DEF Reading, Receipts
    <3> QED
      BY <1>1, <1>2, <1>4, <3>2, <3>3 DEF Behind, Reading, Receipts
  <2>3. ~(o.updated < receipt.updated)
    BY <1>2, <1>4 DEF Behind
  <2> QED
    BY <1>1, <1>2, <2>2, <2>3 DEF Reading, Receipts
<1> QED
  BY <1>3, <1>4

LEMMA OutcomeInv ==
    ASSUME LinearInv, NEW r \in Reconcilers, NEW o \in sweeps[r].saw, Outcome(r, o)
    PROVE  LinearInv'
<1>1. SweepsGo
  BY ReturnsGo DEF Outcome
<1>2. /\ UNCHANGED <<issue, routing, bounds>> /\ linked' \in Sessions
      /\ bounds \in [rearmed : SUBSET (Nat \ {0}), rearms : Nat, touches : Nat]
  BY DEF Outcome, LinearInv, LinearTypes
<1>3. CASE UNCHANGED <<receipt, acts>>
  BY <1>1, <1>2, <1>3, ReadersKeepInv
<1>4. CASE /\ ~Stale(r, o) /\ receipt' = Noted(o)
           /\ UNCHANGED acts \/ Acts(o)
  <2>1. /\ o \in Seen /\ o \in Reading /\ sweeps[r].config /\ o.span >= receipt.span
        /\ o.span \in Nat \ {0}
    BY <1>4, ConsumedForward DEF Reading
  <2>2. /\ receipt'.span = o.span /\ receipt'.started = o.started
        /\ receipt'.updated = o.updated /\ receipt'.key = Key(o)
    BY <1>4 DEF Noted
  <2>3. Seen' \subseteq Seen
    BY <1>1, <1>2, SeenShrinks
  <2>4. Key(o) \in Statuses \X (Targets \cup {NoTarget, Unselected})
    BY <2>1 DEF Key, Target, Reading, LinearInv, LinearTypes
  <2>5. receipt' \in Receipts
    BY <1>4, <2>1, <2>4 DEF Noted, Receipts, Reading
  <2>6. acts' \in [span : Nat, flip : BOOLEAN]
    <3>1. acts \in [span : Nat, flip : BOOLEAN]
      BY DEF LinearInv, LinearTypes
    <3>2. CASE Acts(o)
      <4>1. acts' = [span |-> o.span, flip |-> ~acts.flip]
        BY <3>2 DEF Acts
      <4>2. o.span \in Nat /\ (~acts.flip) \in BOOLEAN
        BY <2>1, <3>1
      <4> QED
        BY <4>1, <4>2, Zenon
    <3> QED
      BY <1>4, <3>1, <3>2
  <2>7. LinearTypes'
    BY <1>1, <1>2, <2>5, <2>6 DEF LinearInv, LinearTypes, SweepsGo, Goes
  <2>8. ReadingsAgree' /\ SameMeaning'
    BY <1>2, <2>3 DEF LinearInv, ReadingsAgree, SameMeaning, Coherent
  <2>9. ReceiptIsReading'
    BY <1>2, <2>1, <2>2, <2>3 DEF LinearInv, ReadingsAgree, ReceiptIsReading, Coherent
  <2>10. ASSUME NEW p \in Seen PROVE Knows(p)'
    <3>1. p.span = o.span /\ p.span \notin bounds.rearmed => p.status = o.status
      BY <2>1 DEF LinearInv, SameMeaning
    <3> QED
      BY <1>2, <2>2, <3>1 DEF Knows, Key, Target
  <2>11. MeaningIsConsumed'
    BY <1>2, <2>3, <2>10 DEF MeaningIsConsumed, Seen, Knows, Key, Target
  <2>12. acts'.span <= receipt'.span
    <3>1. acts.span \in Nat /\ receipt.span \in Nat /\ acts.span <= receipt.span
      BY DEF LinearInv, LinearTypes, Receipts
    <3> QED
      BY <1>4, <2>1, <2>2, <3>1 DEF Acts
  <2> QED
    BY <2>7, <2>8, <2>9, <2>11, <2>12 DEF LinearInv
<1> QED
  BY <1>3, <1>4 DEF Outcome

LEMMA LinearNextInv == ASSUME LinearInv, [LinearNext]_linearVars PROVE LinearInv'
<1>1. CASE UNCHANGED linearVars
  <2>1. \A o : Knows(o)' <=> Knows(o)
    BY <1>1 DEF linearVars, Knows, Key, Target
  <2> QED
    BY <1>1, <2>1 DEF linearVars, LinearInv, LinearTypes, ReadingsAgree, ReceiptIsReading,
       SameMeaning, MeaningIsConsumed, Seen, Coherent
<1>2. CASE OthersMove
  BY <1>2, IssueMovesInv, IssueIsEditedInv, StateIsRenamedInv, RoutingChangesInv,
     LocalChangeInv DEF OthersMove
<1>3. ASSUME NEW r \in Reconcilers, Reconciles(r) PROVE LinearInv'
  BY <1>3, ReadsInv, TransitionOutcome, OutcomeInv DEF Reconciles
<1> QED
  BY <1>1, <1>2, <1>3 DEF LinearNext

-----------------------------------------------------------------------------
(* What a step may do *)

Forward ==
    /\ receipt'.span >= receipt.span
    /\ acts'.flip # acts.flip =>
          /\ acts'.span = receipt'.span
          /\ acts'.span > acts.span \/ acts'.span \in bounds.rearmed
          /\ acts'.span = 1 => linked'.archived \/ receipt.span = 1

LEMMA OutcomeIsForward ==
    ASSUME LinearInv, NEW r \in Reconcilers, NEW o \in sweeps[r].saw, Outcome(r, o)
    PROVE  Forward
<1>0. receipt.span \in Nat /\ acts.span \in Nat /\ acts.span <= receipt.span
  BY DEF LinearInv, LinearTypes, Receipts
<1>1. CASE UNCHANGED <<receipt, acts>>
  BY <1>0, <1>1 DEF Forward
<1>2. CASE ~Stale(r, o) /\ receipt' = Noted(o) /\ UNCHANGED acts
  BY <1>0, <1>2, ConsumedForward DEF Forward, Noted
<1>3. CASE /\ ~Stale(r, o) /\ receipt' = Noted(o) /\ ~Consumed(o) /\ Acts(o)
           /\ linked'.archived \/ ~FirstSight(o)
  <2>1. /\ o \in Seen /\ o.span \in Nat \ {0} /\ sweeps[r].config /\ o.span >= receipt.span
        /\ o.started \in Nat
    BY <1>3, ConsumedForward DEF Reading
  <2>2. receipt'.span = o.span /\ acts'.span = o.span
    BY <1>3 DEF Noted, Acts
  <2>3. o.span > acts.span \/ o.span \in bounds.rearmed
    <3> SUFFICES ASSUME ~(o.span > acts.span) PROVE o.span \in bounds.rearmed
      OBVIOUS
    <3>1. receipt.span = o.span
      BY <1>0, <2>1
    <3>2. Knows(o)
      BY <2>1 DEF LinearInv, MeaningIsConsumed
    <3> QED
      BY <1>3, <3>1, <3>2 DEF Knows, Consumed
  <2>4. o.span = 1 => linked'.archived \/ receipt.span = 1
    <3> SUFFICES ASSUME o.span = 1, ~FirstSight(o) PROVE receipt.span = 1
      BY <1>3
    <3>1. o.started = 0
      BY <2>1 DEF LinearInv, ReadingsAgree
    <3>2. receipt.span # 0
      BY <3>1 DEF FirstSight
    <3> QED
      BY <1>0, <2>1, <3>2
  <2> QED
    BY <2>1, <2>2, <2>3, <2>4 DEF Forward
<1> QED
  BY <1>1, <1>2, <1>3 DEF Outcome

LEMMA StepIsForward == ASSUME LinearInv, [LinearNext]_linearVars PROVE Forward \/ UNCHANGED linearVars
<1>0. receipt.span \in Nat
  BY DEF LinearInv, LinearTypes, Receipts
<1>1. CASE UNCHANGED <<receipt, acts>>
  BY <1>0, <1>1 DEF Forward
<1>2. ASSUME NEW r \in Reconcilers, Transition(r) PROVE Forward
  BY <1>2, TransitionOutcome, OutcomeIsForward
<1>3. OthersMove => UNCHANGED <<receipt, acts>>
  BY DEF OthersMove, IssueMoves, IssueIsEdited, StateIsRenamed, RoutingChanges, LocalChange
<1>4. \A r \in Reconcilers : Reconciles(r) => UNCHANGED <<receipt, acts>> \/ Transition(r)
  BY DEF Reconciles, ListSessions, LoadRouting, ObserveIssue, SweepFails
<1> QED
  BY <1>1, <1>2, <1>3, <1>4 DEF LinearNext, linearVars

(* The session follows its issue forward, and a move acts once while its    *)
(* meaning lasts, for any number of reconcilers and moves: however late a   *)
(* reading is applied (apply_linear_session_transition).                    *)
THEOREM IssuesMoveSessionsOnce == LinearSpec => MovesActOnce
<1>1. LinearInit => LinearInv
  BY LinearInitInv
<1>2. LinearInv /\ [LinearNext]_linearVars => LinearInv'
  BY LinearNextInv
<1>3. LinearInv /\ [LinearNext]_linearVars =>
        [/\ receipt'.span >= receipt.span
         /\ acts'.flip # acts.flip =>
               /\ acts'.span = receipt'.span
               /\ acts'.span > acts.span \/ acts'.span \in bounds.rearmed
               /\ acts'.span = 1 => linked'.archived \/ receipt.span = 1]_linearVars
  BY StepIsForward DEF Forward
<1> QED
  BY <1>1, <1>2, <1>3, PTL DEF LinearSpec, MovesActOnce

HIDE LinearAssumption

-----------------------------------------------------------------------------
(***************************************************************************)
(* What holds of all of it in one worker: a behaviour of WorkerServices is *)
(* one of each service, so the theorems above are about it as well.        *)
(***************************************************************************)

LEMMA ServicesStep == [ServicesNext]_servicesVars =>
                         /\ [Next]_vars /\ [CanonicalNext]_prVars
                         /\ [LinearNext]_linearVars
  BY DEF ServicesNext, servicesVars

THEOREM ServicesAreServices == ServicesSpec => Spec /\ CanonicalSpec /\ LinearSpec
<1>1. ServicesInit => Init /\ CanonicalInit /\ LinearInit
  BY DEF ServicesInit
<1> QED
  BY <1>1, ServicesStep, PTL DEF ServicesSpec, Spec, CanonicalSpec, LinearSpec

(* The bounds of the issue, and what a receipt and a sweep hold.            *)
LinearBounds ==
    /\ issue.span \in 1..MaxSpans /\ issue.updated \in 0..MaxTime
    /\ receipt.span = 0 => receipt = NoReceipt
    /\ receipt.span # 0 => receipt.key \in Statuses \X (Targets \cup {NoTarget, Unselected})
    /\ \A r \in Reconcilers : sweeps[r].step = "apply" => sweeps[r].saw # {}
    /\ bounds.rearmed \subseteq 1..issue.span

LEMMA LinearBoundsStart == LinearInit => LinearBounds
<1> SUFFICES ASSUME LinearInit PROVE LinearBounds
  OBVIOUS
<1>1. 1 \in 1..MaxSpans /\ 0 \in 0..MaxTime
  BY LinearAssumption
<1> QED
  BY <1>1 DEF LinearInit, LinearBounds, NoReceipt, IdleSweep

(* A step that changes the issue, the routing or the session, and reads     *)
(* nothing: the sweeps go on with what they read.                           *)
LEMMA OthersKeepBounds ==
    ASSUME LinearInv, LinearBounds, OthersMove
    PROVE  LinearBounds'
<1>1. /\ issue \in Reading /\ sweeps \in [Reconcilers -> Sweeps]
      /\ bounds \in [rearmed : SUBSET (Nat \ {0}), rearms : Nat, touches : Nat]
      /\ MaxSpans \in Nat /\ MaxTime \in Nat
      /\ issue.span \in 1..MaxSpans /\ issue.updated \in 0..MaxTime
      /\ bounds.rearmed \subseteq 1..issue.span
  BY LinearAssumption DEF LinearInv, LinearTypes, LinearBounds
<1>2. receipt' = receipt
  BY DEF OthersMove, IssueMoves, IssueIsEdited, StateIsRenamed, RoutingChanges, LocalChange
<1>3. /\ issue'.span \in 1..MaxSpans /\ issue'.updated \in 0..MaxTime
      /\ issue'.span >= issue.span
  <2>1. CASE IssueMoves
    <3>1. PICK s \in Statuses, t \in 0..MaxTime :
            issue' = [span |-> issue.span + 1, status |-> s, started |-> t, updated |-> t]
      BY <2>1 DEF IssueMoves
    <3>2. issue.span < MaxSpans /\ issue'.span = issue.span + 1 /\ issue'.updated = t
      BY <2>1, <3>1 DEF IssueMoves
    <3> QED
      BY <1>1, <3>2
  <2>2. CASE IssueIsEdited
    <3>1. issue.updated < MaxTime /\ issue' = [issue EXCEPT !.updated = @ + 1]
      BY <2>2 DEF IssueIsEdited
    <3>2. issue'.span = issue.span /\ issue'.updated = issue.updated + 1
      BY <1>1, <3>1 DEF Reading
    <3> QED
      BY <1>1, <3>1, <3>2
  <2>3. CASE StateIsRenamed
    <3>1. PICK s \in Statuses : issue' = [issue EXCEPT !.status = s]
      BY <2>3 DEF StateIsRenamed
    <3>2. issue'.span = issue.span /\ issue'.updated = issue.updated
      BY <1>1, <3>1 DEF Reading
    <3> QED
      BY <1>1, <3>2
  <2>4. CASE RoutingChanges \/ LocalChange
    BY <1>1, <2>4 DEF RoutingChanges, LocalChange
  <2> QED
    BY <2>1, <2>2, <2>3, <2>4 DEF OthersMove
<1>4. bounds'.rearmed \subseteq 1..issue'.span
  <2>1. bounds'.rearmed \subseteq bounds.rearmed \cup {issue.span}
    <3>1. CASE Rearmed
      BY <3>1, RearmedTypes DEF LinearInv
    <3>2. CASE LocalChange
      <4>1. bounds' = [bounds EXCEPT !.touches = @ + 1]
        BY <3>2 DEF LocalChange
      <4> QED
        BY <1>1, <4>1
    <3>3. CASE UNCHANGED bounds
      BY <3>3
    <3> QED
      BY <3>1, <3>2, <3>3
         DEF OthersMove, IssueMoves, IssueIsEdited, StateIsRenamed, RoutingChanges
  <2>2. \A n \in 1..issue.span : n \in 1..issue'.span
    BY <1>1, <1>3
  <2>3. issue.span \in 1..issue.span
    BY <1>1
  <2> QED
    BY <1>1, <2>1, <2>2, <2>3
<1>5. \A r \in Reconcilers : sweeps'[r].step = sweeps[r].step /\ sweeps'[r].saw = sweeps[r].saw
  <2> TAKE r \in Reconcilers
  <2>1. sweeps[r] \in Sweeps
    BY <1>1
  <2>2. \/ sweeps'[r] = sweeps[r] \/ sweeps'[r] = [sweeps[r] EXCEPT !.config = FALSE]
        \/ sweeps'[r] = [sweeps[r] EXCEPT !.fresh = FALSE]
    BY DEF OthersMove, IssueMoves, IssueIsEdited, StateIsRenamed, RoutingChanges, LocalChange,
           Touched
  <2> QED
    BY <2>1, <2>2 DEF Sweeps
<1> QED
  BY <1>2, <1>3, <1>4, <1>5 DEF LinearBounds

LEMMA ReconcilesKeepsBounds ==
    ASSUME LinearInv, LinearBounds, NEW r \in Reconcilers, Reconciles(r)
    PROVE  LinearBounds'
<1>1. /\ UNCHANGED <<issue, bounds>> /\ sweeps \in [Reconcilers -> Sweeps]
  BY DEF Reconciles, ListSessions, LoadRouting, ObserveIssue, Transition, SweepFails,
         LinearInv, LinearTypes
<1>2. ASSUME sweeps' \in {Returns(r), ReturnsTouching(r)}, NEW q \in Reconcilers,
             sweeps'[q].step = "apply"
      PROVE  sweeps'[q].saw # {}
  <2>1. \/ sweeps'[q] = IdleSweep \/ sweeps'[q] = sweeps[q]
        \/ sweeps'[q] = [sweeps[q] EXCEPT !.fresh = FALSE]
    <3>1. CASE sweeps' = Returns(r)
      BY <1>1, <3>1 DEF Returns
    <3>2. CASE sweeps' = ReturnsTouching(r)
      BY <1>1, <3>2 DEF ReturnsTouching
    <3> QED
      BY <1>2, <3>1, <3>2
  <2>2. sweeps[q] \in Sweeps
    BY <1>1, <1>2
  <2>3. sweeps[q].step = "apply" /\ sweeps'[q].saw = sweeps[q].saw
    BY <1>2, <2>1, <2>2 DEF Sweeps, IdleSweep
  <2> QED
    BY <1>2, <2>3 DEF LinearBounds
<1>3. CASE Transition(r)
  <2>1. PICK o \in sweeps[r].saw : Outcome(r, o)
    BY <1>3, TransitionOutcome
  <2>2. sweeps' \in {Returns(r), ReturnsTouching(r)}
    BY <2>1 DEF Outcome
  <2>3. CASE receipt' = receipt
    BY <1>1, <1>2, <2>2, <2>3 DEF LinearBounds
  <2>4. CASE receipt' = Noted(o)
    <3>1. o \in Reading
      BY <1>1 DEF Sweeps
    <3>2. Key(o) \in Statuses \X (Targets \cup {NoTarget, Unselected})
      BY <3>1, LinearAssumption DEF Key, Target, Reading, LinearInv, LinearTypes
    <3>3. receipt'.span # 0 /\ receipt'.key = Key(o)
      BY <2>4, <3>1 DEF Noted, Reading
    <3> QED
      BY <1>1, <1>2, <2>2, <3>2, <3>3 DEF LinearBounds
  <2> QED
    BY <2>1, <2>3, <2>4 DEF Outcome
<1>4. CASE SweepFails(r)
  BY <1>1, <1>2, <1>4 DEF SweepFails, LinearBounds
<1>5. CASE ListSessions(r) \/ LoadRouting(r) \/ ObserveIssue(r)
  <2>1. receipt' = receipt /\ \A q \in Reconcilers \ {r} : sweeps'[q] = sweeps[q]
    BY <1>1, <1>5 DEF ListSessions, LoadRouting, ObserveIssue
  <2>2. sweeps'[r].step = "apply" => sweeps'[r].saw # {}
    <3>1. CASE ListSessions(r)
      BY <1>1, <3>1 DEF ListSessions, IdleSweep
    <3>2. CASE LoadRouting(r)
      <4>1. sweeps'[r] = [sweeps[r] EXCEPT !.step = "observe", !.config = TRUE]
        BY <1>1, <3>2 DEF LoadRouting
      <4> QED
        BY <1>1, <4>1 DEF Sweeps
    <3>3. CASE ObserveIssue(r)
      <4>1. sweeps'[r] = [sweeps[r] EXCEPT !.step = "apply", !.saw = {issue}]
        BY <1>1, <3>3 DEF ObserveIssue
      <4> QED
        BY <1>1, <4>1 DEF Sweeps
    <3> QED
      BY <1>5, <3>1, <3>2, <3>3
  <2> QED
    BY <1>1, <2>1, <2>2 DEF LinearBounds
<1> QED
  BY <1>3, <1>4, <1>5 DEF Reconciles

LEMMA LinearTypesHold == LinearInv /\ LinearBounds => LinearTypeOK
<1> SUFFICES ASSUME LinearInv, LinearBounds PROVE LinearTypeOK
  OBVIOUS
<1>1. /\ LinearTypes /\ MaxSpans \in Nat /\ MaxTime \in Nat
      /\ issue.span \in 1..MaxSpans /\ issue.updated \in 0..MaxTime
      /\ \A o \in Seen : o \in Reading
  BY LinearAssumption DEF LinearInv, LinearBounds, LinearTypes, Seen, Sweeps
<1>2. Seen \subseteq Issues
  <2> SUFFICES ASSUME NEW o \in Seen PROVE o \in Issues
    OBVIOUS
  <2>1. o \in Reading /\ issue \in Reading
    BY <1>1 DEF Seen
  <2>2. o.started <= o.updated /\ o.updated <= issue.updated /\ o.span <= issue.span
    BY DEF LinearInv, ReadingsAgree
  <2>3. o.span \in 1..MaxSpans /\ o.started \in 0..MaxTime /\ o.updated \in 0..MaxTime
    BY <1>1, <2>1, <2>2 DEF Reading
  <2> QED
    BY <2>1, <2>3 DEF Issues, Times, Reading
<1>3. issue \in Issues /\ \A r \in Reconcilers : sweeps[r].saw \subseteq Issues
  BY <1>2 DEF Seen
<1>4. CASE receipt.span = 0
  <2>1. receipt = NoReceipt /\ acts.span \in 0..issue.span
    BY <1>1, <1>4 DEF LinearInv, LinearBounds, LinearTypes
  <2> QED
    BY <1>1, <1>3, <2>1 DEF LinearTypeOK, LinearTypes, LinearBounds
<1>5. CASE receipt.span # 0
  <2>1. receipt \in Receipts /\ receipt.span <= issue.span
        /\ receipt.started <= receipt.updated /\ receipt.updated <= issue.updated
    BY <1>1, <1>5 DEF LinearInv, LinearTypes, ReceiptIsReading
  <2>2. /\ receipt.span \in 1..issue.span /\ receipt.started \in 0..MaxTime
        /\ receipt.updated \in receipt.started..issue.updated
    BY <1>1, <1>5, <2>1 DEF Receipts
  <2>3. acts.span \in 0..issue.span
    BY <1>1, <2>1 DEF LinearInv, LinearTypes, Receipts
  <2>4. receipt.key[1] \in Statuses /\ receipt.key[2] \in Targets \cup {NoTarget, Unselected}
    BY <1>5 DEF LinearBounds
  <2> QED
    BY <1>1, <1>3, <2>2, <2>3, <2>4 DEF LinearTypeOK, LinearTypes, LinearBounds, Times
<1> QED
  BY <1>4, <1>5

LEMMA CanonicalTypesHold == PrInv => CanonicalTypeOK
<1>1. PrTypes => \A m \in sent : \/ (m.kind = "push" /\ m.of \in Operations)
                                \/ (m.kind = "post" /\ m.of \in Epochs)
  BY DEF PrTypes, Messages, Push, Post
<1> QED
  BY <1>1 DEF PrInv, PrTypes, CanonicalTypeOK, SyncRow, EpochRows, Actors, OpRows, Refs, Pulls,
              PubRows, HookRows

(* Every variable of the service that moves holds values of its type.       *)
THEOREM ServicesTypes == ServicesSpec => []ServicesTypeOK
<1>1. LinearInv /\ LinearBounds /\ [LinearNext]_linearVars => LinearBounds'
  <2>1. LinearBounds /\ UNCHANGED linearVars => LinearBounds'
    BY DEF LinearBounds, linearVars
  <2> QED
    BY <2>1, OthersKeepBounds, ReconcilesKeepsBounds DEF LinearNext
<1>2. LinearSpec => [](LinearInv /\ LinearBounds)
  BY <1>1, LinearInitInv, LinearNextInv, LinearBoundsStart, PTL DEF LinearSpec
<1>3. ProcessInv /\ PrInv /\ LinearInv /\ LinearBounds => ServicesTypeOK
  BY CanonicalTypesHold, LinearTypesHold DEF ProcessInv, ServicesTypeOK
<1> QED
  BY <1>2, <1>3, PrInvariance, ProcessInvariance, ServicesAreServices, PTL
=============================================================================
