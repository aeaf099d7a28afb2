---------------------- MODULE CloudflareServicesProofs -----------------------
(*****************************************************************************)
(* TLAPS proofs about what the Durable Object of the Cloudflare deployment  *)
(* delivers: the dispatch of claimed jobs, and the sign-ins to Cursor.      *)
(*****************************************************************************)
EXTENDS CloudflareServices, TLAPS

-----------------------------------------------------------------------------
(***************************************************************************)
(* What holds of the Cloudflare dispatch for any number of jobs, slots and *)
(* tries: a claim is executed at most once, only a workflow that exists    *)
(* counts as delivered, and an attempt that published is never failed.     *)
(*                                                                         *)
(* A claim is entered through its row, which is inserted with the claim    *)
(* and marked when the claim is entered; a row that was deleted is of a    *)
(* claim whose turn is over, and no claim has a second turn.               *)
(***************************************************************************)

Work == [status : {"queued", "running", "ended"}, attempt : 0..MaxTries, run : RunStatuses]
Rows == [present : BOOLEAN, acked : BOOLEAN, started : BOOLEAN, due : BOOLEAN]
Engines == [step : EngineSteps, saw : RunStatuses \cup {"-"}]
Batches == [step : BatchSteps, todo : SUBSET DispatchedClaims,
            slots : 0..MaxRunning, at : DispatchedClaims \cup {NoClaim},
            saw : RunStatuses \cup {"-"}]

(* What is queued may be claimed once more and has not published. *)
Claimable(job) == job.status = "queued" => job.attempt < MaxTries /\ job.run # "success"
QueuedIsClaimable == \A j \in DJobs : Claimable(work[j])

(* A claim whose turn has not come has left nothing. *)
TurnsComeInOrder ==
    \A c \in DispatchedClaims :
        c[2] > work[c[1]].attempt => ~rows[c].present /\ entered[c] = 0

EnteredByItsRow ==
    \A c \in DispatchedClaims : /\ entered[c] \in {0, 1}
                                /\ entered[c] = 1 /\ rows[c].present => rows[c].started

Delivering == {"create", "ack", "inspect", "recover", "reinspect", "again"}
DeliveredExists ==
    /\ \A c \in DispatchedClaims : rows[c].acked => ~Absent(c)
    /\ batch.step \in Delivering => batch.at \in DispatchedClaims
    /\ batch.step = "ack" => ~Absent(batch.at)

DispatchInv == /\ DispatchTypeOK /\ QueuedIsClaimable /\ TurnsComeInOrder
               /\ EnteredByItsRow /\ DeliveredExists

USE DispatchAssumption

LEMMA DispatchTypes ==
    ASSUME DispatchInv
    PROVE  /\ \A j \in DJobs : work[j] \in Work
           /\ \A c \in DispatchedClaims : rows[c] \in Rows /\ engine[c] \in Engines
           /\ batch \in Batches
           /\ \A c \in DispatchedClaims : c[1] \in DJobs /\ c[2] \in 1..MaxTries
  BY DEF DispatchInv, DispatchTypeOK, Work, Rows, Engines, Batches, DispatchedClaims

LEMMA DispatchInitInv == DispatchInit => DispatchInv
<1> SUFFICES ASSUME DispatchInit PROVE DispatchInv
  OBVIOUS
<1>1. work \in [DJobs -> Work]
  BY DEF DispatchInit, Work, RunStatuses
<1>2. rows \in [DispatchedClaims -> Rows]
  BY DEF DispatchInit, Rows, NoRow
<1>3. engine \in [DispatchedClaims -> Engines]
  BY DEF DispatchInit, Engines, EngineSteps
<1>4. batch \in Batches
  BY DEF DispatchInit, Batches, BatchSteps, NoBatch
<1>5. DispatchTypeOK
  BY <1>1, <1>2, <1>3, <1>4 DEF DispatchInit, DispatchTypeOK, Work, Rows, Engines, Batches
<1>6. QueuedIsClaimable
  BY DEF DispatchInit, QueuedIsClaimable, Claimable
<1>7. TurnsComeInOrder /\ EnteredByItsRow
  BY DEF DispatchInit, TurnsComeInOrder, EnteredByItsRow, NoRow
<1>8. DeliveredExists
  BY DEF DispatchInit, DeliveredExists, NoRow, NoBatch, Delivering
<1> QED
  BY <1>5, <1>6, <1>7, <1>8 DEF DispatchInv

-----------------------------------------------------------------------------
(* Steps that write jobs.  Settling and executing a claim leave the attempt *)
(* of every job alone, and fail no attempt that published.                  *)
WorkMoves ==
    /\ work' \in [DJobs -> Work]
    /\ \A j \in DJobs : /\ work'[j].attempt = work[j].attempt
                        /\ Claimable(work'[j])
                        /\ work[j].run = "success" => /\ work'[j].run = "success"
                                                      /\ work'[j].status # "queued"

LEMMA WorkStays ==
    ASSUME DispatchInv, UNCHANGED work PROVE WorkMoves
  BY DEF DispatchInv, DispatchTypeOK, QueuedIsClaimable, Claimable, WorkMoves, Work

LEMMA FailureMoves ==
    ASSUME DispatchInv, NEW c \in DispatchedClaims, NEW retry \in BOOLEAN,
           IsCurrentClaim(c), RunOf(c) # "success", work' = AfterFailure(c, retry)
    PROVE  WorkMoves
<1>1. c[1] \in DJobs /\ c[2] \in 1..MaxTries /\ work[c[1]] \in Work
  BY DispatchTypes
<1>2. PICK status \in {"queued", "ended"}, run \in {"none", "error"} :
         /\ status = "queued" => c[2] < MaxTries
         /\ work' = [work EXCEPT ![c[1]] =
                       [work[c[1]] EXCEPT !.status = status, !.run = run]]
  <2>1. PICK status \in {"queued", "ended"} :
           status = IF retry /\ c[2] < MaxTries THEN "queued" ELSE "ended"
    OBVIOUS
  <2>2. PICK run \in {"none", "error"} :
           run = IF work[c[1]].run = "none" THEN "none" ELSE "error"
    OBVIOUS
  <2> QED
    BY <2>1, <2>2 DEF AfterFailure
<1>3. work[c[1]].attempt = c[2] /\ work[c[1]].run # "success"
  BY DEF IsCurrentClaim, RunOf
<1>4. /\ work'[c[1]] = [work[c[1]] EXCEPT !.status = status, !.run = run]
      /\ \A j \in DJobs \ {c[1]} : work'[j] = work[j]
  BY <1>1, <1>2 DEF DispatchInv, DispatchTypeOK
<1>5. /\ work'[c[1]] \in Work /\ work'[c[1]].attempt = c[2]
      /\ work'[c[1]].status = status /\ work'[c[1]].run = run
  BY <1>1, <1>3, <1>4 DEF Work, RunStatuses
<1>6. work' \in [DJobs -> Work]
  BY <1>1, <1>2, <1>5 DEF DispatchInv, DispatchTypeOK, Work
<1> QED
  BY <1>1, <1>2, <1>3, <1>4, <1>5, <1>6
     DEF WorkMoves, Claimable, DispatchInv, QueuedIsClaimable

LEMMA CompletionMoves ==
    ASSUME DispatchInv, NEW c \in DispatchedClaims, work' = AfterCompletion(c)
    PROVE  WorkMoves
<1>1. c[1] \in DJobs /\ work[c[1]] \in Work
  BY DispatchTypes
<1>2. /\ work'[c[1]] = [work[c[1]] EXCEPT !.status = "ended"]
      /\ \A j \in DJobs \ {c[1]} : work'[j] = work[j]
  BY <1>1 DEF DispatchInv, DispatchTypeOK, AfterCompletion
<1>3. work' \in [DJobs -> Work]
  BY <1>1 DEF DispatchInv, DispatchTypeOK, Work, AfterCompletion
<1> QED
  BY <1>1, <1>2, <1>3 DEF WorkMoves, Work, Claimable, DispatchInv, QueuedIsClaimable

LEMMA SettlingMoves ==
    ASSUME DispatchInv, NEW c \in DispatchedClaims, NEW saw, NEW retry \in BOOLEAN,
           SettlesAsSeen(c, saw, retry)
    PROVE  WorkMoves
<1>1. CASE FailsAsSeen(c, saw) /\ work' = AfterFailure(c, retry)
  BY <1>1, FailureMoves DEF FailsAsSeen
<1>2. CASE work' = AfterCompletion(c)
  BY <1>2, CompletionMoves
<1> QED
  BY <1>1, <1>2, WorkStays DEF SettlesAsSeen

LEMMA ExecutionMoves ==
    ASSUME DispatchInv, NEW c \in DispatchedClaims, ExecutionWrites(c)
    PROVE  WorkMoves
<1>1. c[1] \in DJobs /\ work[c[1]] \in Work /\ IsCurrentClaim(c)
  BY DispatchTypes DEF ExecutionWrites
<1>2. ASSUME NEW run \in {"running", "success"}, RunOf(c) # "success",
             work' = [work EXCEPT ![c[1]].run = run]
      PROVE  WorkMoves
  <2>1. /\ work'[c[1]] = [work[c[1]] EXCEPT !.run = run]
        /\ \A j \in DJobs \ {c[1]} : work'[j] = work[j]
    BY <1>1, <1>2 DEF DispatchInv, DispatchTypeOK
  <2>2. work[c[1]].run # "success" /\ work[c[1]].status = "running"
    BY <1>1, <1>2 DEF RunOf, IsCurrentClaim
  <2>3. work' \in [DJobs -> Work]
    BY <1>1, <1>2 DEF DispatchInv, DispatchTypeOK, Work, RunStatuses
  <2>4. /\ work'[c[1]].attempt = work[c[1]].attempt
        /\ work'[c[1]].status = "running"
    BY <1>1, <2>1, <2>2 DEF Work
  <2> QED
    BY <1>1, <2>1, <2>2, <2>3, <2>4 DEF WorkMoves, Claimable, DispatchInv, QueuedIsClaimable
<1>3. CASE RunOf(c) = "none" /\ work' = [work EXCEPT ![c[1]].run = "running"]
  BY <1>2, <1>3
<1>4. CASE RunOf(c) = "running" /\ work' = [work EXCEPT ![c[1]].run = "success"]
  BY <1>2, <1>4
<1>5. CASE work' = AfterCompletion(c)
  BY <1>5, CompletionMoves
<1>6. CASE /\ RunOf(c) \in {"none", "running"}
           /\ \E retry \in BOOLEAN : work' = AfterFailure(c, retry)
  BY <1>1, <1>6, FailureMoves
<1> QED
  BY <1>3, <1>4, <1>5, <1>6 DEF ExecutionWrites

-----------------------------------------------------------------------------
(* What the steps that do not claim do to the invariant, by the variables   *)
(* they write.                                                              *)
LEMMA WorkKeeps ==
    ASSUME DispatchInv, WorkMoves, UNCHANGED <<rows, entered>>
    PROVE  QueuedIsClaimable' /\ TurnsComeInOrder' /\ EnteredByItsRow'
  BY DispatchTypes
     DEF DispatchInv, WorkMoves, QueuedIsClaimable, TurnsComeInOrder, EnteredByItsRow

(* A workflow that exists never comes to be absent again. *)
EngineMoves ==
    /\ engine' \in [DispatchedClaims -> Engines]
    /\ \A c \in DispatchedClaims : ~Absent(c) => ~Absent(c)'

LEMMA EngineStays == ASSUME DispatchInv, UNCHANGED engine PROVE EngineMoves
  BY DEF DispatchInv, DispatchTypeOK, Engines, EngineMoves, Absent

LEMMA EngineStepMoves ==
    ASSUME DispatchInv, NEW c \in DispatchedClaims, NEW to \in Engines,
           engine' = [engine EXCEPT ![c] = to], to.step \notin {"none", "late"}
    PROVE  EngineMoves
<1>1. engine'[c] = to /\ \A d \in DispatchedClaims \ {c} : engine'[d] = engine[d]
  BY DEF DispatchInv, DispatchTypeOK
<1>2. engine' \in [DispatchedClaims -> Engines]
  BY DEF DispatchInv, DispatchTypeOK, Engines
<1> QED
  BY <1>1, <1>2 DEF EngineMoves, Absent

LEMMA CreationMoves ==
    ASSUME DispatchInv, NEW c \in DispatchedClaims,
           \/ engine' = Created(c)
           \/ engine' = [engine EXCEPT ![c].step = IF @ = "none" THEN "late" ELSE @]
    PROVE  EngineMoves
<1>1. engine[c] \in Engines
  BY DispatchTypes
<1>2. PICK step \in EngineSteps :
         /\ engine' = [engine EXCEPT ![c] = [engine[c] EXCEPT !.step = step]]
         /\ ~Absent(c) => step = engine[c].step
  <2>1. CASE engine' = Created(c)
    <3>1. PICK step \in EngineSteps : step = IF Absent(c) THEN "execute" ELSE engine[c].step
      BY <1>1 DEF EngineSteps, Engines
    <3> QED
      BY <2>1, <3>1 DEF Created
  <2>2. CASE engine' = [engine EXCEPT ![c].step = IF @ = "none" THEN "late" ELSE @]
    <3>1. PICK step \in EngineSteps : step = IF engine[c].step = "none" THEN "late"
                                                                        ELSE engine[c].step
      BY <1>1 DEF EngineSteps, Engines
    <3> QED
      BY <2>2, <3>1 DEF Absent
  <2> QED
    BY <2>1, <2>2
<1>3. /\ engine'[c] = [engine[c] EXCEPT !.step = step]
      /\ \A d \in DispatchedClaims \ {c} : engine'[d] = engine[d]
  BY <1>2 DEF DispatchInv, DispatchTypeOK
<1>4. engine'[c] \in Engines /\ engine'[c].step = step
  BY <1>1, <1>3 DEF Engines
<1>5. engine' \in [DispatchedClaims -> Engines]
  BY <1>2, <1>3, <1>4 DEF DispatchInv, DispatchTypeOK, Engines
<1> QED
  BY <1>2, <1>3, <1>4, <1>5 DEF EngineMoves, Absent

(* The batch stays where it is, goes on to another delivery or a step of    *)
(* the one it is at.                                                        *)
BatchMoves ==
    /\ batch' \in Batches
    /\ batch'.step = "ack" => batch.step = "ack" \/ ~Absent(batch.at)'
    /\ batch'.step \in Delivering => /\ batch'.at \in DispatchedClaims
                                     /\ batch'.step = "ack" => batch'.at = batch.at

LEMMA BatchStays == ASSUME DispatchInv, UNCHANGED batch PROVE BatchMoves
  BY DispatchTypes DEF DispatchInv, DeliveredExists, BatchMoves

LEMMA BatchLeaves ==
    ASSUME DispatchInv, batch' \in Batches, batch'.step \in {"idle", "load", "next"}
    PROVE  BatchMoves
  BY DEF BatchMoves, Delivering

(* The rows in force, and what the steps that do not write rows keep.       *)
LEMMA DeliveryKept ==
    ASSUME DispatchInv, EngineMoves, BatchMoves,
           \A c \in DispatchedClaims : rows'[c].acked => rows[c].acked
    PROVE  DeliveredExists'
  BY DEF DispatchInv, DeliveredExists, EngineMoves, BatchMoves, Absent, Delivering

LEMMA RowsKept ==
    ASSUME DispatchInv, WorkMoves, EngineMoves, BatchMoves,
           UNCHANGED <<rows, entered>>, executing' \subseteq executing
    PROVE  DispatchInv'
<1>1. DispatchTypeOK'
  BY DEF DispatchInv, DispatchTypeOK, WorkMoves, EngineMoves, BatchMoves, Work, Engines,
         Batches
<1>2. DeliveredExists'
  BY DeliveryKept
<1> QED
  BY <1>1, <1>2, WorkKeeps DEF DispatchInv

-----------------------------------------------------------------------------
(* The batch *)

LEMMA NoBatchTyped == NoBatch \in Batches /\ NoBatch.step = "idle"
<1>1. 0 \in 0..MaxRunning
  OBVIOUS
<1> QED
  BY <1>1 DEF NoBatch, Batches, BatchSteps

LEMMA AlarmInv == ASSUME DispatchInv, AlarmFires \/ LoadPending PROVE DispatchInv'
<1>1. batch' \in Batches /\ batch'.step \in {"idle", "load", "next"}
  <2>1. CASE AlarmFires
    BY <2>1, NoBatchTyped DEF AlarmFires, Batches, BatchSteps
  <2>2. CASE LoadPending
    <3>1. PICK todo \in SUBSET DispatchedClaims :
             batch' = [batch EXCEPT !.step = "next", !.slots = MaxRunning, !.todo = todo]
      BY <2>2 DEF LoadPending
    <3>2. MaxRunning \in 0..MaxRunning /\ batch \in Batches
      BY DispatchTypes
    <3> QED
      BY <3>1, <3>2 DEF Batches, BatchSteps
  <2> QED
    BY <2>1, <2>2
<1>2. UNCHANGED <<work, rows, engine, executing, entered>>
  BY DEF AlarmFires, LoadPending
<1> QED
  BY <1>1, <1>2, WorkStays, EngineStays, BatchLeaves, RowsKept

LEMMA NextDeliveryMoves ==
    ASSUME DispatchInv, NextDelivery \/ batch' = NoBatch
    PROVE  batch' \in Batches /\ batch'.step \in {"idle", "load", "next"}
<1>1. CASE NextDelivery
  BY <1>1, DispatchTypes DEF NextDelivery, Batches, BatchSteps
<1>2. CASE batch' = NoBatch
  BY <1>2, NoBatchTyped
<1> QED
  BY <1>1, <1>2

LEMMA DeliverInv == ASSUME DispatchInv, DeliverPending PROVE DispatchInv'
<1>1. PICK c \in batch.todo :
         IF IsCurrentClaim(c)
         THEN batch' = Inspected(c) /\ UNCHANGED rows
         ELSE /\ batch' = [batch EXCEPT !.todo = @ \ {c}]
              /\ rows' = [rows EXCEPT ![c] = NoRow]
  BY DEF DeliverPending
<1>2. /\ UNCHANGED <<work, engine, executing, entered>> /\ batch.step = "next"
      /\ c \in DispatchedClaims /\ batch \in Batches
  BY DispatchTypes DEF DeliverPending, Batches
<1>3. CASE IsCurrentClaim(c)
  <2>1. PICK step \in {"inspect", "create"} :
           batch' = [batch EXCEPT !.step = step, !.at = c, !.todo = @ \ {c}]
    BY <1>1, <1>3 DEF Inspected
  <2>2. BatchMoves
    BY <1>2, <2>1 DEF BatchMoves, Batches, BatchSteps
  <2> QED
    BY <1>1, <1>2, <1>3, <2>2, WorkStays, EngineStays, RowsKept
<1>4. CASE ~IsCurrentClaim(c)
  <2>1. batch' \in Batches /\ batch'.step = "next"
    <3>1. batch' = [batch EXCEPT !.todo = batch.todo \ {c}]
      BY <1>1, <1>4
    <3> QED
      BY <1>2, <3>1 DEF Batches
  <2>2. /\ rows' \in [DispatchedClaims -> Rows] /\ rows'[c] = NoRow
        /\ \A d \in DispatchedClaims \ {c} : rows'[d] = rows[d]
    <3>1. rows' = [rows EXCEPT ![c] = NoRow]
      BY <1>1, <1>4
    <3>2. NoRow \in Rows
      BY DEF NoRow, Rows
    <3> QED
      BY <1>2, <3>1, <3>2 DEF DispatchInv, DispatchTypeOK, Rows
  <2>3. DispatchTypeOK'
    BY <1>2, <2>1, <2>2 DEF DispatchInv, DispatchTypeOK, Rows, Batches
  <2>4. TurnsComeInOrder' /\ EnteredByItsRow' /\ QueuedIsClaimable'
    BY <1>2, <2>2 DEF DispatchInv, TurnsComeInOrder, EnteredByItsRow, QueuedIsClaimable,
       NoRow
  <2>5. DeliveredExists'
    BY <1>2, <2>1, <2>2, EngineStays, BatchLeaves, DeliveryKept DEF NoRow
  <2> QED
    BY <2>3, <2>4, <2>5 DEF DispatchInv
<1> QED
  BY <1>3, <1>4

(* The claim and its row: the claim is the job's next, which left nothing.  *)
LEMMA ClaimDispatchInv == ASSUME DispatchInv, ClaimDispatch PROVE DispatchInv'
<1>1. PICK j \in DJobs, c \in DispatchedClaims :
         /\ c = <<j, work[j].attempt + 1>>
         /\ work[j].status = "queued"
         /\ work' = [work EXCEPT ![j] = [status |-> "running",
                                         attempt |-> c[2], run |-> "none"]]
         /\ rows' = [rows EXCEPT ![c] = [NoRow EXCEPT !.present = TRUE]]
         /\ batch' = [batch EXCEPT !.todo = {c}, !.slots = @ - 1]
  <2>1. PICK j \in DJobs :
           LET c == <<j, work[j].attempt + 1>> IN
              /\ work[j].status = "queued"
              /\ work' = [work EXCEPT ![j] = [status |-> "running",
                                              attempt |-> c[2], run |-> "none"]]
              /\ rows' = [rows EXCEPT ![c] = [NoRow EXCEPT !.present = TRUE]]
              /\ batch' = [batch EXCEPT !.todo = {c}, !.slots = @ - 1]
    BY DEF ClaimDispatch
  <2>2. <<j, work[j].attempt + 1>> \in DispatchedClaims
    BY <2>1, DispatchTypes DEF DispatchInv, QueuedIsClaimable, Claimable, Work,
       DispatchedClaims
  <2> QED
    BY <2>1, <2>2
<1>2. /\ UNCHANGED <<engine, executing, entered>>
      /\ batch.step = "next" /\ batch.slots > 0 /\ batch \in Batches
  BY DispatchTypes DEF ClaimDispatch
<1>3. /\ work[j] \in Work /\ work[j].attempt < MaxTries
      /\ c \in DispatchedClaims /\ c[1] = j /\ c[2] = work[j].attempt + 1
  BY <1>1, DispatchTypes DEF DispatchInv, QueuedIsClaimable, Claimable, Work,
     DispatchedClaims
<1>4. /\ work'[j] = [status |-> "running", attempt |-> c[2], run |-> "none"]
      /\ \A i \in DJobs \ {j} : work'[i] = work[i]
  BY <1>1 DEF DispatchInv, DispatchTypeOK
<1>5. work' \in [DJobs -> Work]
  <2>1. c[2] \in 0..MaxTries
    BY <1>3 DEF Work
  <2>2. [status |-> "running", attempt |-> c[2], run |-> "none"] \in Work
    BY <2>1 DEF Work, RunStatuses
  <2> QED
    BY <1>1, <2>2 DEF DispatchInv, DispatchTypeOK, Work
<1>6. /\ rows'[c] = [NoRow EXCEPT !.present = TRUE]
      /\ \A d \in DispatchedClaims \ {c} : rows'[d] = rows[d]
      /\ rows' \in [DispatchedClaims -> Rows]
  BY <1>1, <1>3 DEF DispatchInv, DispatchTypeOK, Rows, NoRow
<1>7. batch' \in Batches /\ batch'.step = "next"
  <2>1. batch.slots - 1 \in 0..MaxRunning
    BY <1>2 DEF Batches
  <2> QED
    BY <1>1, <1>2, <1>3, <2>1 DEF Batches
<1>8. DispatchTypeOK'
  BY <1>2, <1>5, <1>6, <1>7 DEF DispatchInv, DispatchTypeOK, Work, Rows, Batches
<1>9. QueuedIsClaimable'
  BY <1>4 DEF DispatchInv, QueuedIsClaimable, Claimable
<1>10. entered[c] = 0
  BY <1>3 DEF DispatchInv, TurnsComeInOrder, Work
<1>11. TurnsComeInOrder'
  <2> SUFFICES ASSUME NEW d \in DispatchedClaims, d[2] > work'[d[1]].attempt
               PROVE  ~rows'[d].present /\ entered'[d] = 0
    BY DEF TurnsComeInOrder
  <2>1. d # c
    BY <1>3, <1>4 DEF Work
  <2>2. d[2] > work[d[1]].attempt
    <3>1. d[1] \in DJobs /\ d[2] \in Nat
      BY DispatchTypes
    <3>2. CASE d[1] = j
      BY <1>3, <1>4, <3>1, <3>2 DEF Work
    <3>3. CASE d[1] # j
      BY <1>4, <3>1, <3>3
    <3> QED
      BY <3>2, <3>3
  <2> QED
    BY <1>2, <1>6, <2>1, <2>2 DEF DispatchInv, TurnsComeInOrder
<1>12. EnteredByItsRow'
  BY <1>2, <1>6, <1>10 DEF DispatchInv, EnteredByItsRow
<1>13. DeliveredExists'
  BY <1>2, <1>6, <1>7, EngineStays, BatchLeaves, DeliveryKept DEF NoRow
<1> QED
  BY <1>8, <1>9, <1>11, <1>12, <1>13 DEF DispatchInv

LEMMA EnsureInv == ASSUME DispatchInv, EnsureWorkflow PROVE DispatchInv'
<1>1. /\ UNCHANGED <<work, rows, executing, entered>>
      /\ batch.step = "create" /\ batch.at \in DispatchedClaims /\ batch \in Batches
  BY DispatchTypes DEF EnsureWorkflow, DispatchInv, DeliveredExists, Delivering
<1>2. EngineMoves
  BY <1>1, CreationMoves DEF EnsureWorkflow
<1>3. BatchMoves
  <2>1. CASE Confirmed(batch.at) /\ batch' = [batch EXCEPT !.step = "ack"]
    BY <1>1, <2>1 DEF BatchMoves, Batches, BatchSteps, Confirmed, Absent
  <2>2. CASE NextDelivery
    BY <2>2, NextDeliveryMoves, BatchLeaves
  <2> QED
    BY <2>1, <2>2 DEF EnsureWorkflow
<1> QED
  BY <1>1, <1>2, <1>3, WorkStays, RowsKept

LEMMA CreationInv ==
    ASSUME DispatchInv, NEW c \in DispatchedClaims, CreationLands(c) PROVE DispatchInv'
<1>1. EngineMoves
  BY CreationMoves DEF CreationLands
<1> QED
  BY <1>1, WorkStays, BatchStays, RowsKept DEF CreationLands

LEMMA AckInv == ASSUME DispatchInv, AckDispatch PROVE DispatchInv'
<1>1. /\ UNCHANGED <<work, engine, executing, entered>>
      /\ batch.step = "ack" /\ batch.at \in DispatchedClaims /\ ~Absent(batch.at)
  BY DEF AckDispatch, DispatchInv, DeliveredExists, Delivering
<1>2. batch' \in Batches /\ batch'.step \in {"idle", "load", "next"}
  BY NextDeliveryMoves DEF AckDispatch
<1>3. PICK acked \in BOOLEAN :
         rows' = [rows EXCEPT ![batch.at] = [rows[batch.at] EXCEPT !.acked = acked]]
  <2>1. CASE rows' = rows
    BY <1>1, <2>1 DEF DispatchInv, DispatchTypeOK
  <2>2. CASE rows' = [rows EXCEPT ![batch.at].acked = rows[batch.at].present]
    BY <1>1, <2>2, DispatchTypes DEF Rows
  <2> QED
    BY <2>1, <2>2 DEF AckDispatch
<1>4. /\ rows' \in [DispatchedClaims -> Rows]
      /\ \A c \in DispatchedClaims : /\ rows'[c].present = rows[c].present
                                     /\ rows'[c].started = rows[c].started
      /\ \A c \in DispatchedClaims \ {batch.at} : rows'[c] = rows[c]
  BY <1>1, <1>3 DEF DispatchInv, DispatchTypeOK, Rows
<1>5. DispatchTypeOK'
  BY <1>1, <1>2, <1>4 DEF DispatchInv, DispatchTypeOK, Rows, Batches
<1>6. TurnsComeInOrder' /\ EnteredByItsRow' /\ QueuedIsClaimable'
  BY <1>1, <1>4 DEF DispatchInv, TurnsComeInOrder, EnteredByItsRow, QueuedIsClaimable
<1>7. DeliveredExists'
  BY <1>1, <1>2, <1>4 DEF DispatchInv, DeliveredExists, Delivering, Absent
<1> QED
  BY <1>5, <1>6, <1>7 DEF DispatchInv

LEMMA BatchLooksInv == ASSUME DispatchInv, BatchLooks PROVE DispatchInv'
<1>1. batch \in Batches /\ batch.at \in DispatchedClaims /\ batch.at[1] \in DJobs
  BY DispatchTypes DEF BatchLooks, DispatchInv, DeliveredExists, Delivering
<1>2. PICK step \in {"recover", "again"}, saw \in RunStatuses :
         batch' = [batch EXCEPT !.saw = saw, !.step = step]
  <2>1. RunOf(batch.at) \in RunStatuses
    BY <1>1, DispatchTypes DEF RunOf, Work, RunStatuses
  <2> QED
    BY <2>1 DEF BatchLooks
<1>3. BatchMoves
  BY <1>1, <1>2 DEF BatchMoves, Batches, BatchSteps
<1> QED
  BY <1>3, WorkStays, EngineStays, RowsKept DEF BatchLooks

LEMMA BatchSettlesInv == ASSUME DispatchInv, BatchSettles PROVE DispatchInv'
<1>1. batch \in Batches /\ batch.at \in DispatchedClaims
  BY DispatchTypes DEF BatchSettles, DispatchInv, DeliveredExists, Delivering
<1>2. WorkMoves
  BY <1>1, SettlingMoves DEF BatchSettles
<1>3. BatchMoves
  <2>1. CASE batch' = [batch EXCEPT !.step = "reinspect"]
    BY <1>1, <2>1 DEF BatchMoves, Batches, BatchSteps
  <2>2. CASE NextDelivery
    BY <2>2, NextDeliveryMoves, BatchLeaves
  <2> QED
    BY <2>1, <2>2 DEF BatchSettles
<1> QED
  BY <1>2, <1>3, EngineStays, RowsKept DEF BatchSettles

LEMMA BatchOverInv ==
    ASSUME DispatchInv, NothingToClaim \/ DeliveryFails \/ BatchFails PROVE DispatchInv'
<1>1. UNCHANGED <<work, rows, engine, executing, entered>>
  BY DEF NothingToClaim, DeliveryFails, BatchFails
<1>2. batch' \in Batches /\ batch'.step \in {"idle", "load", "next"}
  <2>1. CASE /\ batch.step = "next"
             /\ \E c \in batch.todo : batch' = [batch EXCEPT !.todo = @ \ {c}]
    BY <2>1, DispatchTypes DEF Batches
  <2>2. CASE NextDelivery \/ batch' = NoBatch
    BY <2>2, NextDeliveryMoves
  <2> QED
    BY <2>1, <2>2 DEF NothingToClaim, DeliveryFails, BatchFails
<1> QED
  BY <1>1, <1>2, WorkStays, EngineStays, BatchLeaves, RowsKept

-----------------------------------------------------------------------------
(* The workflow of a claim *)

(* The row of a claim that may begin is not marked: it was not entered.     *)
LEMMA BeginInv ==
    ASSUME DispatchInv, NEW c \in DispatchedClaims, BeginExecution(c) PROVE DispatchInv'
<1>1. UNCHANGED <<work, batch>> /\ engine[c].step = "execute" /\ engine[c] \in Engines
  BY DispatchTypes DEF BeginExecution
<1>2. CASE MayBegin(c)
  <2>1. /\ rows' = [rows EXCEPT ![c].started = TRUE]
        /\ executing' = executing \cup {c}
        /\ entered' = [entered EXCEPT ![c] = @ + 1]
        /\ UNCHANGED engine
    BY <1>2 DEF BeginExecution
  <2>2. /\ rows'[c] = [rows[c] EXCEPT !.started = TRUE]
        /\ \A d \in DispatchedClaims \ {c} : rows'[d] = rows[d]
        /\ rows' \in [DispatchedClaims -> Rows]
    BY <2>1 DEF DispatchInv, DispatchTypeOK, Rows
  <2>3. entered[c] = 0 /\ c[2] = work[c[1]].attempt
    BY <1>2 DEF DispatchInv, EnteredByItsRow, MayBegin, IsCurrentClaim
  <2>4. /\ entered'[c] = 1 /\ entered' \in [DispatchedClaims -> Nat]
        /\ \A d \in DispatchedClaims \ {c} : entered'[d] = entered[d]
    BY <2>1, <2>3 DEF DispatchInv, DispatchTypeOK
  <2>5. DispatchTypeOK'
    BY <1>1, <2>1, <2>2, <2>4 DEF DispatchInv, DispatchTypeOK, Rows
  <2>6. rows[c] \in Rows /\ c[2] \in Nat
    BY DispatchTypes
  <2>7. TurnsComeInOrder'
    BY <1>1, <2>2, <2>3, <2>4, <2>6 DEF DispatchInv, TurnsComeInOrder
  <2>8. rows'[c].started /\ rows'[c].acked = rows[c].acked
    BY <2>2, <2>6 DEF Rows
  <2>9. EnteredByItsRow'
    BY <2>2, <2>4, <2>8 DEF DispatchInv, EnteredByItsRow
  <2>10. \A d \in DispatchedClaims : rows'[d].acked => rows[d].acked
    BY <2>2, <2>8
  <2>11. DeliveredExists'
    BY <1>1, <2>1, <2>10, EngineStays, BatchStays, DeliveryKept
  <2> QED
    BY <1>1, <2>5, <2>7, <2>9, <2>11 DEF DispatchInv, QueuedIsClaimable
<1>3. CASE ~MayBegin(c)
  <2>1. /\ engine' = [engine EXCEPT ![c].step = "inspect"]
        /\ UNCHANGED <<rows, executing, entered>>
    BY <1>3 DEF BeginExecution
  <2>2. PICK to \in Engines : to.step = "inspect" /\ engine' = [engine EXCEPT ![c] = to]
    BY <1>1, <2>1 DEF Engines, EngineSteps
  <2> QED
    BY <1>1, <2>1, <2>2, EngineStepMoves, WorkStays, BatchStays, RowsKept
<1> QED
  BY <1>2, <1>3

LEMMA ExecutionInv ==
    ASSUME DispatchInv, NEW c \in DispatchedClaims,
           \/ ExecutionInterrupted(c) \/ ExecutionEnds(c) \/ ExecutionDies(c)
           \/ ExecutionWrites(c)
    PROVE  DispatchInv'
<1>1. engine[c] \in Engines
  BY DispatchTypes
<1>2. CASE ExecutionInterrupted(c)
  <2>1. PICK to \in Engines : to.step = "inspect" /\ engine' = [engine EXCEPT ![c] = to]
    BY <1>1, <1>2 DEF ExecutionInterrupted, Engines, EngineSteps
  <2> QED
    BY <1>2, <2>1, EngineStepMoves, WorkStays, BatchStays, RowsKept DEF ExecutionInterrupted
<1>3. CASE ExecutionEnds(c)
  <2>1. CASE engine[c].step = "execute"
    <3>1. PICK to \in Engines : to.step = "over" /\ engine' = [engine EXCEPT ![c] = to]
      BY <1>1, <1>3, <2>1 DEF ExecutionEnds, Engines, EngineSteps
    <3> QED
      BY <1>3, <3>1, EngineStepMoves, WorkStays, BatchStays, RowsKept DEF ExecutionEnds
  <2>2. CASE engine[c].step # "execute"
    <3>1. engine' = [engine EXCEPT ![c].step = engine[c].step]
      BY <1>3, <2>2 DEF ExecutionEnds
    <3>2. engine' = engine
      BY <1>1, <3>1 DEF DispatchInv, DispatchTypeOK, Engines
    <3> QED
      BY <1>3, <3>2, EngineStays, WorkStays, BatchStays, RowsKept DEF ExecutionEnds
  <2> QED
    BY <2>1, <2>2
<1>4. CASE ExecutionDies(c)
  BY <1>4, EngineStays, WorkStays, BatchStays, RowsKept DEF ExecutionDies
<1>5. CASE ExecutionWrites(c)
  BY <1>5, EngineStays, ExecutionMoves, BatchStays, RowsKept DEF ExecutionWrites
<1> QED
  BY <1>2, <1>3, <1>4, <1>5

(* The steps of a workflow that recovers: it looks, settles and ends.       *)
LEMMA RecoveryInv ==
    ASSUME DispatchInv, NEW c \in DispatchedClaims,
           EngineLooks(c) \/ EngineSettles(c) \/ RecoveryFails(c)
    PROVE  DispatchInv'
<1>1. engine[c] \in Engines /\ c[1] \in DJobs
  BY DispatchTypes
<1>2. [step |-> "over", saw |-> "-"] \in Engines
  BY DEF Engines, EngineSteps
<1>3. WorkMoves
  BY WorkStays, SettlingMoves DEF EngineLooks, EngineSettles, RecoveryFails
<1>4. PICK to \in Engines : /\ to.step \in {"over", "recover", "again", "reinspect"}
                            /\ engine' = [engine EXCEPT ![c] = to]
  <2>1. CASE engine' = [engine EXCEPT ![c] = [step |-> "over", saw |-> "-"]]
    BY <1>2, <2>1
  <2>2. CASE EngineLooks(c) /\ IsCurrentClaim(c)
    <3>1. PICK step \in {"recover", "again"}, saw \in RunStatuses :
             engine' = [engine EXCEPT ![c] = [saw |-> saw, step |-> step]]
      <4>1. RunOf(c) \in RunStatuses
        BY <1>1, DispatchTypes DEF RunOf, Work, RunStatuses
      <4> QED
        BY <2>2, <4>1 DEF EngineLooks
    <3>2. [saw |-> saw, step |-> step] \in Engines
      BY DEF Engines, EngineSteps
    <3> QED
      BY <3>1, <3>2
  <2>3. CASE engine' = [engine EXCEPT ![c] = [engine[c] EXCEPT !.step = "reinspect"]]
    <3>1. [engine[c] EXCEPT !.step = "reinspect"] \in Engines
      BY <1>1 DEF Engines, EngineSteps
    <3> QED
      BY <1>1, <2>3, <3>1 DEF Engines
  <2> QED
    BY <2>1, <2>2, <2>3 DEF EngineLooks, EngineSettles, RecoveryFails
<1>5. UNCHANGED <<rows, executing, entered, batch>>
  BY DEF EngineLooks, EngineSettles, RecoveryFails
<1> QED
  BY <1>3, <1>4, <1>5, EngineStepMoves, BatchStays, RowsKept

LEMMA SweepInv ==
    ASSUME DispatchInv, NEW c \in DispatchedClaims, StallSweep(c) PROVE DispatchInv'
<1>1. WorkMoves
  BY SettlingMoves DEF StallSweep
<1> QED
  BY <1>1, EngineStays, BatchStays, RowsKept DEF StallSweep

LEMMA DeadlineInv ==
    ASSUME DispatchInv, NEW c \in DispatchedClaims, DeadlinePasses(c) PROVE DispatchInv'
<1>1. /\ UNCHANGED <<work, engine, executing, entered, batch>>
      /\ rows' = [rows EXCEPT ![c].due = TRUE]
  BY DEF DeadlinePasses
<1>2. /\ rows' \in [DispatchedClaims -> Rows]
      /\ \A d \in DispatchedClaims : /\ rows'[d].present = rows[d].present
                                     /\ rows'[d].started = rows[d].started
                                     /\ rows'[d].acked = rows[d].acked
  <2>1. /\ rows[c] \in Rows /\ rows'[c] = [rows[c] EXCEPT !.due = TRUE]
        /\ \A d \in DispatchedClaims \ {c} : rows'[d] = rows[d]
    BY <1>1, DispatchTypes DEF DispatchInv, DispatchTypeOK
  <2>2. rows' \in [DispatchedClaims -> Rows]
    <3>1. PICK row \in Rows : rows' = [rows EXCEPT ![c] = row]
      BY <1>1, <2>1 DEF Rows
    <3> QED
      BY <3>1 DEF DispatchInv, DispatchTypeOK, Rows
  <2> QED
    BY <2>1, <2>2 DEF Rows
<1>3. DispatchTypeOK'
  BY <1>1, <1>2 DEF DispatchInv, DispatchTypeOK, Rows
<1>4. TurnsComeInOrder' /\ EnteredByItsRow' /\ QueuedIsClaimable'
  BY <1>1, <1>2 DEF DispatchInv, TurnsComeInOrder, EnteredByItsRow, QueuedIsClaimable
<1>5. DeliveredExists'
  BY <1>1, <1>2, EngineStays, BatchStays, DeliveryKept
<1> QED
  BY <1>3, <1>4, <1>5 DEF DispatchInv

LEMMA DispatchStutterInv == ASSUME DispatchInv, UNCHANGED dispatchVars PROVE DispatchInv'
  BY WorkStays, EngineStays, BatchStays, RowsKept DEF dispatchVars

LEMMA DispatchStepInv == DispatchInv /\ [DispatchNext]_dispatchVars => DispatchInv'
  BY AlarmInv, DeliverInv, ClaimDispatchInv, EnsureInv, CreationInv, AckInv,
     BatchLooksInv, BatchSettlesInv, BatchOverInv, BeginInv, ExecutionInv,
     RecoveryInv, SweepInv, DeadlineInv, DispatchStutterInv
     DEF DispatchNext, BatchStep, ClaimStep, EngineStep

(* A step of the deployment is a step of the dispatch or none.              *)
LEMMA CloudStepDispatches == [CloudNext]_cloudVars => [DispatchNext]_dispatchVars
  BY DEF CloudNext, cloudVars

LEMMA DispatchInvariance == CloudSpec => []DispatchInv
  BY DispatchInitInv, DispatchStepInv, CloudStepDispatches, PTL DEF CloudSpec, CloudInit

-----------------------------------------------------------------------------
(* A claim is executed at most once, and counts as delivered only when its  *)
(* workflow exists, however often a creation is repeated or a reply lost.   *)
THEOREM ClaimsAreDeliveredOnce == CloudSpec => []DeliveredOnce
<1>1. DispatchInv => DeliveredOnce
  BY DEF DispatchInv, EnteredByItsRow, DeliveredExists, DeliveredOnce
<1> QED
  BY <1>1, DispatchInvariance, PTL

LEMMA PublishedJobStays ==
    ASSUME WorkMoves, NEW j \in DJobs, work[j].run = "success"
    PROVE  work'[j].run = "success" /\ work'[j].status \in {"running", "ended"}
  BY DEF WorkMoves, Work

(* Recovery, which acts on what it saw a moment ago, never fails an attempt *)
(* that has published, nor is its job queued or claimed again.              *)
THEOREM PublicationsAreKept == CloudSpec => PublishedClaimsAreKept
<1> DEFINE Kept == \A j \in DJobs : work[j].run = "success" =>
                     work'[j].run = "success" /\ work'[j].status \in {"running", "ended"}
<1>1. ASSUME DispatchInv, [DispatchNext]_dispatchVars PROVE Kept
  <2>1. CASE ClaimDispatch
    BY <1>1, <2>1 DEF ClaimDispatch, DispatchInv, DispatchTypeOK, QueuedIsClaimable,
       Claimable
  <2>2. CASE ~ClaimDispatch
    <3>1. WorkMoves
      <4>1. CASE BatchSettles
        BY <1>1, <4>1, SettlingMoves DEF BatchSettles, DispatchInv, DeliveredExists,
           Delivering
      <4>2. CASE \E c \in DispatchedClaims :
                    EngineSettles(c) \/ ExecutionWrites(c) \/ StallSweep(c)
        BY <1>1, <4>2, SettlingMoves, ExecutionMoves DEF EngineSettles, StallSweep
      <4>3. CASE UNCHANGED work
        BY <1>1, <4>3, WorkStays
      <4> QED
        BY <1>1, <2>2, <4>1, <4>2, <4>3
           DEF DispatchNext, BatchStep, ClaimStep, EngineStep, AlarmFires, LoadPending,
               DeliverPending, NothingToClaim, EnsureWorkflow, AckDispatch, BatchLooks,
               DeliveryFails, BatchFails, BeginExecution, EngineLooks,
               ExecutionInterrupted, RecoveryFails, ExecutionEnds, ExecutionDies,
               CreationLands, DeadlinePasses, dispatchVars
    <3> QED
      BY <3>1, PublishedJobStays
  <2> QED
    BY <2>1, <2>2
<1> QED
  BY <1>1, CloudStepDispatches, DispatchInvariance, PTL
     DEF CloudSpec, PublishedClaimsAreKept

HIDE DispatchAssumption

-----------------------------------------------------------------------------
(***************************************************************************)
(* TLAPS proofs that signing in implements the fenced lease and that what  *)
(* the page shows and what is saved is current, for any number of flows,   *)
(* tasks and requests.                                                     *)
(***************************************************************************)

(* The inductive invariant *)

FlowRows == [status : Statuses, by : Tasks \cup {NoOne},
             url : Tasks \cup {NoOne}, due : BOOLEAN, stale : BOOLEAN]
SignInRows == [step : TaskSteps, flow : Flows \cup {NoOne},
               signal : {"none", "aborted", "shutdown"}]
Ended == {"authenticated", "expired", "error", "canceled"}

(* A task that is at work has a flow. *)
TasksHaveFlows == \A t \in Tasks : signIns[t].step # "idle" => signIns[t].flow \in Flows

(* Nobody holds a flow that waits; only its task has put a URL on a page.   *)
ClaimsMatch ==
    \A f \in Flows :
        /\ flows[f].status \in {"absent", "starting"} =>
              flows[f].by = NoOne /\ flows[f].url = NoOne
        /\ flows[f].status = "prompted" => flows[f].url = flows[f].by

(* The unique index on active flows. *)
OneActiveFlow == \A f, g \in ActiveFlows : f = g

(* A disconnect withdraws flows that it canceled or that were over. *)
WithdrawnIsOver ==
    /\ \A f \in withdrawn : flows[f].status \in Ended
    /\ \A b \in Tabs : \A f \in tabs[b].seen : flows[f].status \in Ended
    /\ credential # NoOne => credential.item \notin withdrawn

AuthInv == /\ AuthTypeOK
           /\ TasksHaveFlows
           /\ ClaimsMatch
           /\ OneActiveFlow
           /\ WithdrawnIsOver

LEMMA AuthInitInv == AuthInit => AuthInv
  BY AuthAssumption DEF AuthInit, AuthInv, AuthTypeOK, TasksHaveFlows, ClaimsMatch,
     OneActiveFlow, WithdrawnIsOver, ActiveFlows, ActiveFlowStatuses,
     ClaimedStatuses, NoFlow, IdleTask, IdleTab, Statuses, TaskSteps

(* The types, by variable. *)
LEMMA AuthTypes ==
    ASSUME AuthInv
    PROVE  /\ flows \in [Flows -> FlowRows] /\ signIns \in [Tasks -> SignInRows]
           /\ \A f \in Flows : flows[f] \in FlowRows
           /\ \A t \in Tasks : signIns[t] \in SignInRows
           /\ ActiveFlows \subseteq Flows
  BY DEF AuthInv, AuthTypeOK, FlowRows, SignInRows, ActiveFlows

-----------------------------------------------------------------------------
(* Statements on the flows *)

(* What every statement on the flows leaves: proper rows, one of them       *)
(* active, and what was over still over.                                    *)
FlowsMove ==
    /\ flows' \in [Flows -> FlowRows]
    /\ ClaimsMatch' /\ OneActiveFlow'
    /\ \A f \in Flows : flows[f].status \in Ended => flows'[f].status \in Ended

LEMMA FlowsStay == ASSUME AuthInv, UNCHANGED flows PROVE FlowsMove
  BY AuthTypes DEF AuthInv, ClaimsMatch, OneActiveFlow, ActiveFlows, FlowsMove

(* One row is rewritten: an active one, or a new one when none is active.   *)
LEMMA OneRowMoves ==
    ASSUME AuthInv, NEW f \in Flows, NEW r \in FlowRows,
           f \in ActiveFlows \/ (ActiveFlows = {} /\ flows[f].status \notin Ended),
           flows' = [flows EXCEPT ![f] = r],
           r.status \in {"absent", "starting"} => r.by = NoOne /\ r.url = NoOne,
           r.status = "prompted" => r.url = r.by
    PROVE  FlowsMove
<1>1. flows' \in [Flows -> FlowRows]
  BY AuthTypes
<1>2. /\ flows'[f] = r
      /\ \A g \in Flows \ {f} : flows'[g] = flows[g]
  BY AuthTypes
<1>3. ClaimsMatch'
  BY <1>2 DEF AuthInv, ClaimsMatch
<1>4. OneActiveFlow'
  BY <1>2 DEF AuthInv, OneActiveFlow, ActiveFlows
<1>5. \A g \in Flows : flows[g].status \in Ended => flows'[g].status \in Ended
  BY <1>2 DEF ActiveFlows, ActiveFlowStatuses, ClaimedStatuses, Ended
<1> QED
  BY <1>1, <1>3, <1>4, <1>5 DEF FlowsMove

(* A verdict, and the restart of a flow. *)
LEMMA ConcludedMoves ==
    ASSUME AuthInv, NEW f \in ActiveFlows, NEW status \in Ended,
           flows' = Concluded(f, status)
    PROVE  FlowsMove
<1>1. f \in Flows /\ flows[f] \in FlowRows
  BY AuthTypes
<1>2. Verdicted(f, status) \in FlowRows /\ Verdicted(f, status).status = status
  BY <1>1 DEF Verdicted, NoFlow, FlowRows, Ended, Statuses
<1>3. PICK r \in FlowRows : r = Verdicted(f, status)
  BY <1>2
<1>4. flows' = [flows EXCEPT ![f] = r]
  BY <1>3 DEF Concluded
<1>5. r.status \notin {"absent", "starting", "prompted"}
  BY <1>2, <1>3 DEF Ended
<1> QED
  BY <1>1, <1>4, <1>5, OneRowMoves

LEMMA RestartedMoves ==
    ASSUME AuthInv, NEW f \in ActiveFlows, flows' = Restarted(f)
    PROVE  FlowsMove
<1>1. f \in Flows /\ flows[f] \in FlowRows
  BY AuthTypes
<1>2. PICK r \in FlowRows :
        r = [flows[f] EXCEPT !.status = "starting", !.by = NoOne,
                             !.url = NoOne, !.stale = FALSE]
  BY <1>1 DEF FlowRows, Statuses
<1>3. flows' = [flows EXCEPT ![f] = r]
  BY <1>2 DEF Restarted
<1>4. r.status = "starting" /\ r.by = NoOne /\ r.url = NoOne
  BY <1>1, <1>2 DEF FlowRows
<1> QED
  BY <1>1, <1>3, <1>4, OneRowMoves

(* A cancel ends all flows it names. *)
LEMMA CanceledMove ==
    ASSUME AuthInv, NEW fs \in SUBSET Flows, flows' = CanceledFlows(fs)
    PROVE  FlowsMove /\ ActiveFlows' = ActiveFlows \ fs
<1>1. \A f \in Flows : /\ Verdicted(f, "canceled") \in FlowRows
                       /\ Verdicted(f, "canceled").status = "canceled"
  BY AuthTypes DEF Verdicted, NoFlow, FlowRows, Statuses
<1>2. flows' \in [Flows -> FlowRows]
  BY <1>1, AuthTypes DEF CanceledFlows
<1>3. \A f \in Flows : IF f \in fs \cap ActiveFlows
                       THEN flows'[f].status = "canceled" ELSE flows'[f] = flows[f]
  BY <1>1 DEF CanceledFlows
<1>4. ActiveFlows' = ActiveFlows \ fs
  BY <1>3 DEF ActiveFlows, ActiveFlowStatuses, ClaimedStatuses
<1>5. ClaimsMatch'
  BY <1>3 DEF AuthInv, ClaimsMatch
<1>6. OneActiveFlow'
  BY <1>4 DEF AuthInv, OneActiveFlow
<1>7. \A f \in Flows : flows[f].status \in Ended => flows'[f].status \in Ended
  BY <1>3 DEF Ended
<1> QED
  BY <1>2, <1>4, <1>5, <1>6, <1>7 DEF FlowsMove

(* With a statement on the flows, what is left of the invariant is about    *)
(* the tasks and the credential.                                            *)
LEMMA FlowsMoveInv ==
    ASSUME AuthInv, FlowsMove, signIns' \in [Tasks -> SignInRows],
           \A t \in Tasks : signIns'[t].step # "idle" => signIns'[t].flow \in Flows,
           UNCHANGED <<tabs, withdrawn>>,
           \/ UNCHANGED credential
           \/ credential' = NoOne
           \/ /\ credential' \in [item : Flows, by : Tasks]
              /\ flows[credential'.item].status \notin Ended
    PROVE  AuthInv'
<1>1. AuthTypeOK'
  BY DEF AuthInv, AuthTypeOK, FlowsMove, FlowRows, SignInRows
<1>2. TasksHaveFlows'
  BY DEF TasksHaveFlows
<1>3. WithdrawnIsOver'
  BY DEF AuthInv, WithdrawnIsOver, FlowsMove, AuthTypeOK
<1> QED
  BY <1>1, <1>2, <1>3 DEF AuthInv, FlowsMove

-----------------------------------------------------------------------------
(* The tasks *)

(* A task goes to another step, or its slot is free again. *)
LEMMA TaskRow ==
    ASSUME AuthInv, NEW t \in Tasks, NEW step \in TaskSteps
    PROVE  /\ [signIns EXCEPT ![t].step = step] \in [Tasks -> SignInRows]
           /\ [signIns EXCEPT ![t] = IdleTask] \in [Tasks -> SignInRows]
           /\ \A signal \in {"none", "aborted", "shutdown"} :
                 [signIns EXCEPT ![t].signal = signal] \in [Tasks -> SignInRows]
           /\ [signIns EXCEPT ![t] = [IdleTask EXCEPT !.step = step,
                                                      !.flow = signIns[t].flow]]
                 \in [Tasks -> SignInRows]
  BY AuthTypes DEF SignInRows, IdleTask, TaskSteps

(* What a step makes of a task's row, if it leaves its flow alone. *)
TaskMoves(t) ==
    /\ signIns' \in [Tasks -> SignInRows]
    /\ \A u \in Tasks \ {t} : signIns'[u] = signIns[u]
    /\ signIns'[t].step # "idle" =>
          signIns[t].step # "idle" /\ signIns'[t].flow = signIns[t].flow

LEMMA TaskGoes ==
    ASSUME AuthInv, NEW t \in Tasks, signIns[t].step # "idle",
           \/ \E step \in TaskSteps : Goes(t, step)
           \/ Ends(t)
           \/ \E verdict \in TaskSteps : signIns' = Failing(t, verdict)
           \/ \E signal \in {"none", "aborted", "shutdown"} :
                 signIns' = [signIns EXCEPT ![t].signal = signal]
    PROVE  TaskMoves(t)
<1>1. ASSUME NEW step \in TaskSteps, Goes(t, step) PROVE TaskMoves(t)
  <2>1. signIns' = [signIns EXCEPT ![t].step = step]
    BY <1>1 DEF Goes
  <2>2. signIns' \in [Tasks -> SignInRows]
    BY <2>1, TaskRow
  <2> QED
    BY <2>1, <2>2, AuthTypes DEF TaskMoves, SignInRows
<1>2. CASE Ends(t)
  BY <1>2, AuthTypes, TaskRow DEF Ends, TaskMoves, IdleTask, SignInRows, TaskSteps
<1>3. ASSUME NEW verdict \in TaskSteps, signIns' = Failing(t, verdict)
      PROVE  TaskMoves(t)
  <2>1. signIns' = [signIns EXCEPT ![t] = [IdleTask EXCEPT !.step = verdict,
                                                    !.flow = signIns[t].flow]]
    BY <1>3 DEF Failing
  <2>2. signIns' \in [Tasks -> SignInRows]
    BY <2>1, TaskRow
  <2>3. signIns'[t].flow = signIns[t].flow
    BY <2>1, AuthTypes DEF IdleTask
  <2> QED
    BY <2>1, <2>2, <2>3, AuthTypes DEF TaskMoves
<1>4. ASSUME NEW signal \in {"none", "aborted", "shutdown"},
             signIns' = [signIns EXCEPT ![t].signal = signal]
      PROVE  TaskMoves(t)
  <2>1. signIns' \in [Tasks -> SignInRows]
    BY <1>4, AuthTypes DEF SignInRows
  <2>2. signIns'[t].flow = signIns[t].flow
    BY <1>4, AuthTypes DEF SignInRows
  <2>3. \A u \in Tasks \ {t} : signIns'[u] = signIns[u]
    BY <1>4, AuthTypes
  <2> QED
    BY <2>1, <2>2, <2>3 DEF TaskMoves
<1> QED
  BY <1>1, <1>2, <1>3, <1>4

LEMMA TaskMovesInv ==
    ASSUME AuthInv, FlowsMove, NEW t \in Tasks, TaskMoves(t),
           UNCHANGED <<tabs, withdrawn>>,
           \/ UNCHANGED credential
           \/ /\ credential' \in [item : Flows, by : Tasks]
              /\ flows[credential'.item].status \notin Ended
    PROVE  AuthInv'
<1>1. \A u \in Tasks : signIns'[u].step # "idle" => signIns'[u].flow \in Flows
  BY DEF AuthInv, TasksHaveFlows, TaskMoves
<1> QED
  BY <1>1, FlowsMoveInv DEF TaskMoves

(* The tasks at work have a flow, and a claimed flow is active. *)
LEMMA TaskAtWork ==
    ASSUME AuthInv, NEW t \in Tasks, signIns[t].step # "idle"
    PROVE  /\ signIns[t].flow \in Flows
           /\ Owns(t, signIns[t].flow) => signIns[t].flow \in ActiveFlows
  BY DEF AuthInv, TasksHaveFlows, Owns, ActiveFlows, ActiveFlowStatuses

LEMMA SelectInv ==
    ASSUME AuthInv, NEW t \in Tasks, SelectPending(t) PROVE AuthInv'
<1>1. PICK f \in Flows :
        signIns' = [signIns EXCEPT ![t].step = "claim", ![t].flow = f]
  BY DEF SelectPending
<1>2. signIns' \in [Tasks -> SignInRows]
  BY <1>1, AuthTypes DEF SignInRows, TaskSteps
<1>3. \A u \in Tasks : signIns'[u].step # "idle" => signIns'[u].flow \in Flows
  BY <1>1, AuthTypes DEF AuthInv, TasksHaveFlows, SignInRows
<1>4. FlowsMove
  BY FlowsStay DEF SelectPending
<1> QED
  BY <1>2, <1>3, <1>4, FlowsMoveInv DEF SelectPending

LEMMA ClaimInv ==
    ASSUME AuthInv, NEW t \in Tasks, ClaimFlow(t) PROVE AuthInv'
<1> DEFINE f == signIns[t].flow
<1>1. signIns[t].step # "idle" /\ f \in Flows /\ flows[f] \in FlowRows
  BY TaskAtWork, AuthTypes DEF ClaimFlow
<1>2. TaskMoves(t)
  BY <1>1, TaskGoes DEF ClaimFlow, TaskSteps
<1>3. CASE flows[f].status = "starting"
  <2>1. PICK r \in FlowRows :
          r = [flows[f] EXCEPT !.status = "processing", !.by = t, !.stale = FALSE]
    BY <1>1 DEF FlowRows, Statuses
  <2>2. flows' = [flows EXCEPT ![f] = r]
    BY <1>3, <2>1 DEF ClaimFlow
  <2>3. r.status = "processing" /\ f \in ActiveFlows
    BY <1>1, <1>3, <2>1 DEF FlowRows, ActiveFlows, ActiveFlowStatuses
  <2>4. FlowsMove
    <3>1. PICK g \in Flows : g = f
      BY <1>1
    <3> QED
      BY <2>2, <2>3, <3>1, OneRowMoves
  <2> QED
    BY <1>2, <2>4, TaskMovesInv DEF ClaimFlow
<1>4. CASE flows[f].status # "starting"
  <2>1. FlowsMove
    BY <1>4, FlowsStay DEF ClaimFlow
  <2> QED
    BY <1>2, <2>1, TaskMovesInv DEF ClaimFlow
<1> QED
  BY <1>3, <1>4

LEMMA PublishUrlInv ==
    ASSUME AuthInv, NEW t \in Tasks, PublishUrl(t) PROVE AuthInv'
<1> DEFINE f == signIns[t].flow
<1>1. signIns[t].step # "idle" /\ f \in Flows /\ flows[f] \in FlowRows
  BY TaskAtWork, AuthTypes DEF PublishUrl
<1>2. TaskMoves(t)
  BY <1>1, TaskGoes DEF PublishUrl, TaskSteps
<1>3. CASE /\ Owns(t, f)
           /\ flows' = [flows EXCEPT ![f].status = "prompted", ![f].url = t]
  <2>1. PICK r \in FlowRows : r = [flows[f] EXCEPT !.status = "prompted", !.url = t]
    BY <1>1 DEF FlowRows, Statuses
  <2>2. flows' = [flows EXCEPT ![f] = r]
    BY <1>3, <2>1
  <2>3. r.status = "prompted" /\ r.url = r.by /\ f \in ActiveFlows
    BY <1>1, <1>3, <2>1, TaskAtWork DEF FlowRows, Owns
  <2>4. FlowsMove
    <3>1. PICK g \in Flows : g = f
      BY <1>1
    <3> QED
      BY <2>2, <2>3, <3>1, OneRowMoves
  <2> QED
    BY <1>2, <2>4, TaskMovesInv DEF PublishUrl
<1>4. CASE UNCHANGED flows
  BY <1>2, <1>4, FlowsStay, TaskMovesInv DEF PublishUrl
<1> QED
  BY <1>3, <1>4 DEF PublishUrl

LEMMA LoginInv ==
    ASSUME AuthInv, NEW t \in Tasks, LoginSucceeds(t) \/ LoginThrows(t)
    PROVE  AuthInv'
<1>1. TaskMoves(t)
  <2>1. Verdict(t) \in TaskSteps
    BY AuthTypes DEF Verdict, TaskSteps, SignInRows
  <2> QED
    BY <2>1, TaskGoes DEF LoginSucceeds, LoginThrows, TaskSteps
<1>2. FlowsMove
  BY FlowsStay DEF LoginSucceeds, LoginThrows
<1> QED
  BY <1>1, <1>2, TaskMovesInv DEF LoginSucceeds, LoginThrows

LEMMA CompleteInv ==
    ASSUME AuthInv, NEW t \in Tasks, CompleteFlow(t) PROVE AuthInv'
<1> DEFINE f == signIns[t].flow
<1>1. signIns[t].step # "idle" /\ f \in Flows /\ flows[f] \in FlowRows
  BY TaskAtWork, AuthTypes DEF CompleteFlow
<1>2. TaskMoves(t)
  <2>1. Verdict(t) \in TaskSteps
    BY AuthTypes DEF Verdict, TaskSteps, SignInRows
  <2> QED
    BY <1>1, <2>1, TaskGoes DEF CompleteFlow
<1>3. CASE Completes(t, f)
  <2>1. f \in ActiveFlows
    BY <1>1, <1>3, TaskAtWork DEF Completes
  <2>2. FlowsMove
    <3>1. PICK g \in ActiveFlows : g = f
      BY <2>1
    <3> QED
      BY <1>3, <3>1, ConcludedMoves DEF Completes, Ended
  <2>3. /\ credential' \in [item : Flows, by : Tasks]
        /\ flows[credential'.item].status \notin Ended
    BY <1>1, <1>3, <2>1
       DEF Completes, ActiveFlows, ActiveFlowStatuses, ClaimedStatuses, Ended
  <2> QED
    BY <1>2, <2>2, <2>3, TaskMovesInv DEF CompleteFlow
<1>4. CASE UNCHANGED <<flows, credential>>
  BY <1>2, <1>4, FlowsStay, TaskMovesInv DEF CompleteFlow
<1> QED
  BY <1>3, <1>4 DEF CompleteFlow

LEMMA VerdictInv ==
    ASSUME AuthInv, NEW t \in Tasks, WriteVerdict(t) PROVE AuthInv'
<1> DEFINE f == signIns[t].flow
<1>1. signIns[t].step # "idle" /\ f \in Flows
  BY TaskAtWork DEF WriteVerdict
<1>2. TaskMoves(t)
  BY <1>1, TaskGoes DEF WriteVerdict
<1>3. CASE Owns(t, f) /\ flows' # flows
  <2>1. PICK g \in ActiveFlows : g = f
    BY <1>1, <1>3, TaskAtWork
  <2>2. CASE signIns[t].step = "release"
    <3>1. flows' = Restarted(g)
      BY <1>3, <2>1, <2>2 DEF WriteVerdict
    <3> QED
      BY <1>2, <3>1, RestartedMoves, TaskMovesInv DEF WriteVerdict
  <2>3. CASE signIns[t].step # "release"
    <3>1. PICK status \in Ended : status = signIns[t].step
      BY <2>3 DEF WriteVerdict, Ended
    <3>2. flows' = Concluded(g, status)
      BY <1>3, <2>1, <2>3, <3>1 DEF WriteVerdict
    <3> QED
      BY <1>2, <3>2, ConcludedMoves, TaskMovesInv DEF WriteVerdict
  <2> QED
    BY <2>2, <2>3
<1>4. CASE UNCHANGED flows
  BY <1>2, <1>4, FlowsStay, TaskMovesInv DEF WriteVerdict
<1> QED
  BY <1>3, <1>4 DEF WriteVerdict

(* What happens meanwhile. *)
LEMMA RenewInv ==
    ASSUME AuthInv, NEW t \in Tasks, RenewLease(t) PROVE AuthInv'
<1> DEFINE f == signIns[t].flow
<1>1. signIns[t].step # "idle" /\ f \in Flows /\ flows[f] \in FlowRows
  BY TaskAtWork, AuthTypes DEF RenewLease, Processing
<1>2. CASE /\ Owns(t, f) /\ flows' = [flows EXCEPT ![f].stale = FALSE]
           /\ UNCHANGED signIns
  <2>1. PICK r \in FlowRows : r = [flows[f] EXCEPT !.stale = FALSE]
    BY <1>1 DEF FlowRows
  <2>2. flows' = [flows EXCEPT ![f] = r]
    BY <1>2, <2>1
  <2>3. /\ r.status \notin {"absent", "starting"} /\ f \in ActiveFlows
        /\ r.status = "prompted" => r.url = r.by
    BY <1>1, <1>2, <2>1, TaskAtWork
       DEF FlowRows, Owns, ClaimedStatuses, AuthInv, ClaimsMatch
  <2>4. FlowsMove
    <3>1. PICK g \in Flows : g = f
      BY <1>1
    <3> QED
      BY <2>2, <2>3, <3>1, OneRowMoves
  <2>5. \A u \in Tasks : signIns'[u].step # "idle" => signIns'[u].flow \in Flows
    BY <1>2 DEF AuthInv, TasksHaveFlows
  <2> QED
    BY <1>2, <2>4, <2>5, AuthTypes, FlowsMoveInv DEF RenewLease
<1>3. CASE Abort(t) /\ UNCHANGED flows
  <2>1. TaskMoves(t)
    BY <1>1, <1>3, TaskGoes DEF Abort
  <2> QED
    BY <1>3, <2>1, FlowsStay, TaskMovesInv DEF RenewLease
<1> QED
  BY <1>2, <1>3 DEF RenewLease

LEMMA InterruptionInv ==
    ASSUME AuthInv, NEW t \in Tasks, TimeoutFires(t) \/ StopWorker(t) \/ TaskDies(t)
    PROVE  AuthInv'
<1>1. TaskMoves(t)
  BY TaskGoes DEF TimeoutFires, StopWorker, TaskDies, Processing, Abort
<1>2. FlowsMove
  BY FlowsStay DEF TimeoutFires, StopWorker, TaskDies
<1> QED
  BY <1>1, <1>2, TaskMovesInv DEF TimeoutFires, StopWorker, TaskDies

LEMMA TasksStay ==
    ASSUME AuthInv, FlowsMove, UNCHANGED <<credential, signIns, tabs, withdrawn>>
    PROVE  AuthInv'
<1>1. \A t \in Tasks : signIns'[t].step # "idle" => signIns'[t].flow \in Flows
  BY DEF AuthInv, TasksHaveFlows
<1> QED
  BY <1>1, AuthTypes, FlowsMoveInv

LEMMA TickInv ==
    ASSUME AuthInv, ExpireDue \/ ReclaimStale PROVE AuthInv'
<1>1. FlowsMove
  <2>1. CASE ExpireDue
    BY <2>1, ConcludedMoves DEF ExpireDue, Ended
  <2>2. CASE ReclaimStale
    <3>1. PICK f \in ActiveFlows : flows' = Restarted(f)
      BY <2>2 DEF ReclaimStale, ActiveFlows, ActiveFlowStatuses
    <3> QED
      BY <3>1, RestartedMoves
  <2> QED
    BY <2>1, <2>2
<1> QED
  BY <1>1, TasksStay DEF ExpireDue, ReclaimStale

LEMMA ClockInv ==
    ASSUME AuthInv, NEW f \in Flows, FlowDue(f) \/ LeaseLapses(f) \/ CancelFlow(f)
    PROVE  AuthInv'
<1>1. flows[f] \in FlowRows
  BY AuthTypes
<1>2. FlowsMove
  <2>1. CASE FlowDue(f)
    <3>1. PICK r \in FlowRows : r = [flows[f] EXCEPT !.due = TRUE]
      BY <1>1 DEF FlowRows
    <3>2. flows' = [flows EXCEPT ![f] = r]
      BY <2>1, <3>1 DEF FlowDue
    <3>3. /\ f \in ActiveFlows
          /\ r.status \in {"absent", "starting"} => r.by = NoOne /\ r.url = NoOne
          /\ r.status = "prompted" => r.url = r.by
      BY <1>1, <2>1, <3>1 DEF FlowDue, FlowRows, ActiveFlows, AuthInv, ClaimsMatch
    <3> QED
      BY <3>2, <3>3, OneRowMoves
  <2>2. CASE LeaseLapses(f)
    <3>1. PICK r \in FlowRows : r = [flows[f] EXCEPT !.stale = TRUE]
      BY <1>1 DEF FlowRows
    <3>2. flows' = [flows EXCEPT ![f] = r]
      BY <2>2, <3>1 DEF LeaseLapses
    <3>3. /\ f \in ActiveFlows
          /\ r.status \in {"absent", "starting"} => r.by = NoOne /\ r.url = NoOne
          /\ r.status = "prompted" => r.url = r.by
      BY <1>1, <2>2, <3>1 DEF LeaseLapses, FlowRows, ActiveFlows,
         ActiveFlowStatuses, AuthInv, ClaimsMatch
    <3> QED
      BY <3>2, <3>3, OneRowMoves
  <2>3. CASE CancelFlow(f)
    BY <2>3, CanceledMove DEF CancelFlow
  <2> QED
    BY <2>1, <2>2, <2>3
<1> QED
  BY <1>2, TasksStay DEF FlowDue, LeaseLapses, CancelFlow

-----------------------------------------------------------------------------
(* The settings page *)

LEMMA PostInv ==
    ASSUME AuthInv, NEW b \in Tabs, PostCancels(b) \/ PostInserts(b) \/ RequestFails(b)
    PROVE  AuthInv'
<1>1. FlowsMove
  <2>1. CASE PostCancels(b)
    <3>1. PICK fs \in SUBSET Flows : fs = Flows
      OBVIOUS
    <3> QED
      BY <2>1, <3>1, CanceledMove, FlowsStay DEF PostCancels
  <2>2. CASE PostInserts(b) /\ ActiveFlows = {} /\ flows' # flows
    <3>1. PICK f \in Flows : /\ flows[f].status = "absent"
                             /\ flows' = [flows EXCEPT ![f].status = "starting"]
      BY <2>2 DEF PostInserts
    <3>2. PICK r \in FlowRows : r = [flows[f] EXCEPT !.status = "starting"]
      BY AuthTypes DEF FlowRows, Statuses
    <3>3. flows' = [flows EXCEPT ![f] = r]
      BY <3>1, <3>2
    <3>4. r.status = "starting" /\ r.by = NoOne /\ r.url = NoOne
      BY <3>1, <3>2, AuthTypes DEF FlowRows, AuthInv, ClaimsMatch
    <3>5. flows[f].status \notin Ended
      BY <3>1 DEF Ended
    <3> QED
      BY <2>2, <3>3, <3>4, <3>5, OneRowMoves
  <2>3. CASE UNCHANGED flows
    BY <2>3, FlowsStay
  <2> QED
    BY <2>1, <2>2, <2>3 DEF PostInserts, RequestFails
<1>2. /\ tabs' \in [Tabs -> [doing : {"idle", "insert", "disconnect"},
                             seen : SUBSET Flows]]
      /\ \A a \in Tabs : tabs'[a].seen \subseteq tabs[a].seen
  <2>1. \/ tabs' = [tabs EXCEPT ![b].doing = "insert"]
        \/ tabs' = [tabs EXCEPT ![b] = IdleTab]
    BY DEF PostCancels, PostInserts, RequestFails
  <2>2. tabs \in [Tabs -> [doing : {"idle", "insert", "disconnect"},
                          seen : SUBSET Flows]]
    BY DEF AuthInv, AuthTypeOK
  <2>3. CASE tabs' = [tabs EXCEPT ![b].doing = "insert"]
    BY <2>2, <2>3
  <2>4. CASE tabs' = [tabs EXCEPT ![b] = IdleTab]
    BY <2>2, <2>4 DEF IdleTab
  <2> QED
    BY <2>1, <2>3, <2>4
<1>3. /\ UNCHANGED <<signIns, withdrawn>>
      /\ credential' = credential \/ credential' = NoOne
  BY DEF PostCancels, PostInserts, RequestFails
<1>4. AuthTypeOK'
  BY <1>1, <1>2, <1>3 DEF AuthInv, AuthTypeOK, FlowsMove, FlowRows
<1>5. WithdrawnIsOver'
  BY <1>1, <1>2, <1>3 DEF AuthInv, WithdrawnIsOver, FlowsMove, AuthTypeOK
<1>6. TasksHaveFlows'
  BY <1>3 DEF AuthInv, TasksHaveFlows
<1> QED
  BY <1>1, <1>4, <1>5, <1>6 DEF AuthInv, FlowsMove

LEMMA DisconnectInv ==
    ASSUME AuthInv, NEW b \in Tabs, DisconnectBegins(b) \/ DisconnectEnds(b)
    PROVE  AuthInv'
<1>1. CASE DisconnectBegins(b)
  <2>1. PICK carried \in BOOLEAN :
          /\ flows' = IF carried THEN CanceledFlows(Flows) ELSE flows
          /\ tabs' = [tabs EXCEPT ![b] =
                        [doing |-> "disconnect",
                         seen |-> IF carried THEN Known ELSE Known \ ActiveFlows]]
          /\ UNCHANGED <<credential, signIns, withdrawn>>
    BY <1>1 DEF DisconnectBegins, DisconnectOrder, Statement
  <2>2. FlowsMove /\ (carried => ActiveFlows' = {})
    <3>1. PICK fs \in SUBSET Flows : fs = Flows
      OBVIOUS
    <3>2. ActiveFlows \ Flows = {}
      BY DEF ActiveFlows
    <3> QED
      BY <2>1, <3>1, <3>2, CanceledMove, FlowsStay
  <2> DEFINE seen == IF carried THEN Known ELSE Known \ ActiveFlows
  <2>8. seen \subseteq Flows
    BY DEF Known
  <2>3. \A f \in seen : flows'[f].status \in Ended
    <3> SUFFICES ASSUME NEW f \in seen PROVE flows'[f].status \in Ended
      OBVIOUS
    <3>1. CASE f \in ActiveFlows
      <4>1. carried /\ flows' = CanceledFlows(Flows) /\ f \in Flows
        BY <2>1, <3>1 DEF ActiveFlows
      <4> QED
        BY <3>1, <4>1 DEF CanceledFlows, Verdicted, NoFlow, Ended
    <3>2. CASE f \notin ActiveFlows
      <4>1. f \in Flows /\ flows[f].status \in Ended
        BY <3>2, AuthTypes
           DEF FlowRows, Statuses, Known, ActiveFlows, ActiveFlowStatuses, ClaimedStatuses, Ended
      <4> QED
        BY <2>2, <4>1 DEF FlowsMove
    <3> QED
      BY <3>1, <3>2
  <2>4. tabs' = [tabs EXCEPT ![b] = [doing |-> "disconnect", seen |-> seen]]
    BY <2>1
  <2> HIDE DEF seen
  <2>5. AuthTypeOK'
    BY <2>1, <2>2, <2>4, <2>8 DEF AuthInv, AuthTypeOK, FlowsMove, FlowRows
  <2>6. WithdrawnIsOver'
    BY <2>1, <2>2, <2>3, <2>4, <2>8 DEF AuthInv, WithdrawnIsOver, FlowsMove, AuthTypeOK
  <2>7. TasksHaveFlows'
    BY <2>1 DEF AuthInv, TasksHaveFlows
  <2> QED
    BY <2>2, <2>5, <2>6, <2>7 DEF AuthInv, FlowsMove
<1>2. CASE DisconnectEnds(b)
  <2>1. /\ credential' = NoOne /\ withdrawn' = withdrawn \cup tabs[b].seen
        /\ UNCHANGED <<flows, signIns>>
    BY <1>2 DEF DisconnectEnds, DisconnectOrder, Statement
  <2>2. tabs' = [tabs EXCEPT ![b] = IdleTab]
    BY <1>2 DEF DisconnectEnds
  <2>3. AuthTypeOK'
    BY <2>1, <2>2 DEF AuthInv, AuthTypeOK, IdleTab
  <2>4. WithdrawnIsOver'
    BY <2>1, <2>2 DEF AuthInv, WithdrawnIsOver, IdleTab, AuthTypeOK
  <2>5. TasksHaveFlows' /\ ClaimsMatch' /\ OneActiveFlow'
    BY <2>1 DEF AuthInv, TasksHaveFlows, ClaimsMatch, OneActiveFlow, ActiveFlows
  <2> QED
    BY <2>3, <2>4, <2>5 DEF AuthInv
<1> QED
  BY <1>1, <1>2

LEMMA AuthStutterInv == ASSUME AuthInv, UNCHANGED authVars PROVE AuthInv'
  BY DEF authVars, AuthInv, AuthTypeOK, TasksHaveFlows, ClaimsMatch,
     OneActiveFlow, ActiveFlows, WithdrawnIsOver

LEMMA AuthStepInv == AuthInv /\ [AuthNext]_authVars => AuthInv'
  BY SelectInv, ClaimInv, PublishUrlInv, LoginInv, CompleteInv, VerdictInv,
     RenewInv, InterruptionInv, TickInv, ClockInv, PostInv, DisconnectInv,
     AuthStutterInv
     DEF AuthNext, SignInStep, Meanwhile, TabStep

LEMMA AuthInvariance == AuthSpec => []AuthInv
  BY AuthInitInv, AuthStepInv, PTL DEF AuthSpec

(* The page shows only the URL of the task that polls for it, and a         *)
(* disconnect that was answered is not undone by a sign-in that it canceled *)
(* or that was over before, whatever tasks are replaced and requests cut    *)
(* off.                                                                     *)
THEOREM SignInStaysCurrent == AuthSpec => []SignInIsCurrent
<1>1. AuthInv => SignInIsCurrent
  BY DEF AuthInv, SignInIsCurrent, ClaimsMatch, WithdrawnIsOver
<1> QED
  BY <1>1, AuthInvariance, PTL

-----------------------------------------------------------------------------
(* The refinement *)

(* What a flow is to the lease: who holds it, and its outcome.              *)
SameToLease(f) == flows'[f].by = flows[f].by /\ Outcome(f)' = Outcome(f)

LEMMA LeaseStutters ==
    ASSUME \A f \in Flows : SameToLease(f), UNCHANGED credential
    PROVE  UNCHANGED Lease!vars
  BY DEF SameToLease, Lease!vars

LEMMA OutcomeOpen ==
    ASSUME NEW f \in ActiveFlows PROVE f \in Flows /\ Outcome(f) = "open"
  BY DEF Outcome, ActiveFlows, ActiveFlowStatuses, ClaimedStatuses

(* A row that is not written keeps its outcome. *)
LEMMA OutcomeKept ==
    ASSUME NEW g, flows'[g] = flows[g] PROVE Outcome(g)' = Outcome(g)
  BY DEF Outcome

(* A verdict other than success closes the flow. *)
LEMMA LeaseCloses ==
    ASSUME AuthInv, NEW f \in ActiveFlows, NEW status \in {"expired", "error", "canceled"},
           flows' = Concluded(f, status), UNCHANGED credential
    PROVE  Lease!Next
<1>1. f \in Flows /\ Outcome(f) = "open"
  BY OutcomeOpen
<1>2. /\ flows'[f].by = flows[f].by /\ flows'[f].status = status
      /\ \A g \in Flows \ {f} : flows'[g] = flows[g]
  BY <1>1, AuthTypes DEF Concluded, Verdicted, NoFlow
<1>3. Outcome(f)' = "closed"
  BY <1>2 DEF Outcome, ActiveFlowStatuses, ClaimedStatuses
<1>4. [g \in Flows |-> Outcome(g)]' = [[g \in Flows |-> Outcome(g)] EXCEPT ![f] = "closed"]
  BY <1>1, <1>2, <1>3, OutcomeKept
<1>5. [g \in Flows |-> flows[g].by]' = [g \in Flows |-> flows[g].by]
  BY <1>2
<1>6. Lease!Close(f)
  BY <1>1, <1>4, <1>5 DEF Lease!Close
<1> QED
  BY <1>1, <1>6 DEF Lease!Next

(* A restart takes the flow from whoever held it. *)
LEMMA LeaseLapsed ==
    ASSUME AuthInv, NEW f \in ActiveFlows, flows' = Restarted(f), UNCHANGED credential
    PROVE  Lease!Next
<1>1. f \in Flows /\ Outcome(f) = "open" /\ flows[f] \in FlowRows
  BY OutcomeOpen, AuthTypes
<1>2. /\ flows'[f].by = NoOne /\ flows'[f].status = "starting"
      /\ \A g \in Flows \ {f} : flows'[g] = flows[g]
  BY <1>1, AuthTypes DEF Restarted, FlowRows
<1>3. Outcome(f)' = "open"
  BY <1>2 DEF Outcome, ActiveFlowStatuses
<1>4. [g \in Flows |-> Outcome(g)]' = [g \in Flows |-> Outcome(g)]
  BY <1>1, <1>2, <1>3, OutcomeKept
<1>5. [g \in Flows |-> flows[g].by]'
        = [[g \in Flows |-> flows[g].by] EXCEPT ![f] = NoOne]
  BY <1>1, <1>2
<1>6. Lease!Lapse(f)
  BY <1>1, <1>4, <1>5 DEF Lease!Lapse
<1> QED
  BY <1>1, <1>6 DEF Lease!Next

(* A cancel closes the one flow that is active, if it names it.             *)
LEMMA LeaseCanceled ==
    ASSUME AuthInv, NEW fs \in SUBSET Flows, flows' = CanceledFlows(fs),
           UNCHANGED credential
    PROVE  [Lease!Next]_Lease!vars
<1>1. CASE fs \cap ActiveFlows = {}
  <2>1. \A f \in Flows : flows'[f] = flows[f]
    BY <1>1 DEF CanceledFlows
  <2> QED
    BY <2>1, LeaseStutters DEF SameToLease, Outcome
<1>2. ASSUME NEW f \in fs \cap ActiveFlows PROVE Lease!Next
  <2>1. fs \cap ActiveFlows = {f}
    BY <1>2 DEF AuthInv, OneActiveFlow
  <2>2. flows' = Concluded(f, "canceled")
    BY <2>1, AuthTypes DEF CanceledFlows, Concluded
  <2> QED
    BY <2>2, LeaseCloses
<1> QED
  BY <1>1, <1>2

LEMMA ClaimAcquires ==
    ASSUME AuthInv, NEW t \in Tasks, ClaimFlow(t), NEW f, f = signIns[t].flow
    PROVE  [Lease!Next]_Lease!vars
<1>1. f \in Flows /\ flows[f] \in FlowRows
  BY TaskAtWork, AuthTypes DEF ClaimFlow
<1>2. CASE flows[f].status = "starting"
  <2>1. flows' = [flows EXCEPT ![f].status = "processing", ![f].by = t,
                               ![f].stale = FALSE]
    BY <1>2 DEF ClaimFlow
  <2>2. /\ flows'[f].by = t /\ flows'[f].status = "processing"
        /\ \A g \in Flows \ {f} : flows'[g] = flows[g]
    BY <1>1, <2>1, AuthTypes DEF FlowRows
  <2>3. Outcome(f) = "open" /\ Outcome(f)' = "open"
    BY <1>2, <2>2 DEF Outcome, ActiveFlowStatuses, ClaimedStatuses
  <2>4. [g \in Flows |-> Outcome(g)]' = [g \in Flows |-> Outcome(g)]
    BY <2>2, <2>3, OutcomeKept
  <2>5. [g \in Flows |-> flows[g].by]'
          = [[g \in Flows |-> flows[g].by] EXCEPT ![f] = t]
    BY <1>1, <2>2
  <2>6. flows[f].by = NoOne
    BY <1>1, <1>2 DEF AuthInv, ClaimsMatch
  <2>7. Lease!Acquire(f, t)
    BY <1>1, <2>3, <2>4, <2>5, <2>6 DEF Lease!Acquire, ClaimFlow
  <2> QED
    BY <1>1, <2>7 DEF Lease!Next
<1>3. CASE flows[f].status # "starting"
  BY <1>3, LeaseStutters DEF ClaimFlow, SameToLease, Outcome
<1> QED
  BY <1>2, <1>3

LEMMA CompleteCommits ==
    ASSUME AuthInv, NEW t \in Tasks, CompleteFlow(t), NEW f, f = signIns[t].flow
    PROVE  [Lease!Next]_Lease!vars
<1>1. f \in Flows
  BY TaskAtWork DEF CompleteFlow
<1>2. CASE Completes(t, f)
  <2>1. f \in ActiveFlows /\ flows[f].by = t
    BY <1>2, TaskAtWork DEF Completes, Owns, CompleteFlow
  <2>2. flows' = Concluded(f, "authenticated") /\ credential' = [item |-> f, by |-> t]
    BY <1>2 DEF Completes
  <2>3. /\ flows'[f].by = flows[f].by /\ flows'[f].status = "authenticated"
        /\ \A g \in Flows \ {f} : flows'[g] = flows[g]
    BY <1>1, <2>2, AuthTypes DEF Concluded, Verdicted, NoFlow
  <2>4. Outcome(f) = "open" /\ Outcome(f)' = "done"
    BY <2>1, <2>3, OutcomeOpen DEF Outcome, ActiveFlowStatuses, ClaimedStatuses
  <2>5. [g \in Flows |-> Outcome(g)]' = [[g \in Flows |-> Outcome(g)] EXCEPT ![f] = "done"]
    BY <1>1, <2>3, <2>4, OutcomeKept
  <2>6. [g \in Flows |-> flows[g].by]' = [g \in Flows |-> flows[g].by]
    BY <2>3
  <2>7. Lease!Commit(f, t)
    BY <1>1, <2>1, <2>2, <2>4, <2>5, <2>6 DEF Lease!Commit
  <2> QED
    BY <1>1, <2>7 DEF Lease!Next
<1>3. CASE UNCHANGED <<flows, credential>>
  BY <1>3, LeaseStutters DEF SameToLease, Outcome
<1> QED
  BY <1>2, <1>3 DEF CompleteFlow

LEMMA VerdictCloses ==
    ASSUME AuthInv, NEW t \in Tasks, WriteVerdict(t)
    PROVE  [Lease!Next]_Lease!vars
<1> DEFINE f == signIns[t].flow
<1>1. f \in Flows
  BY TaskAtWork DEF WriteVerdict
<1>2. CASE Owns(t, f) /\ flows' # flows
  <2>1. PICK g \in ActiveFlows : g = f
    BY <1>1, <1>2, TaskAtWork DEF WriteVerdict
  <2>2. CASE signIns[t].step = "release"
    <3>1. flows' = Restarted(g)
      BY <1>2, <2>1, <2>2 DEF WriteVerdict
    <3> QED
      BY <3>1, LeaseLapsed DEF WriteVerdict
  <2>3. CASE signIns[t].step # "release"
    <3>1. PICK status \in {"expired", "error", "canceled"} : status = signIns[t].step
      BY <2>3 DEF WriteVerdict
    <3>2. flows' = Concluded(g, status)
      BY <1>2, <2>1, <2>3, <3>1 DEF WriteVerdict
    <3> QED
      BY <3>2, LeaseCloses DEF WriteVerdict
  <2> QED
    BY <2>2, <2>3
<1>3. CASE UNCHANGED flows
  BY <1>3, LeaseStutters DEF WriteVerdict, SameToLease, Outcome
<1> QED
  BY <1>2, <1>3 DEF WriteVerdict

(* A row is written that is the same to the lease. *)
LEMMA UrlStutters ==
    ASSUME AuthInv, NEW t \in Tasks, PublishUrl(t) \/ RenewLease(t)
    PROVE  UNCHANGED Lease!vars
<1> DEFINE f == signIns[t].flow
<1>1. f \in Flows /\ flows[f] \in FlowRows
  BY TaskAtWork, AuthTypes DEF PublishUrl, RenewLease, Processing
<1>2. CASE /\ Owns(t, f)
           /\ flows' = [flows EXCEPT ![f].status = "prompted", ![f].url = t]
  <2>1. /\ flows'[f].status = "prompted" /\ flows'[f].by = flows[f].by
        /\ \A g \in Flows \ {f} : flows'[g] = flows[g]
    BY <1>1, <1>2, AuthTypes DEF FlowRows
  <2>2. \A g \in Flows : SameToLease(g)
    BY <1>2, <2>1 DEF Owns, SameToLease, Outcome, ActiveFlowStatuses, ClaimedStatuses
  <2> QED
    BY <2>2, LeaseStutters DEF PublishUrl, RenewLease
<1>3. CASE flows' = [flows EXCEPT ![f].stale = FALSE]
  <2>1. /\ flows'[f].status = flows[f].status /\ flows'[f].by = flows[f].by
        /\ \A g \in Flows \ {f} : flows'[g] = flows[g]
    BY <1>1, <1>3, AuthTypes DEF FlowRows
  <2>2. \A g \in Flows : SameToLease(g)
    BY <2>1 DEF SameToLease, Outcome
  <2> QED
    BY <2>2, LeaseStutters DEF PublishUrl, RenewLease
<1>4. CASE UNCHANGED flows
  BY <1>4, LeaseStutters DEF PublishUrl, RenewLease, SameToLease, Outcome
<1> QED
  BY <1>2, <1>3, <1>4 DEF PublishUrl, RenewLease

LEMMA ClockStutters ==
    ASSUME AuthInv, NEW f \in Flows, FlowDue(f) \/ LeaseLapses(f)
    PROVE  UNCHANGED Lease!vars
<1>1. /\ flows'[f].status = flows[f].status /\ flows'[f].by = flows[f].by
      /\ \A g \in Flows \ {f} : flows'[g] = flows[g]
  <2>1. CASE flows' = [flows EXCEPT ![f].due = TRUE]
    BY <2>1, AuthTypes DEF FlowRows
  <2>2. CASE flows' = [flows EXCEPT ![f].stale = TRUE]
    BY <2>2, AuthTypes DEF FlowRows
  <2> QED
    BY <2>1, <2>2 DEF FlowDue, LeaseLapses
<1>2. \A g \in Flows : SameToLease(g)
  BY <1>1 DEF SameToLease, Outcome
<1> QED
  BY <1>2, LeaseStutters DEF FlowDue, LeaseLapses

LEMMA InsertStutters ==
    ASSUME AuthInv, NEW b \in Tabs, PostInserts(b)
    PROVE  UNCHANGED Lease!vars
<1>1. CASE flows' # flows
  <2>1. PICK f \in Flows : /\ flows[f].status = "absent"
                           /\ flows' = [flows EXCEPT ![f].status = "starting"]
    BY <1>1 DEF PostInserts
  <2>2. /\ flows'[f].status = "starting" /\ flows'[f].by = flows[f].by
        /\ \A g \in Flows \ {f} : flows'[g] = flows[g]
    BY <2>1, AuthTypes DEF FlowRows
  <2>3. \A g \in Flows : SameToLease(g)
    BY <2>1, <2>2 DEF SameToLease, Outcome, ActiveFlowStatuses
  <2> QED
    BY <2>3, LeaseStutters DEF PostInserts
<1>2. CASE UNCHANGED flows
  BY <1>2, LeaseStutters DEF PostInserts, SameToLease, Outcome
<1> QED
  BY <1>1, <1>2

(* The steps that leave flows and credential alone. *)
LEMMA OthersStutter ==
    ASSUME UNCHANGED <<flows, credential>> PROVE UNCHANGED Lease!vars
  BY LeaseStutters DEF SameToLease, Outcome

LEMMA DisconnectWithdraws ==
    ASSUME AuthInv, NEW b \in Tabs,
           DisconnectBegins(b) \/ DisconnectEnds(b) \/ RequestFails(b)
    PROVE  [Lease!Next]_Lease!vars
<1>1. CASE DisconnectBegins(b)
  <2>1. PICK fs \in SUBSET Flows : fs = Flows
    OBVIOUS
  <2>2. /\ flows' = CanceledFlows(fs) \/ UNCHANGED flows
        /\ UNCHANGED credential
    BY <1>1, <2>1 DEF DisconnectBegins, DisconnectOrder, Statement
  <2> QED
    BY <2>2, LeaseCanceled, OthersStutter
<1>2. CASE DisconnectEnds(b) \/ RequestFails(b)
  <2>1. UNCHANGED flows /\ (credential' = NoOne \/ UNCHANGED credential)
    BY <1>2 DEF DisconnectEnds, DisconnectOrder, Statement, RequestFails
  <2>2. credential' = NoOne => Lease!Withdraw
    BY <2>1 DEF Lease!Withdraw, Outcome
  <2> QED
    BY <2>1, <2>2, OthersStutter DEF Lease!Next
<1> QED
  BY <1>1, <1>2

LEMMA CancelCloses ==
    ASSUME AuthInv,
           \/ \E b \in Tabs : PostCancels(b)
           \/ \E f \in Flows : CancelFlow(f)
           \/ ExpireDue \/ ReclaimStale
    PROVE  [Lease!Next]_Lease!vars
<1>1. CASE \E b \in Tabs : PostCancels(b)
  <2>1. PICK fs \in SUBSET Flows : fs = Flows
    OBVIOUS
  <2> QED
    BY <1>1, <2>1, LeaseCanceled, OthersStutter DEF PostCancels
<1>2. CASE \E f \in Flows : CancelFlow(f)
  <2>1. PICK f \in Flows : CancelFlow(f)
    BY <1>2
  <2>2. PICK fs \in SUBSET Flows : fs = {f}
    OBVIOUS
  <2> QED
    BY <2>1, <2>2, LeaseCanceled DEF CancelFlow
<1>3. CASE ExpireDue
  BY <1>3, LeaseCloses DEF ExpireDue
<1>4. CASE ReclaimStale
  <2>1. PICK f \in ActiveFlows : flows' = Restarted(f)
    BY <1>4 DEF ReclaimStale, ActiveFlows, ActiveFlowStatuses
  <2> QED
    BY <1>4, <2>1, LeaseLapsed DEF ReclaimStale
<1> QED
  BY <1>1, <1>2, <1>3, <1>4

LEMMA TaskImplementsLease ==
    ASSUME AuthInv, NEW t \in Tasks, SignInStep(t) \/ Meanwhile(t)
    PROVE  [Lease!Next]_Lease!vars
<1>1. CASE SelectPending(t) \/ LoginSucceeds(t) \/ LoginThrows(t)
           \/ TimeoutFires(t) \/ StopWorker(t) \/ TaskDies(t)
  <2>1. UNCHANGED <<flows, credential>>
    BY <1>1 DEF SelectPending, LoginSucceeds, LoginThrows, TimeoutFires,
       StopWorker, TaskDies
  <2> QED
    BY <2>1, OthersStutter
<1> QED
  BY <1>1, ClaimAcquires, CompleteCommits, VerdictCloses, UrlStutters
     DEF SignInStep, Meanwhile

LEMMA PageImplementsLease ==
    ASSUME AuthInv, NEW b \in Tabs, TabStep(b)
    PROVE  [Lease!Next]_Lease!vars
  BY InsertStutters, DisconnectWithdraws, CancelCloses DEF TabStep

LEMMA StepImplementsLease ==
    AuthInv /\ [AuthNext]_authVars => [Lease!Next]_Lease!vars
<1> SUFFICES ASSUME AuthInv, [AuthNext]_authVars PROVE [Lease!Next]_Lease!vars
  OBVIOUS
<1>1. CASE UNCHANGED authVars
  BY <1>1, OthersStutter DEF authVars
<1>2. CASE \E t \in Tasks : SignInStep(t) \/ Meanwhile(t)
  BY <1>2, TaskImplementsLease
<1>3. CASE \E b \in Tabs : TabStep(b)
  BY <1>3, PageImplementsLease
<1>4. CASE ExpireDue \/ ReclaimStale \/ \E f \in Flows : CancelFlow(f)
  BY <1>4, CancelCloses
<1>5. CASE \E f \in Flows : FlowDue(f) \/ LeaseLapses(f)
  BY <1>5, ClockStutters
<1> QED
  BY <1>1, <1>2, <1>3, <1>4, <1>5 DEF AuthNext

(* Signing in is a fenced lease: one task holds a flow, a flow has one      *)
(* outcome, and only the task that holds it then saves a key.               *)
THEOREM SignInImplementsLease == AuthSpec => LeaseSpec
<1>1. AuthInit => Lease!Init
  BY DEF AuthInit, Lease!Init, Outcome, NoFlow
<1> QED
  BY <1>1, StepImplementsLease, AuthInvariance, PTL DEF AuthSpec, LeaseSpec, Lease!Spec

-----------------------------------------------------------------------------
(* The Durable Object delivers sign-ins beside jobs: what is shown of        *)
(* signing in alone holds in the deployment that does both.                  *)
THEOREM DeliveredSignInsAreSignIns == CloudSpec => AuthSpec
<1>1. CloudInit => AuthInit
  BY DEF CloudInit
<1>2. [CloudNext]_cloudVars => [AuthNext]_authVars
  BY DEF CloudNext, cloudVars
<1> QED
  BY <1>1, <1>2, PTL DEF CloudSpec, AuthSpec
=============================================================================
