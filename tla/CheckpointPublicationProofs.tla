--------------------- MODULE CheckpointPublicationProofs ---------------------
(* TLAPS proofs about CheckpointPublication, for every set of jobs, runs    *)
(* and drainers and any limits: it implements SessionLifecycle, so that     *)
(* what is proved of the lifecycle holds of it, and an artifact of code is  *)
(* adopted only with its ref on the remote.                                 *)
EXTENDS CheckpointPublication, SessionOwnershipProofs

-----------------------------------------------------------------------------
(* Typing of the intents and their drainers *)

(* An intent replaced by a well-formed one. *)
LEMMA IntentReplaced ==
    ASSUME PubTypeOK, NEW r \in Runs, NEW p \in IntentRows, IntentOK(p),
           intents' = [intents EXCEPT ![r] = p]
    PROVE  /\ intents' \in [Runs -> IntentRows]
           /\ \A q \in Runs : IntentOK(intents'[q])
<1>1. intents \in [Runs -> IntentRows] /\ \A q \in Runs : IntentOK(intents[q])
  BY DEF PubTypeOK
<1>2. \A q \in Runs : intents'[q] = IF q = r THEN p ELSE intents[q]
  BY <1>1
<1> QED
  BY <1>1, <1>2

LEMMA RetiredIntent ==
    ASSUME PubTypeOK, NEW r \in Runs, intents[r].status # "none", Retire(r)
    PROVE  /\ intents' \in [Runs -> IntentRows]
           /\ \A q \in Runs : IntentOK(intents'[q])
<1> DEFINE p == [intents[r] EXCEPT !.status = "stale", !.claim = 0,
                                   !.leased = FALSE]
<1>1. intents[r] \in IntentRows /\ IntentOK(intents[r])
  BY DEF PubTypeOK
<1>2. p \in IntentRows
  BY <1>1 DEF IntentRows, IntentStatuses
<1>3. IntentOK(p)
  BY <1>1 DEF IntentOK, IntentRows
<1>4. intents' = [intents EXCEPT ![r] = p]
  BY DEF Retire
<1> QED
  BY <1>2, <1>3, <1>4, IntentReplaced

(* What a drainer works on is a run with an intent. *)
LEMMA BusyDrainer ==
    ASSUME PubTypeOK, NEW d \in Drainers, drains[d].step # "idle"
    PROVE  drains[d].run \in Runs
  BY DEF PubTypeOK

LEMMA PubInitTyped == PubInit => PubTypeOK
<1> SUFFICES ASSUME PubInit PROVE PubTypeOK
  OBVIOUS
<1>1. NoIntent \in IntentRows
  BY DEF NoIntent, IntentRows, IntentStatuses
<1>2. IntentOK(NoIntent)
  BY DEF NoIntent, IntentOK
<1>3. \A r \in Runs : intents[r] = NoIntent
  BY DEF PubInit
<1>4. intents \in [Runs -> IntentRows] /\ \A r \in Runs : IntentOK(intents[r])
  BY <1>1, <1>2, <1>3 DEF PubInit
<1> QED
  BY <1>4 DEF PubInit, PubTypeOK, Idle, Steps

LEMMA IntentStepTyped ==
    ASSUME PubTypeOK, IntentStep
    PROVE  PubTypeOK'
<1>1. ASSUME NEW r \in Runs, NEW j \in Jobs, NEW n \in ClaimNumbers,
             NEW v \in VersionNumbers, NEW code \in BOOLEAN,
             Prepare(r, j, n, v, code)
      PROVE  PubTypeOK'
  <2> DEFINE p == NewIntent(j, n, v, code)
  <2>1. intents' = [intents EXCEPT ![r] = p]
    BY <1>1 DEF Prepare
  <2>3. n \in Nat /\ j # None
    BY NoneAssumption, LimitAssumption DEF ClaimNumbers
  <2>4. p \in IntentRows
    BY <2>3 DEF NewIntent, IntentRows, IntentStatuses
  <2>5. IntentOK(p)
    BY <2>3 DEF NewIntent, IntentOK
  <2> HIDE DEF p
  <2> QED
    BY <1>1, <2>1, <2>4, <2>5, IntentReplaced DEF Prepare, PubTypeOK
<1>2. ASSUME NEW r \in Runs, SettleStale(r) \/ SettleOverdue(r)
      PROVE  PubTypeOK'
  BY <1>2, RetiredIntent DEF SettleStale, SettleOverdue, Open, PubTypeOK
<1>3. ASSUME NEW d \in Drainers, NEW r \in Runs, TakeIntent(d, r)
      PROVE  PubTypeOK'
  <2> DEFINE c == intents[r].count + 1
             p == [intents[r] EXCEPT !.status = "claimed", !.claim = c,
                                     !.leased = TRUE, !.count = c]
  <2>1. intents[r] \in IntentRows /\ IntentOK(intents[r])
    BY DEF PubTypeOK
  <2>2. c \in Nat /\ c > 0
    BY <2>1 DEF IntentRows
  <2>3. p \in IntentRows
    BY <2>1, <2>2 DEF IntentRows, IntentStatuses
  <2>4. IntentOK(p)
    BY <1>3, <2>1, <2>2 DEF IntentOK, IntentRows, TakeIntent, Open
  <2>5. intents' = [intents EXCEPT ![r] = p]
    BY <1>3 DEF TakeIntent
  <2>6. /\ intents' \in [Runs -> IntentRows]
        /\ \A q \in Runs : IntentOK(intents'[q])
    BY <2>3, <2>4, <2>5, IntentReplaced
  <2>7. /\ drains' = [drains EXCEPT ![d] = [run |-> r, claim |-> c,
                                           step |-> "loaded"]]
        /\ UNCHANGED <<pushes, refs, connected>>
    BY <1>3 DEF TakeIntent
  <2> QED
    BY <2>2, <2>6, <2>7, NoneAssumption DEF PubTypeOK, Steps
<1> QED
  BY <1>1, <1>2, <1>3 DEF IntentStep

LEMMA DrainStepTyped ==
    ASSUME PubTypeOK, DrainStep
    PROVE  PubTypeOK'
<1> USE BusyDrainer, NoneAssumption
<1>1. ASSUME NEW d \in Drainers, BeginPush(d) \/ Verify(d)
      PROVE  PubTypeOK'
  BY <1>1 DEF BeginPush, Verify, PubTypeOK, Steps
<1>2. ASSUME NEW d \in Drainers, Adopt(d)
      PROVE  PubTypeOK'
  <2> DEFINE r == drains[d].run
             p == [intents[r] EXCEPT !.status = "adopted"]
  <2>1. r \in Runs /\ intents[r].status = "claimed"
    BY <1>2 DEF Adopt, Adoptable, HoldsClaim
  <2>2. intents[r] \in IntentRows /\ IntentOK(intents[r])
    BY <2>1 DEF PubTypeOK
  <2>3. p \in IntentRows /\ IntentOK(p)
    BY <2>1, <2>2 DEF IntentOK, IntentRows, IntentStatuses
  <2>4. intents' = [intents EXCEPT ![r] = p]
    BY <1>2 DEF Adopt
  <2>5. /\ intents' \in [Runs -> IntentRows]
        /\ \A q \in Runs : IntentOK(intents'[q])
    BY <2>1, <2>3, <2>4, IntentReplaced
  <2>6. /\ drains' = [drains EXCEPT ![d] = Idle] \/ drains' = drains
        /\ UNCHANGED <<pushes, refs, connected>>
    BY <1>2 DEF Adopt
  <2> QED
    BY <2>5, <2>6 DEF Idle, PubTypeOK, Steps
<1>3. ASSUME NEW d \in Drainers, Release(d)
      PROVE  PubTypeOK'
  <2> DEFINE r == drains[d].run
  <2>1. r \in Runs
    BY <1>3 DEF Release
  <2>2. \/ intents' = intents
        \/ Open(r) /\ Retire(r)
        \/ /\ Open(r)
           /\ intents' = [intents EXCEPT ![r].status = "pending",
                              ![r].claim = 0, ![r].leased = FALSE]
    BY <1>3 DEF Release, Releasable, HoldsClaim, Open
  <2>3. /\ drains' = [drains EXCEPT ![d] = Idle]
        /\ UNCHANGED <<pushes, refs, connected>>
    BY <1>3 DEF Release
  <2>4. CASE intents' = intents
    BY <2>3, <2>4 DEF Idle, PubTypeOK, Steps
  <2>5. CASE Open(r) /\ Retire(r)
    BY <2>1, <2>3, <2>5, RetiredIntent DEF Open, Idle, PubTypeOK, Steps
  <2>6. CASE /\ Open(r)
             /\ intents' = [intents EXCEPT ![r].status = "pending",
                                ![r].claim = 0, ![r].leased = FALSE]
    <3> DEFINE p == [intents[r] EXCEPT !.status = "pending", !.claim = 0,
                                       !.leased = FALSE]
    <3>1. intents[r] \in IntentRows /\ IntentOK(intents[r])
      BY <2>1 DEF PubTypeOK
    <3>2. p \in IntentRows
      BY <3>1 DEF IntentRows, IntentStatuses
    <3>3. IntentOK(p)
      BY <2>6, <3>1 DEF IntentOK, IntentRows, Open
    <3>4. intents' = [intents EXCEPT ![r] = p]
      BY <2>6
    <3>5. /\ intents' \in [Runs -> IntentRows]
          /\ \A q \in Runs : IntentOK(intents'[q])
      BY <2>1, <3>2, <3>3, <3>4, IntentReplaced
    <3> QED
      BY <2>3, <3>5 DEF Idle, PubTypeOK, Steps
  <2> QED
    BY <2>2, <2>4, <2>5, <2>6
<1>4. ASSUME NEW d \in Drainers, Abandon(d)
      PROVE  PubTypeOK'
  BY <1>4 DEF Abandon, Idle, PubTypeOK, Steps
<1> QED
  BY <1>1, <1>2, <1>3, <1>4 DEF DrainStep

LEMMA PubStepTyped == PubTypeOK /\ [PubNext]_allVars => PubTypeOK'
<1> SUFFICES ASSUME PubTypeOK, [PubNext]_allVars PROVE PubTypeOK'
  OBVIOUS
<1>1. CASE LifecycleStep \/ FailureStep \/ UNCHANGED allVars
  <2>1. UNCHANGED pubVars
    BY <1>1 DEF LifecycleStep, FailureStep, WorkerFail, RetireStalled,
                PublishUnprepared, allVars
  <2> QED
    BY <2>1 DEF pubVars, PubTypeOK
<1>2. CASE EnvironmentStep
  <2>1. ASSUME NEW r \in pushes, PushLands(r) \/ PushIsLost(r)
        PROVE  PubTypeOK'
    BY <2>1 DEF PushLands, PushIsLost, PubTypeOK
  <2>2. ASSUME NEW r \in Runs, LeaseExpires(r) \/ DeadlinePasses(r)
        PROVE  PubTypeOK'
    <3>1. intents[r] \in IntentRows /\ IntentOK(intents[r])
      BY DEF PubTypeOK
    <3>2. PICK p \in {[intents[r] EXCEPT !.leased = FALSE],
                      [intents[r] EXCEPT !.overdue = TRUE, !.leased = FALSE]} :
            intents' = [intents EXCEPT ![r] = p]
      BY <2>2 DEF LeaseExpires, DeadlinePasses
    <3>3. p \in IntentRows
      BY <3>1, <3>2 DEF IntentRows
    <3>4. IntentOK(p)
      BY <3>1, <3>2 DEF IntentOK, IntentRows
    <3> QED
      BY <2>2, <3>2, <3>3, <3>4, IntentReplaced
         DEF LeaseExpires, DeadlinePasses, PubTypeOK
  <2>3. CASE Reconnect
    BY <2>3 DEF Reconnect, PubTypeOK
  <2> QED
    BY <1>2, <2>1, <2>2, <2>3 DEF EnvironmentStep
<1> QED
  BY <1>1, <1>2, IntentStepTyped, DrainStepTyped DEF PubNext

(* Every intent, claim and drainer holds values of its columns' types, and  *)
(* the columns of an intent agree: a claim id belongs to a claimed or       *)
(* adopted intent, a lease to a claim before its deadline.                  *)
THEOREM PublicationTypeCorrectness == PubSpec => []PubTypeOK
  BY PubInitTyped, PubStepTyped, PTL DEF PubSpec

-----------------------------------------------------------------------------
(* Refinement *)

(* An adoption is the lifecycle's publication of that claim. *)
LEMMA AdoptPublishes ==
    ASSUME PubTypeOK, NEW d \in Drainers, Adopt(d)
    PROVE  LET p == intents[drains[d].run]
           IN  /\ drains[d].run \in Runs
               /\ p.job \in Jobs /\ p.attempt \in ClaimNumbers
               /\ p.version \in VersionNumbers
               /\ Publish(p.job, p.attempt, drains[d].run, p.version)
<1> DEFINE r == drains[d].run
           p == intents[r]
<1>1. r \in Runs
  BY BusyDrainer DEF Adopt
<1>2. p.status = "claimed" /\ p \in IntentRows
  BY <1>1 DEF Adopt, Adoptable, HoldsClaim, PubTypeOK
<1>3. p.job \in Jobs /\ p.attempt \in ClaimNumbers /\ p.version \in VersionNumbers
  BY <1>1, <1>2 DEF PubTypeOK, IntentRows, IntentOK
<1>4. ~Exhausted(session)
  BY DEF Adopt, Adoptable, Current, IsCurrent
<1>5. /\ PublishAllowed(p.job, p.attempt, r, p.version)
      /\ RecordArtifact(p.job, r, p.version)
      /\ jobs' = [jobs EXCEPT ![p.job].status = "success"]
      /\ UNCHANGED <<completed, control, deferrals, retries, invalidated>>
  BY DEF Adopt
<1> QED
  BY <1>1, <1>3, <1>4, <1>5 DEF Publish

LEMMA StepRefines == PubTypeOK /\ [PubNext]_allVars => [Next]_vars
<1> SUFFICES ASSUME PubTypeOK, [PubNext]_allVars PROVE [Next]_vars
  OBVIOUS
<1>1. CASE LifecycleStep
  BY <1>1 DEF LifecycleStep, Next, WorkerStep
<1>2. CASE FailureStep
  BY <1>2 DEF FailureStep, WorkerFail, RetireStalled, PublishUnprepared, Next,
              WorkerStep
<1>3. CASE IntentStep
  <2>1. ASSUME NEW r \in Runs, SettleOverdue(r)
        PROVE  Next
    <3>1. /\ intents[r].job \in Jobs /\ intents[r].attempt \in ClaimNumbers
          /\ Fail(intents[r].job, intents[r].attempt, r, FALSE)
      BY <2>1 DEF SettleOverdue, Open, PubTypeOK, IntentRows, IntentOK
    <3> QED
      BY <3>1 DEF Next, WorkerStep
  <2>2. UNCHANGED vars \/ \E r \in Runs : SettleOverdue(r)
    BY <1>3 DEF IntentStep, Prepare, SettleStale, TakeIntent
  <2> QED
    BY <2>1, <2>2
<1>4. CASE DrainStep
  <2>1. UNCHANGED vars \/ \E d \in Drainers : Adopt(d)
    BY <1>4 DEF DrainStep, BeginPush, Verify, Release, Abandon
  <2>2. (\E d \in Drainers : Adopt(d)) => Next
    BY AdoptPublishes DEF Next, WorkerStep
  <2> QED
    BY <2>1, <2>2
<1>5. CASE EnvironmentStep
  BY <1>5 DEF EnvironmentStep, PushLands, PushIsLost, LeaseExpires,
              DeadlinePasses, Reconnect
<1>6. CASE UNCHANGED allVars
  BY <1>6 DEF allVars
<1> QED
  BY <1>1, <1>2, <1>3, <1>4, <1>5, <1>6 DEF PubNext

(* Driving outputs through durable intents, expiring leases, retained refs  *)
(* and any number of drainers does to the session only what the lifecycle's *)
(* RPCs do: every behaviour is one of SessionLifecycle.                     *)
THEOREM PublicationImplementsLifecycle == PubSpec => Spec
<1>1. PubInit => Init
  BY DEF PubInit
<1> QED
  BY <1>1, StepRefines, PublicationTypeCorrectness, PTL DEF PubSpec, Spec

-----------------------------------------------------------------------------
(* Proof of the pushed output *)

(* A drainer that has read the ref from the remote can rely on it until the *)
(* intent is given up.                                                      *)
VerifiedHasRef ==
    \A d \in Drainers :
        drains[d].step = "verified" /\ intents[drains[d].run].status # "stale"
            => drains[d].run \in refs

ProofInv == ArtifactHasProof /\ VerifiedHasRef

(* A step that publishes nothing, decides no intent that was published and  *)
(* revives none that was given up.                                          *)
IntentsKept ==
    \A r \in Runs :
        \/ /\ intents'[r].status = intents[r].status
           /\ intents'[r].code = intents[r].code
        \/ /\ intents[r].status # "adopted" /\ intents'[r].status # "adopted"
           /\ runs[r].status # "success"
           /\ intents[r].status = "stale" => intents'[r].status = "stale"

LEMMA ProofKept ==
    ASSUME ProofInv, RunHistoryKept, IntentsKept, refs \subseteq refs'
    PROVE  ArtifactHasProof'
  BY DEF ProofInv, ArtifactHasProof, RunHistoryKept, IntentsKept

LEMMA VerifiedKept ==
    ASSUME PubTypeOK, ProofInv, IntentsKept, refs \subseteq refs',
           \A d \in Drainers : \/ drains'[d] = drains[d]
                               \/ drains'[d].step # "verified"
                               \/ drains'[d].run \in refs
    PROVE  VerifiedHasRef'
<1> SUFFICES ASSUME NEW d \in Drainers, drains'[d] = drains[d],
                    drains[d].step = "verified",
                    intents'[drains[d].run].status # "stale"
             PROVE  drains[d].run \in refs
  BY DEF VerifiedHasRef
<1>1. drains[d].run \in Runs
  BY BusyDrainer
<1>2. intents[drains[d].run].status # "stale"
  BY <1>1 DEF IntentsKept
<1> QED
  BY <1>2 DEF ProofInv, VerifiedHasRef

(* An open intent belongs to an attempt that has not published. *)
LEMMA OpenIsUnpublished ==
    ASSUME ProofInv, NEW r \in Runs, Open(r)
    PROVE  runs[r].status # "success" /\ intents[r].status # "adopted"
  BY DEF ProofInv, ArtifactHasProof, Open

LEMMA LifecycleKeepsRuns ==
    ASSUME TypeInv, LifecycleStep
    PROVE  RunHistoryKept
<1>1. CASE \/ \E j \in Jobs : Claim(j)
           \/ \E j \in Jobs, n \in ClaimNumbers, st \in Stages,
                 v \in VersionNumbers, r \in Runs : Start(j, n, st, v, r)
           \/ \E j \in Jobs, n \in ClaimNumbers, r \in Runs : Complete(j, n, r)
           \/ \E j \in Jobs, n \in ClaimNumbers : Defer(j, n)
  BY <1>1, ClaimTyped, StartTyped, CompleteTyped, DeferTyped
<1>2. CASE ReviewStep
  BY <1>2, ApproveTyped, DeliveryTyped, RejectTyped, RepairTyped
     DEF ReviewStep
<1>3. CASE ControlStep
  BY <1>3, EnqueueTyped, RerouteTyped, CancelTyped, ControlTyped
     DEF ControlStep
<1> QED
  BY <1>1, <1>2, <1>3 DEF LifecycleStep

LEMMA FailureKeepsProof ==
    ASSUME TypeInv, PubTypeOK, ProofInv, FailureStep
    PROVE  ProofInv'
<1>1. UNCHANGED pubVars
  BY DEF FailureStep, WorkerFail, RetireStalled, PublishUnprepared
<1>2. VerifiedHasRef'
  BY <1>1 DEF pubVars, ProofInv, VerifiedHasRef
<1>3. ASSUME NEW j \in Jobs, NEW n \in ClaimNumbers, NEW r \in Runs \cup {None},
             NEW retry \in BOOLEAN, Fail(j, n, r, retry)
      PROVE  ArtifactHasProof'
  <2>1. RunHistoryKept
    BY <1>3, FailTyped
  <2> QED
    BY <1>1, <2>1, ProofKept DEF IntentsKept, pubVars
<1>4. ASSUME NEW j \in Jobs, NEW n \in ClaimNumbers, NEW r \in Runs,
             NEW v \in VersionNumbers, PublishUnprepared(j, n, r, v)
      PROVE  ArtifactHasProof'
  <2>1. /\ intents[r].status = "none" /\ LegacyWorkers
        /\ \A q \in Runs \ {r} : runs'[q] = runs[q]
    BY <1>4 DEF PublishUnprepared, PublishDirect, RecordArtifact, TypeInv, TypeOK
  <2> QED
    BY <1>1, <2>1 DEF pubVars, ProofInv, ArtifactHasProof
<1> QED
  BY <1>2, <1>3, <1>4
     DEF FailureStep, WorkerFail, RetireStalled, ProofInv

LEMMA IntentStepKeepsProof ==
    ASSUME TypeInv, PubTypeOK, ProofInv, IntentStep
    PROVE  ProofInv'
<1>1. intents \in [Runs -> IntentRows]
  BY DEF PubTypeOK
<1>2. ASSUME NEW r \in Runs, NEW j \in Jobs, NEW n \in ClaimNumbers,
             NEW v \in VersionNumbers, NEW code \in BOOLEAN,
             Prepare(r, j, n, v, code)
      PROVE  ProofInv'
  <2>1. /\ UNCHANGED <<vars, drains, refs>>
        /\ intents[r].status = "none" /\ runs[r].status = "running"
        /\ intents' = [intents EXCEPT ![r] = NewIntent(j, n, v, code)]
    BY <1>2 DEF Prepare, IsCurrent
  <2>2. intents'[r].status = "pending"
        /\ \A q \in Runs \ {r} : intents'[q] = intents[q]
    BY <1>1, <2>1 DEF NewIntent
  <2>3. RunHistoryKept /\ IntentsKept
    BY <2>1, <2>2 DEF vars, RunHistoryKept, IntentsKept
  <2> QED
    BY <2>1, <2>3, ProofKept, VerifiedKept DEF ProofInv
<1>3. ASSUME NEW r \in Runs, Open(r), Retire(r)
      PROVE  IntentsKept
  <2>1. intents'[r].status = "stale"
        /\ \A q \in Runs \ {r} : intents'[q] = intents[q]
    BY <1>1, <1>3 DEF Retire, IntentRows
  <2> QED
    BY <1>3, <2>1, OpenIsUnpublished DEF IntentsKept
<1>4. ASSUME NEW r \in Runs, SettleStale(r) \/ SettleOverdue(r)
      PROVE  ProofInv'
  <2>1. IntentsKept /\ UNCHANGED <<drains, refs>>
    BY <1>3, <1>4 DEF SettleStale, SettleOverdue
  <2>2. RunHistoryKept
    <3>1. CASE SettleStale(r)
      BY <3>1 DEF SettleStale, vars, RunHistoryKept
    <3>2. CASE SettleOverdue(r)
      <4>1. /\ intents[r].job \in Jobs /\ intents[r].attempt \in ClaimNumbers
            /\ Fail(intents[r].job, intents[r].attempt, r, FALSE)
        BY <3>2 DEF SettleOverdue, Open, PubTypeOK, IntentRows, IntentOK
      <4> QED
        BY <4>1, FailTyped
    <3> QED
      BY <1>4, <3>1, <3>2
  <2> QED
    BY <2>1, <2>2, ProofKept, VerifiedKept DEF ProofInv
<1>5. ASSUME NEW d \in Drainers, NEW r \in Runs, TakeIntent(d, r)
      PROVE  ProofInv'
  <2>1. /\ UNCHANGED <<vars, refs>> /\ Open(r)
        /\ intents'[r].status = "claimed"
        /\ \A q \in Runs \ {r} : intents'[q] = intents[q]
    BY <1>1, <1>5 DEF TakeIntent, IntentRows
  <2>2. RunHistoryKept /\ IntentsKept
    BY <2>1, OpenIsUnpublished DEF Open, vars, RunHistoryKept, IntentsKept
  <2>3. \A e \in Drainers : drains'[e] = drains[e] \/ drains'[e].step = "loaded"
    BY <1>5 DEF TakeIntent, PubTypeOK
  <2> QED
    BY <2>1, <2>2, <2>3, ProofKept, VerifiedKept DEF ProofInv
<1> QED
  BY <1>2, <1>4, <1>5 DEF IntentStep

LEMMA DrainStepKeepsProof ==
    ASSUME TypeInv, PubTypeOK, ProofInv, DrainStep
    PROVE  ProofInv'
<1>1. intents \in [Runs -> IntentRows]
  BY DEF PubTypeOK
<1>2. ASSUME NEW d \in Drainers, BeginPush(d) \/ Verify(d) \/ Abandon(d)
      PROVE  ProofInv'
  <2>1. UNCHANGED <<vars, intents, refs>>
    BY <1>2 DEF BeginPush, Verify, Abandon
  <2>2. ArtifactHasProof'
    BY <2>1 DEF vars, ProofInv, ArtifactHasProof
  <2>3. \A e \in Drainers : \/ drains'[e] = drains[e]
                            \/ drains'[e].step \in {"pushing", "idle"}
                            \/ drains'[e].run \in refs
    BY <1>2 DEF BeginPush, Verify, Abandon, Idle, PubTypeOK
  <2>4. IntentsKept
    BY <2>1 DEF IntentsKept
  <2> QED
    BY <2>1, <2>2, <2>3, <2>4, VerifiedKept DEF ProofInv
<1>3. ASSUME NEW d \in Drainers, Adopt(d)
      PROVE  ProofInv'
  <2> DEFINE r == drains[d].run
  <2>1. /\ r \in Runs /\ intents[r].status = "claimed" /\ Proved(d)
        /\ intents' = [intents EXCEPT ![r].status = "adopted"]
        /\ UNCHANGED refs
    BY <1>3, BusyDrainer DEF Adopt, Adoptable, HoldsClaim
  <2>2. intents[r].code => r \in refs
    BY <2>1 DEF Proved, ProofInv, VerifiedHasRef
  <2>3. /\ intents'[r].status = "adopted" /\ intents'[r].code = intents[r].code
        /\ \A q \in Runs \ {r} : intents'[q] = intents[q]
    BY <1>1, <2>1 DEF IntentRows
  <2>4. /\ runs'[r].status = "success"
        /\ \A q \in Runs \ {r} : runs'[q] = runs[q]
    <3>1. PICK v : runs' = [runs EXCEPT ![r].status = "success",
                                        ![r].version = v]
      BY <1>3 DEF Adopt, RecordArtifact
    <3>2. runs \in [Runs -> RunRows]
      BY DEF TypeInv, TypeOK
    <3> QED
      BY <2>1, <3>1, <3>2 DEF RunRows
  <2>5. ArtifactHasProof'
    BY <2>1, <2>2, <2>3, <2>4 DEF ProofInv, ArtifactHasProof
  <2>6. \A e \in Drainers : drains'[e] = drains[e] \/ drains'[e].step = "idle"
    BY <1>3 DEF Adopt, Idle, PubTypeOK
  <2>7. \A e \in Drainers :
           drains[e].step = "verified" => drains[e].run \in Runs
    BY BusyDrainer
  <2>8. VerifiedHasRef'
    BY <2>1, <2>2, <2>3, <2>6, <2>7 DEF Proved, ProofInv, VerifiedHasRef
  <2> QED
    BY <2>5, <2>8 DEF ProofInv
<1>4. ASSUME NEW d \in Drainers, Release(d)
      PROVE  ProofInv'
  <2> DEFINE r == drains[d].run
  <2>1. r \in Runs /\ UNCHANGED <<vars, refs>>
    BY <1>4, BusyDrainer DEF Release
  <2>2. \/ intents' = intents
        \/ /\ Open(r)
           /\ intents'[r].status \in {"pending", "stale"}
           /\ \A q \in Runs \ {r} : intents'[q] = intents[q]
    BY <1>1, <1>4, <2>1
       DEF Release, Releasable, HoldsClaim, Open, Retire, IntentRows
  <2>3. RunHistoryKept /\ IntentsKept
    BY <2>1, <2>2, OpenIsUnpublished DEF Open, vars, RunHistoryKept, IntentsKept
  <2>4. \A e \in Drainers : drains'[e] = drains[e] \/ drains'[e].step = "idle"
    BY <1>4 DEF Release, Idle, PubTypeOK
  <2> QED
    BY <2>1, <2>3, <2>4, ProofKept, VerifiedKept DEF ProofInv
<1> QED
  BY <1>2, <1>3, <1>4 DEF DrainStep

LEMMA EnvironmentKeepsProof ==
    ASSUME PubTypeOK, ProofInv, EnvironmentStep \/ UNCHANGED allVars
    PROVE  ProofInv'
<1>1. UNCHANGED <<vars, drains>> /\ refs \subseteq refs'
  BY DEF EnvironmentStep, PushLands, PushIsLost, LeaseExpires, DeadlinePasses,
         Reconnect, allVars, pubVars
<1>2. \A r \in Runs : /\ intents'[r].status = intents[r].status
                      /\ intents'[r].code = intents[r].code
  <2>1. CASE UNCHANGED intents
    BY <2>1
  <2>2. ASSUME NEW q \in Runs, LeaseExpires(q) \/ DeadlinePasses(q),
               NEW r \in Runs
        PROVE  /\ intents'[r].status = intents[r].status
               /\ intents'[r].code = intents[r].code
    BY <2>2 DEF LeaseExpires, DeadlinePasses, PubTypeOK, IntentRows
  <2>3. \/ UNCHANGED intents
        \/ \E q \in Runs : LeaseExpires(q) \/ DeadlinePasses(q)
    BY DEF EnvironmentStep, PushLands, PushIsLost, Reconnect, allVars, pubVars
  <2> QED
    BY <2>1, <2>2, <2>3
<1>3. RunHistoryKept /\ IntentsKept
  BY <1>1, <1>2 DEF vars, RunHistoryKept, IntentsKept
<1> QED
  BY <1>1, <1>3, ProofKept, VerifiedKept DEF ProofInv

LEMMA StepKeepsProof ==
    TypeInv /\ PubTypeOK /\ ProofInv /\ [PubNext]_allVars => ProofInv'
<1> SUFFICES ASSUME TypeInv, PubTypeOK, ProofInv, [PubNext]_allVars
             PROVE  ProofInv'
  OBVIOUS
<1>1. CASE LifecycleStep
  <2>1. UNCHANGED pubVars
    BY <1>1 DEF LifecycleStep
  <2>2. RunHistoryKept /\ IntentsKept
    BY <1>1, <2>1, LifecycleKeepsRuns DEF pubVars, IntentsKept
  <2> QED
    BY <2>1, <2>2, ProofKept, VerifiedKept DEF pubVars, ProofInv
<1> QED
  BY <1>1, FailureKeepsProof, IntentStepKeepsProof, DrainStepKeepsProof,
     EnvironmentKeepsProof DEF PubNext

(* Whatever lease expired under whichever drainer, and in whatever order    *)
(* pushes landed: an artifact of code has its retained ref on the remote,   *)
(* and a run is published exactly when its intent was adopted.              *)
THEOREM ArtifactsAreProved == PubSpec => []ArtifactHasProof
<1>1. PubInit => ProofInv
  BY DEF PubInit, Init, NoIntent, NoRun, QueuedRun, Idle, ProofInv,
         ArtifactHasProof, VerifiedHasRef
<1>2. PubSpec => []TypeInv
  BY PublicationImplementsLifecycle, TypeInvariance, PTL
<1>3. PubSpec => []ProofInv
  BY <1>1, <1>2, PublicationTypeCorrectness, StepKeepsProof, PTL DEF PubSpec
<1>4. ProofInv => ArtifactHasProof
  BY DEF ProofInv
<1> QED
  BY <1>3, <1>4, PTL

-----------------------------------------------------------------------------
(* Completed work is kept *)

(* The attempt behind a current intent is its job's claim. *)
LEMMA CurrentAttempt ==
    ASSUME TypeInv, OwnershipInv, PubTypeOK, NEW r \in Runs, Open(r), Current(r)
    PROVE  /\ intents[r].job \in Jobs /\ intents[r].attempt \in ClaimNumbers
           /\ runs[r].job = intents[r].job /\ runs[r].attempt = intents[r].attempt
           /\ runs[r].attempt > 0 /\ runs[r].status = "running"
           /\ jobs[runs[r].job].attempt = runs[r].attempt
<1>1. intents[r].job \in Jobs /\ intents[r].attempt \in ClaimNumbers
  BY DEF Open, PubTypeOK, IntentRows, IntentOK
<1> QED
  BY <1>1, LimitAssumption DEF ClaimNumbers, Current, IsCurrent

(* A failure closes one run, the caller's, or placeholders. *)
LEMMA FailedRun ==
    ASSUME TypeInv, NEW j \in Jobs, NEW n \in ClaimNumbers,
           NEW q \in Runs \cup {None}, NEW retry \in BOOLEAN, Fail(j, n, q, retry),
           NEW r \in Runs, runs[r].status = "running", runs'[r].status = "error"
    PROVE  r = q /\ runs[r].job = j /\ runs[r].attempt = n
<1>1. runs \in [Runs -> RunRows]
  BY DEF TypeInv, TypeOK
<1>2. runs' = FailedRuns(j, q) /\ FailsClaim(j, n, q)
  BY DEF Fail
<1> QED
  BY <1>1, <1>2 DEF FailedRuns, FailsClaim, Placeholders

LEMMA LifecycleFailsNone ==
    ASSUME TypeInv, OwnershipInv, LifecycleStep,
           NEW r \in Runs, runs[r].status = "running"
    PROVE  runs'[r].status # "error"
<1>1. runs \in [Runs -> RunRows]
  BY DEF TypeInv, TypeOK
<1>2. ASSUME NEW j \in Jobs, NEW n \in ClaimNumbers, NEW st \in Stages,
             NEW v \in VersionNumbers, NEW q \in Runs, Start(j, n, st, v, q)
      PROVE  runs'[r].status # "error"
  <2>1. jobs[j].attempt = n /\ runs[r].job = j => runs[r].attempt = n
    BY DEF OwnershipInv, RunningRunOwnsSession
  <2>2. jobs[j].attempt = n
    BY <1>2 DEF Start, OwnsClaim
  <2>3. n \notin 1..(n - 1)
    BY LimitAssumption DEF ClaimNumbers
  <2> QED
    BY <1>1, <1>2, <2>1, <2>2, <2>3 DEF Start, QueuedRun, NoRun
<1>3. ASSUME NEW q \in Runs, NEW j, NEW st,
             \/ runs' = [runs EXCEPT ![q] = QueuedRun(j, st)]
             \/ runs' = [CanceledRuns EXCEPT ![q] = QueuedRun(j, st)]
             \/ runs' = CanceledRuns
             \/ runs' = runs
      PROVE  runs'[r].status # "error"
  <2>1. QueuedRun(j, st).status = "queued"
    BY DEF QueuedRun, NoRun
  <2>2. CanceledRuns[r].status # "error"
    BY <1>1 DEF CanceledRuns, RunRows
  <2>3. CanceledRuns \in [Runs -> RunRows]
    BY RetiredRows
  <2> HIDE DEF QueuedRun, CanceledRuns
  <2> QED
    BY <1>1, <1>3, <2>1, <2>2, <2>3
<1>4. CASE ReviewStep \/ ControlStep
  <2>1. ASSUME NEW a \in Runs,
               \/ \E j \in Jobs, q \in Runs : ApproveAndAdvance(a, j, q)
               \/ ApproveDelivery(a) \/ RejectExhausted(a) \/ RejectAdopt(a)
        PROVE  runs'[r].status # "error"
    <3>1. \/ runs' = runs
          \/ \E q \in Runs : \E j, st : runs' = [runs EXCEPT ![q] = QueuedRun(j, st)]
      BY <2>1 DEF ApproveAndAdvance, ApproveDelivery, RejectExhausted, RejectAdopt
    <3> QED
      BY <1>3, <3>1
  <2>2. ASSUME NEW a \in Runs, NEW j \in Jobs, NEW q \in Runs,
               RejectAndRepair(a, j, q)
        PROVE  runs'[r].status # "error"
    <3> DEFINE closed == [p \in Runs |->
                  IF Live(p) /\ runs[p].job \in ActiveJobs
                  THEN [runs[p] EXCEPT !.status = "canceled"] ELSE runs[p]]
    <3>1. runs' = [closed EXCEPT ![q] = QueuedRun(j, session.stage)]
      BY <2>2 DEF RejectAndRepair
    <3>2. closed[r].status # "error" /\ DOMAIN closed = Runs
      BY <1>1 DEF RunRows
    <3>3. QueuedRun(j, session.stage).status = "queued"
      BY DEF QueuedRun, NoRun
    <3> HIDE DEF closed
    <3> QED
      BY <3>1, <3>2, <3>3
  <2>3. ASSUME NEW j \in Jobs, NEW q \in Runs,
               \/ Enqueue(j, q)
               \/ \E t \in Stages, rework \in BOOLEAN : Reroute(t, rework, j, q)
        PROVE  runs'[r].status # "error"
    <3>1. \/ runs' = runs
          \/ \E st : \/ runs' = [runs EXCEPT ![q] = QueuedRun(j, st)]
                     \/ runs' = [CanceledRuns EXCEPT ![q] = QueuedRun(j, st)]
      BY <2>3 DEF Enqueue, Reroute
    <3> QED
      BY <1>3, <3>1
  <2>4. CASE \/ \E expected \in Runs \cup {None} : Cancel(expected)
             \/ \E done \in BOOLEAN : Archive(done)
             \/ Unarchive \/ SetRelease \/ ReadBudget
    <3>1. runs' = CanceledRuns \/ runs' = runs
      BY <2>4 DEF Cancel, Archive, Unarchive, SetRelease, ReadBudget
    <3> QED
      BY <1>3, <3>1
  <2>5. CASE ReviewStep
    BY <2>1, <2>2, <2>5, Zenon DEF ReviewStep
  <2>6. CASE ControlStep
    BY <2>3, <2>4, <2>6, Zenon DEF ControlStep
  <2> QED
    BY <1>4, <2>5, <2>6
<1>5. CASE \/ \E j \in Jobs : Claim(j)
           \/ \E j \in Jobs, n \in ClaimNumbers, q \in Runs : Complete(j, n, q)
           \/ \E j \in Jobs, n \in ClaimNumbers : Defer(j, n)
  BY <1>5 DEF Claim, Complete, Defer
<1> QED
  BY <1>2, <1>3, <1>4, <1>5 DEF LifecycleStep

LEMMA StepKeepsWork ==
    ASSUME TypeInv, OwnershipInv, PubTypeOK, [PubNext]_allVars,
           NEW r \in Runs, Open(r), Current(r), ~intents[r].overdue,
           runs'[r].status = "error"
    PROVE  PolicyPinned
<1>1. /\ intents[r].job \in Jobs /\ intents[r].attempt \in ClaimNumbers
      /\ runs[r].job = intents[r].job /\ runs[r].attempt = intents[r].attempt
      /\ runs[r].status = "running"
  BY CurrentAttempt
<1>2. CASE LifecycleStep
  BY <1>1, <1>2, LifecycleFailsNone
<1>3. ASSUME NEW j \in Jobs, NEW n \in ClaimNumbers, NEW q \in Runs \cup {None},
             NEW retry \in BOOLEAN,
             WorkerFail(j, n, q, retry) \/ RetireStalled(j, n, q, retry)
      PROVE  PolicyPinned
  <2>1. r = q /\ runs[r].job = j /\ runs[r].attempt = n
    BY <1>1, <1>3, FailedRun DEF WorkerFail, RetireStalled
  <2>2. OwnsOpenIntent(j, n, q)
    BY <1>1, <2>1 DEF OwnsOpenIntent
  <2> QED
    BY <1>3, <2>1, <2>2, NoneAssumption DEF WorkerFail, RetireStalled, Open
<1>4. ASSUME NEW j \in Jobs, NEW n \in ClaimNumbers, NEW q \in Runs,
             NEW v \in VersionNumbers, PublishUnprepared(j, n, q, v)
      PROVE  FALSE
  BY <1>1, <1>4
     DEF PublishUnprepared, PublishDirect, RecordArtifact, TypeInv, TypeOK, RunRows
<1>5. CASE IntentStep
  <2>1. ASSUME NEW q \in Runs, SettleOverdue(q)
        PROVE  FALSE
    <3>1. PICK j \in Jobs, n \in ClaimNumbers, retry \in BOOLEAN :
            Fail(j, n, q, retry) /\ intents[q].overdue
      BY <2>1 DEF SettleOverdue, Open, PubTypeOK, IntentRows, IntentOK
    <3>2. r = q
      BY <1>1, <3>1, FailedRun
    <3> QED
      BY <3>1, <3>2
  <2>2. UNCHANGED vars \/ \E q \in Runs : SettleOverdue(q)
    BY <1>5 DEF IntentStep, Prepare, SettleStale, TakeIntent
  <2> QED
    BY <1>1, <2>1, <2>2 DEF vars
<1>6. CASE DrainStep
  <2>1. ASSUME NEW d \in Drainers, Adopt(d)
        PROVE  FALSE
    BY <1>1, <2>1 DEF Adopt, RecordArtifact, TypeInv, TypeOK, RunRows
  <2>2. UNCHANGED vars \/ \E d \in Drainers : Adopt(d)
    BY <1>6 DEF DrainStep, BeginPush, Verify, Release, Abandon
  <2> QED
    BY <1>1, <2>1, <2>2 DEF vars
<1>7. CASE EnvironmentStep \/ UNCHANGED allVars
  BY <1>1, <1>7
     DEF EnvironmentStep, PushLands, PushIsLost, LeaseExpires, DeadlinePasses,
         Reconnect, allVars, vars
<1> QED
  BY <1>2, <1>3, <1>4, <1>5, <1>6, <1>7 DEF PubNext, FailureStep

(* No sweep, no deadline of the claim and no unsure worker gives up an      *)
(* output that is recorded, wanted and within its deadline.                 *)
THEOREM WorkIsKept == PubSpec => CompletedWorkIsKept
<1>1. PubSpec => [](TypeInv /\ OwnershipInv)
  BY PublicationImplementsLifecycle, TypeInvariance, OwnershipInvariance, PTL
<1>2. TypeInv /\ OwnershipInv /\ PubTypeOK /\ [PubNext]_allVars
        => [\A r \in Runs :
              (Open(r) /\ Current(r) /\ ~intents[r].overdue)
                => (runs'[r].status = "error" => PolicyPinned)]_allVars
  BY StepKeepsWork
<1> QED
  BY <1>1, <1>2, PublicationTypeCorrectness, PTL DEF PubSpec, CompletedWorkIsKept
=============================================================================
