----------------------- MODULE CheckpointCleanupProofs -----------------------
(* TLAPS proofs about CheckpointCleanup, for every set of jobs, runs,       *)
(* drainers and cleaners and any limits: deleting refs takes nothing from   *)
(* an artifact or a consumer, and leaves the lifecycle's rules alone.       *)
EXTENDS CheckpointCleanup, CheckpointPublicationProofs

-----------------------------------------------------------------------------
(* What the publication protocol does to the state that cleanup reads *)

Settled(r) == intents[r].status # "none" /\ (Open(r) => intents[r].overdue)

(* An intent that was given up stays so, one whose deadline passed never    *)
(* opens again, only an intent before its deadline is pushed, and only what *)
(* is pushed reaches the remote.                                            *)
PublicationBounds ==
    /\ \A r \in Runs :
          /\ intents[r].status = "stale" => intents'[r].status = "stale"
          /\ Settled(r) => Settled(r)'
          /\ r \in pushes' => r \in pushes \/ ~Settled(r)
    /\ refs \subseteq refs'
    /\ refs' \subseteq refs \cup pushes

LEMMA RetiredOnly ==
    ASSUME PubTypeOK, NEW r \in Runs, Retire(r)
    PROVE  /\ intents'[r].status = "stale"
           /\ intents'[r].overdue = intents[r].overdue
           /\ \A q \in Runs \ {r} : intents'[q] = intents[q]
  BY DEF Retire, PubTypeOK, IntentRows

LEMMA IntentStepBounded ==
    ASSUME PubTypeOK, IntentStep
    PROVE  PublicationBounds
<1>1. intents \in [Runs -> IntentRows] /\ UNCHANGED <<pushes, refs>>
  BY DEF PubTypeOK, IntentStep, Prepare, SettleStale, SettleOverdue, TakeIntent
<1>2. PICK r \in Runs :
         /\ \A q \in Runs \ {r} : intents'[q] = intents[q]
         /\ \/ intents[r].status = "none"
            \/ Open(r) /\ intents'[r].status = "stale"
            \/ Open(r) /\ ~intents[r].overdue
  <2>1. ASSUME NEW r \in Runs, NEW p, intents' = [intents EXCEPT ![r] = p]
        PROVE  \A q \in Runs \ {r} : intents'[q] = intents[q]
    BY <1>1, <2>1
  <2>2. ASSUME NEW r \in Runs, NEW j \in Jobs, NEW n \in ClaimNumbers,
               NEW v \in VersionNumbers, NEW code \in BOOLEAN,
               Prepare(r, j, n, v, code)
        PROVE  /\ intents[r].status = "none"
               /\ \A q \in Runs \ {r} : intents'[q] = intents[q]
    BY <2>1, <2>2 DEF Prepare
  <2>3. ASSUME NEW r \in Runs, SettleStale(r) \/ SettleOverdue(r)
        PROVE  /\ Open(r) /\ intents'[r].status = "stale"
               /\ \A q \in Runs \ {r} : intents'[q] = intents[q]
    BY <2>3, RetiredOnly DEF SettleStale, SettleOverdue
  <2>4. ASSUME NEW d \in Drainers, NEW r \in Runs, TakeIntent(d, r)
        PROVE  /\ Open(r) /\ ~intents[r].overdue
               /\ \A q \in Runs \ {r} : intents'[q] = intents[q]
    BY <1>1, <2>4 DEF TakeIntent
  <2> QED
    BY <2>2, <2>3, <2>4 DEF IntentStep
<1> QED
  BY <1>1, <1>2 DEF PublicationBounds, Settled, Open

LEMMA DrainStepBounded ==
    ASSUME PubTypeOK, DrainStep
    PROVE  PublicationBounds
<1>1. intents \in [Runs -> IntentRows] /\ UNCHANGED refs
  BY DEF PubTypeOK, DrainStep, BeginPush, Verify, Adopt, Release, Abandon
<1>2. ASSUME NEW d \in Drainers, BeginPush(d)
      PROVE  PublicationBounds
  BY <1>1, <1>2
     DEF BeginPush, AssertClaim, HoldsClaim, PublicationBounds, Settled, Open
<1>3. ASSUME NEW d \in Drainers, Verify(d) \/ Abandon(d)
      PROVE  PublicationBounds
  BY <1>1, <1>3 DEF Verify, Abandon, PublicationBounds, Settled, Open
<1>4. ASSUME NEW d \in Drainers, Adopt(d) \/ Release(d)
      PROVE  PublicationBounds
  <2> DEFINE r == drains[d].run
  <2>1. r \in Runs /\ UNCHANGED pushes
    BY <1>4, BusyDrainer DEF Adopt, Release
  <2>2. \/ intents' = intents
        \/ /\ intents[r].status = "claimed"
           /\ intents'[r].status \in {"adopted", "pending", "stale"}
           /\ intents'[r].overdue = intents[r].overdue
           /\ \A q \in Runs \ {r} : intents'[q] = intents[q]
    <3>1. CASE Adopt(d)
      <4>1. /\ intents[r].status = "claimed"
            /\ intents' = [intents EXCEPT ![r].status = "adopted"]
        BY <3>1 DEF Adopt, Adoptable, HoldsClaim
      <4> QED
        BY <1>1, <2>1, <4>1 DEF IntentRows
    <3>2. CASE Release(d)
      <4>1. \/ intents' = intents
            \/ /\ intents[r].status = "claimed"
               /\ \/ Retire(r)
                  \/ intents' = [intents EXCEPT ![r].status = "pending",
                                   ![r].claim = 0, ![r].leased = FALSE]
        BY <3>2 DEF Release, Releasable, HoldsClaim
      <4> QED
        BY <1>1, <2>1, <4>1, RetiredOnly DEF IntentRows
    <3> QED
      BY <1>4, <3>1, <3>2
  <2> QED
    BY <1>1, <2>1, <2>2 DEF PublicationBounds, Settled, Open
<1> QED
  BY <1>2, <1>3, <1>4 DEF DrainStep

LEMMA EnvironmentBounded ==
    ASSUME PubTypeOK, EnvironmentStep
    PROVE  PublicationBounds
<1>1. intents \in [Runs -> IntentRows]
  BY DEF PubTypeOK
<1>2. ASSUME NEW r \in pushes, PushLands(r) \/ PushIsLost(r)
      PROVE  PublicationBounds
  BY <1>2 DEF PushLands, PushIsLost, PublicationBounds, Settled, Open
<1>3. ASSUME NEW r \in Runs, LeaseExpires(r) \/ DeadlinePasses(r)
      PROVE  PublicationBounds
  <2>1. /\ UNCHANGED <<pushes, refs>>
        /\ intents'[r].status = intents[r].status
        /\ intents[r].overdue => intents'[r].overdue
        /\ \A q \in Runs \ {r} : intents'[q] = intents[q]
    BY <1>1, <1>3 DEF LeaseExpires, DeadlinePasses, IntentRows
  <2> QED
    BY <2>1 DEF PublicationBounds, Settled, Open
<1>4. CASE Reconnect
  BY <1>4 DEF Reconnect, PublicationBounds, Settled, Open
<1> QED
  BY <1>2, <1>3, <1>4 DEF EnvironmentStep

LEMMA PublicationStepBounded ==
    ASSUME PubTypeOK, [PubNext]_allVars
    PROVE  PublicationBounds
<1>1. CASE UNCHANGED pubVars
  BY <1>1 DEF pubVars, PublicationBounds, Settled, Open
<1>2. CASE LifecycleStep \/ FailureStep \/ UNCHANGED allVars
  BY <1>1, <1>2
     DEF LifecycleStep, FailureStep, WorkerFail, RetireStalled,
         PublishUnprepared, allVars
<1> QED
  BY <1>2, IntentStepBounded, DrainStepBounded, EnvironmentBounded DEF PubNext

-----------------------------------------------------------------------------
(* The claim's first act, and what the other steps leave alone *)

LEMMA GivenUp ==
    ASSUME PubTypeOK, NEW r \in Runs, Discarded(r), GiveUpAttempt(r)
    PROVE  /\ PubTypeOK'
           /\ intents'[r].status = "stale"
           /\ \A q \in Runs \ {r} : intents'[q] = intents[q]
           /\ UNCHANGED <<drains, pushes, refs>>
           /\ \/ UNCHANGED vars
              \/ \E j \in Jobs, n \in ClaimNumbers : Fail(j, n, r, FALSE)
<1>1. intents[r].status # "none" /\ intents[r] \in IntentRows
  BY DEF Discarded, PubTypeOK
<1>2. intents[r].job \in Jobs /\ intents[r].attempt \in ClaimNumbers
  BY <1>1 DEF PubTypeOK, IntentOK, IntentRows
<1>3. Retire(r) /\ UNCHANGED <<drains, pushes, refs, connected>>
  BY DEF GiveUpAttempt
<1>4. PubTypeOK'
  BY <1>1, <1>3, RetiredIntent DEF PubTypeOK
<1>5. /\ intents'[r].status = "stale"
      /\ \A q \in Runs \ {r} : intents'[q] = intents[q]
  BY <1>3, RetiredOnly
<1>6. \/ UNCHANGED vars
      \/ Fail(intents[r].job, intents[r].attempt, r, FALSE)
  BY DEF GiveUpAttempt
<1> QED
  BY <1>2, <1>3, <1>4, <1>5, <1>6

(* A step of a cleaner or of the remote, as the publication sees it. *)
CollectorStep ==
    \/ UNCHANGED allVars
    \/ \E r \in Runs : Discarded(r) /\ GiveUpAttempt(r)
    \/ \E r \in deletes : refs' = refs \ {r} /\ UNCHANGED <<vars, intents,
                                                 drains, pushes, connected>>

LEMMA CollectorSteps == CleanupStep \/ RemoteStep => CollectorStep
<1>1. CASE CleanupStep
  BY <1>1 DEF CleanupStep, TakeCleanup, BlockCleanup, BeginDelete, ReadAbsent,
              FinishCleanup, FailCleanup, AbandonCleanup, CollectorStep
<1>2. CASE RemoteStep
  BY <1>2 DEF RemoteStep, DeleteLands, DeleteIsLost, CleanupLeaseExpires, Ages,
              Consume, CollectorStep
<1> QED
  BY <1>1, <1>2

LEMMA StepAsPublicationOrCollector ==
    [CleanNext]_everyVar => \/ [PubNext]_allVars /\ UNCHANGED cleanVars
                            \/ CleanupStep
                            \/ RemoteStep
  BY DEF CleanNext, everyVar

-----------------------------------------------------------------------------
(* Typing and refinement *)

LEMMA CollectorKeepsPubType ==
    ASSUME PubTypeOK, CollectorStep
    PROVE  PubTypeOK'
<1>1. CASE UNCHANGED allVars
  BY <1>1 DEF allVars, pubVars, PubTypeOK
<1>2. ASSUME NEW r \in Runs, Discarded(r), GiveUpAttempt(r)
      PROVE  PubTypeOK'
  BY <1>2, GivenUp
<1>3. ASSUME NEW r \in deletes, refs' = refs \ {r},
             UNCHANGED <<vars, intents, drains, pushes, connected>>
      PROVE  PubTypeOK'
  BY <1>3 DEF PubTypeOK
<1> QED
  BY <1>1, <1>2, <1>3 DEF CollectorStep

LEMMA CleanStepTyped == PubTypeOK /\ [CleanNext]_everyVar => PubTypeOK'
  BY StepAsPublicationOrCollector, PubStepTyped, CollectorSteps,
     CollectorKeepsPubType

LEMMA CleanStepRefines == PubTypeOK /\ [CleanNext]_everyVar => [Next]_vars
<1> SUFFICES ASSUME PubTypeOK, CollectorStep PROVE [Next]_vars
  BY StepAsPublicationOrCollector, StepRefines, CollectorSteps
<1>1. ASSUME NEW r \in Runs, Discarded(r), GiveUpAttempt(r)
      PROVE  [Next]_vars
  <2>1. UNCHANGED vars \/ \E j \in Jobs, n \in ClaimNumbers : Fail(j, n, r, FALSE)
    BY <1>1, GivenUp
  <2> QED
    BY <2>1 DEF Next, WorkerStep
<1> QED
  BY <1>1 DEF CollectorStep, allVars

LEMMA CleanPubTyped == CleanSpec => []PubTypeOK
<1>1. CleanInit => PubTypeOK
  BY PubInitTyped DEF CleanInit
<1> QED
  BY <1>1, CleanStepTyped, PTL DEF CleanSpec

(* Collecting refs, like publishing, does to the session only what the      *)
(* lifecycle's RPCs do: the claim's only effect on it is a failure that     *)
(* fail_session_job_attempt accepts.                                        *)
THEOREM CleanupImplementsLifecycle == CleanSpec => Spec
<1>1. CleanInit => Init
  BY DEF CleanInit, PubInit
<1> QED
  BY <1>1, CleanStepRefines, CleanPubTyped, PTL DEF CleanSpec, Spec

-----------------------------------------------------------------------------
(* Typing of the rows and the cleaners *)

CleanupOK(row) == /\ row.claim > 0 <=> row.status \in {"claimed", "deleted"}
                  /\ row.leased => row.claim > 0
                  /\ row.claim <= row.count

LEMMA CleanupReplaced ==
    ASSUME CleanTypeOK, NEW r \in Runs, NEW row \in CleanupRows, CleanupOK(row),
           cleanups' = [cleanups EXCEPT ![r] = row]
    PROVE  /\ cleanups' \in [Runs -> CleanupRows]
           /\ \A q \in Runs : CleanupOK(cleanups'[q])
<1>1. cleanups \in [Runs -> CleanupRows] /\ \A q \in Runs : CleanupOK(cleanups[q])
  BY DEF CleanTypeOK, CleanupOK
<1> QED
  BY <1>1

LEMMA CleanerSet ==
    ASSUME CleanTypeOK, NEW c \in Cleaners, NEW r \in Runs, NEW n \in Nat,
           NEW step \in CleanerSteps \ {"idle"},
           \/ cleaners' = cleaners
           \/ cleaners' = [cleaners EXCEPT ![c] = IdleCleaner]
           \/ cleaners' = [cleaners EXCEPT ![c] = [run |-> r, claim |-> n,
                                                   step |-> step]]
           \/ /\ cleaners[c].step # "idle"
              /\ cleaners' = [cleaners EXCEPT ![c].step = step]
    PROVE  /\ cleaners' \in [Cleaners -> [run : Runs \cup {None}, claim : Nat,
                                         step : CleanerSteps]]
           /\ \A b \in Cleaners :
                 cleaners'[b].run = None <=> cleaners'[b].step = "idle"
  BY NoneAssumption DEF CleanTypeOK, IdleCleaner, CleanerSteps

(* What a cleaner works on is a run. *)
LEMMA BusyCleaner ==
    ASSUME CleanTypeOK, NEW c \in Cleaners, cleaners[c].step # "idle"
    PROVE  cleaners[c].run \in Runs
  BY DEF CleanTypeOK

LEMMA CleanInitTyped == CleanInit => CleanTypeOK
  BY DEF CleanInit, CleanTypeOK, CleanupRows, CleanupStatuses, NoCleanup,
         IdleCleaner, CleanerSteps

LEMMA CleanupStepTyped ==
    ASSUME CleanTypeOK, CleanupStep
    PROVE  CleanTypeOK'
<1>1. /\ cleanups \in [Runs -> CleanupRows]
      /\ \A r \in Runs : CleanupOK(cleanups[r])
  BY DEF CleanTypeOK, CleanupOK
<1>2. ASSUME NEW c \in Cleaners, NEW r \in Runs, TakeCleanup(c, r)
      PROVE  CleanTypeOK'
  <2> DEFINE n == cleanups[r].count + 1
             row == [status |-> "claimed", claim |-> n, leased |-> TRUE,
                     count |-> n]
  <2>1. n \in Nat /\ n > 0
    BY <1>1 DEF CleanupRows
  <2>2. row \in CleanupRows /\ CleanupOK(row)
    BY <2>1 DEF CleanupRows, CleanupStatuses, CleanupOK
  <2>3. /\ cleanups' = [cleanups EXCEPT ![r] = row]
        /\ cleaners' = [cleaners EXCEPT ![c] = [run |-> r, claim |-> n,
                                               step |-> "claimed"]]
        /\ UNCHANGED <<deletes, aged, consumers>>
    BY <1>2 DEF TakeCleanup
  <2> HIDE DEF row, n
  <2>4. /\ cleanups' \in [Runs -> CleanupRows]
        /\ \A q \in Runs : CleanupOK(cleanups'[q])
    BY <2>2, <2>3, CleanupReplaced
  <2>5. "claimed" \in CleanerSteps \ {"idle"}
    BY DEF CleanerSteps
  <2> QED
    BY <2>1, <2>3, <2>4, <2>5, CleanerSet DEF CleanTypeOK, CleanupOK
<1>3. ASSUME NEW r \in Runs, BlockCleanup(r)
      PROVE  CleanTypeOK'
  <2>1. Blocked(cleanups[r]) \in CleanupRows /\ CleanupOK(Blocked(cleanups[r]))
    <3>1. cleanups[r] \in CleanupRows
      BY <1>1
    <3>2. Blocked(cleanups[r]) \in CleanupRows
      BY <3>1 DEF Blocked, CleanupRows, CleanupStatuses
    <3> QED
      BY <3>1, <3>2 DEF Blocked, CleanupRows, CleanupOK
  <2>2. /\ cleanups' = [cleanups EXCEPT ![r] = Blocked(cleanups[r])]
        /\ UNCHANGED <<cleaners, deletes, aged, consumers>>
    BY <1>3 DEF BlockCleanup
  <2>3. /\ cleanups' \in [Runs -> CleanupRows]
        /\ \A q \in Runs : CleanupOK(cleanups'[q])
    BY <2>1, <2>2, CleanupReplaced
  <2> QED
    BY <2>2, <2>3 DEF CleanTypeOK, CleanupOK
<1>4. ASSUME NEW c \in Cleaners,
             BeginDelete(c) \/ ReadAbsent(c) \/ AbandonCleanup(c)
      PROVE  CleanTypeOK'
  <2> DEFINE r == cleaners[c].run
  <2>1. r \in Runs /\ UNCHANGED <<cleanups, aged, consumers>>
        /\ deletes' \subseteq deletes \cup {r}
    BY <1>4, BusyCleaner DEF BeginDelete, ReadAbsent, AbandonCleanup
  <2>2. \/ cleaners' = [cleaners EXCEPT ![c] = IdleCleaner]
        \/ \E step \in CleanerSteps \ {"idle"} :
              /\ cleaners[c].step # "idle"
              /\ cleaners' = [cleaners EXCEPT ![c].step = step]
    BY <1>4 DEF BeginDelete, ReadAbsent, AbandonCleanup, CleanerSteps
  <2>3. 0 \in Nat /\ "claimed" \in CleanerSteps \ {"idle"}
    BY DEF CleanerSteps
  <2>4. /\ cleaners' \in [Cleaners -> [run : Runs \cup {None}, claim : Nat,
                                      step : CleanerSteps]]
        /\ \A b \in Cleaners :
              cleaners'[b].run = None <=> cleaners'[b].step = "idle"
    BY <2>1, <2>2, <2>3, CleanerSet
  <2> QED
    BY <2>1, <2>4 DEF CleanTypeOK
<1>5. ASSUME NEW c \in Cleaners, FinishCleanup(c) \/ FailCleanup(c)
      PROVE  CleanTypeOK'
  <2> DEFINE r == cleaners[c].run
             finished == [cleanups[r] EXCEPT !.status = "deleted"]
             failed == [cleanups[r] EXCEPT !.status = "pending", !.claim = 0,
                                           !.leased = FALSE]
  <2>1. r \in Runs /\ UNCHANGED <<deletes, aged, consumers>>
    BY <1>5, BusyCleaner DEF FinishCleanup, FailCleanup
  <2>2. \/ cleanups' = cleanups
        \/ /\ cleanups[r].status = "claimed"
           /\ \/ cleanups' = [cleanups EXCEPT ![r] = finished]
              \/ cleanups' = [cleanups EXCEPT ![r] = failed]
    BY <1>5 DEF FinishCleanup, FailCleanup, AssertCleanup, HoldsCleanup
  <2>3. cleanups[r].status = "claimed" =>
           /\ finished \in CleanupRows /\ CleanupOK(finished)
           /\ failed \in CleanupRows /\ CleanupOK(failed)
    <3>1. cleanups[r] \in CleanupRows /\ CleanupOK(cleanups[r])
      BY <1>1, <2>1
    <3>2. finished \in CleanupRows /\ failed \in CleanupRows
      BY <3>1 DEF CleanupRows, CleanupStatuses
    <3>3. CleanupOK(failed)
      BY <3>1 DEF CleanupRows, CleanupOK
    <3>4. cleanups[r].status = "claimed" => CleanupOK(finished)
      BY <3>1 DEF CleanupRows, CleanupOK
    <3> QED
      BY <3>2, <3>3, <3>4
  <2> HIDE DEF finished, failed
  <2>4. /\ cleanups' \in [Runs -> CleanupRows]
        /\ \A q \in Runs : CleanupOK(cleanups'[q])
    BY <1>1, <2>1, <2>2, <2>3, CleanupReplaced
  <2>5. \/ cleaners' = cleaners
        \/ cleaners' = [cleaners EXCEPT ![c] = IdleCleaner]
    BY <1>5 DEF FinishCleanup, FailCleanup
  <2>6. /\ cleaners' \in [Cleaners -> [run : Runs \cup {None}, claim : Nat,
                                      step : CleanerSteps]]
        /\ \A b \in Cleaners :
              cleaners'[b].run = None <=> cleaners'[b].step = "idle"
    <3>1. 0 \in Nat /\ "claimed" \in CleanerSteps \ {"idle"}
      BY DEF CleanerSteps
    <3> QED
      BY <2>1, <2>5, <3>1, CleanerSet
  <2> QED
    BY <2>1, <2>4, <2>6 DEF CleanTypeOK, CleanupOK
<1> QED
  BY <1>2, <1>3, <1>4, <1>5 DEF CleanupStep

LEMMA CleanNextTyped == CleanTypeOK /\ [CleanNext]_everyVar => CleanTypeOK'
<1> SUFFICES ASSUME CleanTypeOK, UNCHANGED cleanVars \/ RemoteStep
             PROVE  CleanTypeOK'
  BY StepAsPublicationOrCollector, CleanupStepTyped
<1>1. CASE UNCHANGED cleanVars
  BY <1>1 DEF cleanVars, CleanTypeOK
<1>2. ASSUME NEW r \in Runs, CleanupLeaseExpires(r)
      PROVE  CleanTypeOK'
  BY <1>2 DEF CleanupLeaseExpires, CleanTypeOK, CleanupRows
<1>3. CASE \/ \E r \in deletes : DeleteLands(r) \/ DeleteIsLost(r)
           \/ \E r \in Runs : Ages(r) \/ Consume(r)
  BY <1>3 DEF DeleteLands, DeleteIsLost, Ages, Consume, CleanTypeOK
<1> QED
  BY <1>1, <1>2, <1>3 DEF RemoteStep

(* Every cleanup row and every cleaner holds values of its columns' types,  *)
(* and a row has a claim exactly while it is claimed or deleted.            *)
THEOREM CleanupTypeCorrectness == CleanSpec => []CleanTypeOK
  BY CleanInitTyped, CleanNextTyped, PTL DEF CleanSpec

-----------------------------------------------------------------------------
(* Deletion *)

(* The order of retirement: a deadline of a week ago leaves no push and no  *)
(* open intent behind; the first claim finds the intent given up and no     *)
(* consumer, and from then on neither comes back; only then is anything     *)
(* deleted, and an absence that was read is for good.                       *)
AgedIsOver == \A r \in aged : r \notin pushes /\ Settled(r)
CollectedIsGivenUp ==
    \A r \in Runs : cleanups[r].count > 0 =>
        r \in aged /\ intents[r].status = "stale" /\ r \notin consumers
DeletesAreClaimed == \A r \in deletes : cleanups[r].count > 0
CleanersAreLate ==
    \A c \in Cleaners : cleaners[c].step # "idle" =>
        /\ cleanups[cleaners[c].run].count > 0
        /\ cleaners[c].step = "absent" => cleaners[c].run \notin refs
ConsumersKept == consumers \subseteq refs

CleanInv ==
    /\ ProofInv
    /\ AgedIsOver
    /\ CollectedIsGivenUp
    /\ DeletesAreClaimed
    /\ CleanersAreLate
    /\ DeletedStaysAbsent
    /\ ConsumersKept

LEMMA GiveUpKeepsProof ==
    ASSUME TypeInv, PubTypeOK, ProofInv, NEW r \in Runs,
           Discarded(r), GiveUpAttempt(r)
    PROVE  ProofInv'
<1>1. /\ intents'[r].status = "stale"
      /\ \A q \in Runs \ {r} : intents'[q] = intents[q]
      /\ UNCHANGED <<drains, pushes, refs>>
  BY GivenUp
<1>2. RunHistoryKept
  <2>1. CASE UNCHANGED vars
    BY <2>1 DEF vars, RunHistoryKept
  <2>2. ASSUME NEW j \in Jobs, NEW n \in ClaimNumbers, Fail(j, n, r, FALSE)
        PROVE  RunHistoryKept
    BY <2>2, FailTyped
  <2> QED
    BY <2>1, <2>2, GivenUp
<1>3. IntentsKept
  BY <1>1 DEF IntentsKept, Discarded
<1> QED
  BY <1>1, <1>2, <1>3, ProofKept, VerifiedKept DEF ProofInv

LEMMA DeletionKeepsProof ==
    ASSUME PubTypeOK, ProofInv, NEW r \in Runs, intents[r].status = "stale",
           refs' = refs \ {r}, UNCHANGED <<vars, intents, drains, pushes>>
    PROVE  ProofInv'
<1>1. ArtifactHasProof'
  BY DEF ProofInv, ArtifactHasProof, vars
<1>2. VerifiedHasRef'
  BY DEF ProofInv, VerifiedHasRef
<1> QED
  BY <1>1, <1>2 DEF ProofInv

LEMMA PublicationKeepsClean ==
    ASSUME TypeInv, PubTypeOK, CleanTypeOK, CleanInv,
           [PubNext]_allVars, UNCHANGED cleanVars
    PROVE  CleanInv'
<1>1. ProofInv'
  BY StepKeepsProof DEF CleanInv
<1>2. /\ UNCHANGED <<cleanups, cleaners, deletes, aged, consumers>>
      /\ aged \subseteq Runs
  BY DEF cleanVars, CleanTypeOK
<1>3. PublicationBounds
  BY PublicationStepBounded
<1>4. AgedIsOver'
  BY <1>2, <1>3 DEF CleanInv, AgedIsOver, PublicationBounds, Settled, Open
<1>5. CollectedIsGivenUp' /\ DeletesAreClaimed'
  BY <1>2, <1>3 DEF CleanInv, CollectedIsGivenUp, DeletesAreClaimed,
                    PublicationBounds
<1>6. \A r \in Runs : cleanups[r].count > 0 /\ r \notin refs => r \notin refs'
  BY <1>3 DEF CleanInv, CollectedIsGivenUp, AgedIsOver, PublicationBounds
<1>7. CleanersAreLate'
  BY <1>2, <1>6, BusyCleaner DEF CleanInv, CleanersAreLate
<1>8. \A r \in Runs : cleanups[r].status = "deleted" => cleanups[r].count > 0
  BY DEF CleanTypeOK, CleanupRows
<1>9. DeletedStaysAbsent'
  BY <1>2, <1>6, <1>8 DEF CleanInv, DeletedStaysAbsent
<1>10. ConsumersKept'
  BY <1>2, <1>3 DEF CleanInv, ConsumersKept, PublicationBounds
<1> QED
  BY <1>1, <1>4, <1>5, <1>7, <1>9, <1>10 DEF CleanInv

LEMMA ClaimKeepsClean ==
    ASSUME TypeInv, PubTypeOK, CleanTypeOK, CleanInv, NEW r \in Runs,
           BlockCleanup(r) \/ \E c \in Cleaners : TakeCleanup(c, r)
    PROVE  CleanInv'
<1>1. Discarded(r) /\ GiveUpAttempt(r) /\ cleanups[r].status # "deleted"
  BY DEF BlockCleanup, TakeCleanup, Claimable
<1>2. /\ intents'[r].status = "stale"
      /\ \A q \in Runs \ {r} : intents'[q] = intents[q]
      /\ UNCHANGED <<pushes, refs, deletes, aged, consumers>>
      /\ aged \subseteq Runs /\ cleanups \in [Runs -> CleanupRows]
  BY <1>1, GivenUp DEF BlockCleanup, TakeCleanup, CleanTypeOK
<1>3. /\ r \in aged
      /\ cleanups'[r].count > 0 => r \notin consumers
      /\ cleanups[r].count > 0 => cleanups'[r].count > 0
      /\ cleanups'[r].status # "deleted"
      /\ \A q \in Runs \ {r} : cleanups'[q] = cleanups[q]
  <2>1. cleanups[r].count \in Nat /\ r \in aged
    BY <1>1, <1>2 DEF CleanupRows, Discarded
  <2>2. CASE BlockCleanup(r)
    <3>1. cleanups' = [cleanups EXCEPT ![r] = Blocked(cleanups[r])]
      BY <2>2 DEF BlockCleanup
    <3>2. /\ Blocked(cleanups[r]).count = cleanups[r].count
          /\ Blocked(cleanups[r]).status = "blocked"
      BY <1>2 DEF Blocked, CleanupRows
    <3> HIDE DEF Blocked
    <3> QED
      BY <1>2, <2>1, <3>1, <3>2 DEF CleanInv, CollectedIsGivenUp
  <2>3. ASSUME NEW c \in Cleaners, TakeCleanup(c, r)
        PROVE  /\ cleanups'[r].count > 0 /\ r \notin consumers
               /\ cleanups'[r].status # "deleted"
               /\ \A q \in Runs \ {r} : cleanups'[q] = cleanups[q]
    BY <1>2, <2>1, <2>3 DEF TakeCleanup
  <2> QED
    BY <2>1, <2>2, <2>3
<1>4. \A q \in Runs : cleanups[q].count > 0 => cleanups'[q].count > 0
  BY <1>3
<1>5. \A c \in Cleaners :
         \/ cleaners'[c] = cleaners[c]
         \/ cleaners'[c].run = r /\ cleaners'[c].step = "claimed"
                                 /\ cleanups'[r].count > 0
  <2>1. CASE BlockCleanup(r)
    BY <2>1 DEF BlockCleanup
  <2>2. ASSUME NEW c \in Cleaners, TakeCleanup(c, r)
        PROVE  /\ cleanups'[r].count > 0
               /\ \A b \in Cleaners :
                     \/ cleaners'[b] = cleaners[b]
                     \/ cleaners'[b].run = r /\ cleaners'[b].step = "claimed"
    BY <1>2, <2>2 DEF TakeCleanup, CleanTypeOK, CleanupRows
  <2> QED
    BY <2>1, <2>2
<1>6. AgedIsOver'
  BY <1>2 DEF CleanInv, AgedIsOver, Settled, Open
<1>7. CollectedIsGivenUp' /\ DeletesAreClaimed'
  BY <1>2, <1>3, <1>4
     DEF CleanInv, CollectedIsGivenUp, DeletesAreClaimed, CleanTypeOK
<1>8. CleanersAreLate'
  BY <1>2, <1>4, <1>5, BusyCleaner DEF CleanInv, CleanersAreLate
<1>9. DeletedStaysAbsent' /\ ConsumersKept'
  BY <1>2, <1>3 DEF CleanInv, DeletedStaysAbsent, ConsumersKept
<1>10. ProofInv'
  BY <1>1, GiveUpKeepsProof DEF CleanInv
<1> QED
  BY <1>6, <1>7, <1>8, <1>9, <1>10 DEF CleanInv

LEMMA CleanerKeepsClean ==
    ASSUME PubTypeOK, CleanTypeOK, CleanInv, NEW c \in Cleaners,
           \/ BeginDelete(c) \/ ReadAbsent(c) \/ FinishCleanup(c)
           \/ FailCleanup(c) \/ AbandonCleanup(c)
    PROVE  CleanInv'
<1> DEFINE r == cleaners[c].run
<1>1. /\ r \in Runs /\ cleanups[r].count > 0
      /\ cleaners[c].step = "absent" => r \notin refs
      /\ UNCHANGED <<allVars, aged, consumers>>
  BY BusyCleaner DEF BeginDelete, ReadAbsent, FinishCleanup, FailCleanup,
                     AbandonCleanup, CleanInv, CleanersAreLate
<1>2. UNCHANGED <<vars, intents, drains, pushes, refs>>
  BY <1>1 DEF allVars, pubVars
<1>3. \A q \in Runs :
         /\ cleanups'[q].count = cleanups[q].count
         /\ cleanups'[q].status = "deleted" =>
               \/ cleanups[q].status = "deleted"
               \/ q \notin refs
  <2>1. CASE BeginDelete(c) \/ ReadAbsent(c) \/ AbandonCleanup(c)
    BY <2>1 DEF BeginDelete, ReadAbsent, AbandonCleanup
  <2>2. CASE FinishCleanup(c)
    BY <1>1, <2>2 DEF FinishCleanup, CleanTypeOK, CleanupRows
  <2>3. CASE FailCleanup(c)
    BY <1>1, <2>3 DEF FailCleanup, CleanTypeOK, CleanupRows
  <2> QED
    BY <2>1, <2>2, <2>3
<1>4. deletes' \subseteq deletes \cup {r}
  BY DEF BeginDelete, ReadAbsent, FinishCleanup, FailCleanup, AbandonCleanup
<1>5. \A b \in Cleaners :
         \/ cleaners'[b] = cleaners[b] \/ cleaners'[b].step = "idle"
         \/ /\ cleaners'[b].run = r
            /\ cleaners'[b].step = "absent" => r \notin refs
  BY DEF BeginDelete, ReadAbsent, ProvedAbsent, FinishCleanup, FailCleanup,
         AbandonCleanup, CleanTypeOK, IdleCleaner
<1>6. ProofInv'
  BY <1>2 DEF vars, CleanInv, ProofInv, ArtifactHasProof, VerifiedHasRef
<1>7. AgedIsOver'
  BY <1>1, <1>2 DEF CleanInv, AgedIsOver, Settled, Open
<1>8. CollectedIsGivenUp' /\ DeletesAreClaimed'
  BY <1>1, <1>2, <1>3, <1>4
     DEF CleanInv, CollectedIsGivenUp, DeletesAreClaimed, CleanTypeOK
<1>9. CleanersAreLate'
  BY <1>1, <1>2, <1>3, <1>5, BusyCleaner DEF CleanInv, CleanersAreLate
<1>10. DeletedStaysAbsent' /\ ConsumersKept'
  BY <1>1, <1>2, <1>3 DEF CleanInv, DeletedStaysAbsent, ConsumersKept
<1> QED
  BY <1>6, <1>7, <1>8, <1>9, <1>10 DEF CleanInv

LEMMA RemoteKeepsClean ==
    ASSUME PubTypeOK, CleanTypeOK, CleanInv, RemoteStep
    PROVE  CleanInv'
<1>1. ASSUME NEW r \in deletes, DeleteLands(r)
      PROVE  CleanInv'
  <2>1. /\ refs' = refs \ {r} /\ deletes' \subseteq deletes /\ r \in Runs
        /\ UNCHANGED <<vars, intents, drains, pushes, cleanups, cleaners,
                       aged, consumers>>
    BY <1>1 DEF DeleteLands, CleanTypeOK
  <2>2. intents[r].status = "stale" /\ r \notin consumers
    BY <2>1 DEF CleanInv, DeletesAreClaimed, CollectedIsGivenUp
  <2>3. ProofInv'
    BY <2>1, <2>2, DeletionKeepsProof DEF CleanInv
  <2>4. AgedIsOver' /\ CollectedIsGivenUp' /\ DeletesAreClaimed'
    BY <2>1 DEF CleanInv, AgedIsOver, CollectedIsGivenUp, DeletesAreClaimed,
                Settled, Open
  <2>5. CleanersAreLate' /\ DeletedStaysAbsent' /\ ConsumersKept'
    BY <2>1, <2>2 DEF CleanInv, CleanersAreLate, DeletedStaysAbsent,
                      ConsumersKept
  <2> QED
    BY <2>3, <2>4, <2>5 DEF CleanInv
<1>2. ASSUME NEW q \in Runs, CleanupLeaseExpires(q), NEW r \in Runs
      PROVE  /\ cleanups'[r].count = cleanups[r].count
             /\ cleanups'[r].status = cleanups[r].status
  BY <1>2 DEF CleanupLeaseExpires, CleanTypeOK, CleanupRows
<1>3. CASE \/ \E r \in deletes : DeleteIsLost(r)
           \/ \E r \in Runs : CleanupLeaseExpires(r) \/ Ages(r) \/ Consume(r)
  <2>1. /\ UNCHANGED <<allVars, cleaners>> /\ deletes' \subseteq deletes
        /\ deletes \subseteq Runs
    BY <1>3 DEF DeleteIsLost, CleanupLeaseExpires, Ages, Consume, CleanTypeOK
  <2>2. UNCHANGED <<vars, intents, drains, pushes, refs>>
    BY <2>1 DEF allVars, pubVars
  <2>3. \A r \in Runs : /\ cleanups'[r].count = cleanups[r].count
                        /\ cleanups'[r].status = cleanups[r].status
    BY <1>2, <1>3 DEF DeleteIsLost, Ages, Consume
  <2>4. /\ aged \subseteq aged'
        /\ \A r \in aged' \ aged : r \notin pushes /\ Settled(r)
    BY <1>3 DEF DeleteIsLost, CleanupLeaseExpires, Ages, Consume, Settled
  <2>5. \A r \in consumers' \ consumers : r \in refs /\ ~(cleanups[r].count > 0)
    BY <1>3 DEF DeleteIsLost, CleanupLeaseExpires, Ages, Consume, Tombstoned
  <2>6. ProofInv'
    BY <2>2 DEF vars, CleanInv, ProofInv, ArtifactHasProof, VerifiedHasRef
  <2>7. AgedIsOver'
    BY <2>2, <2>4 DEF CleanInv, AgedIsOver, Settled, Open
  <2>8. CollectedIsGivenUp' /\ DeletesAreClaimed'
    BY <2>1, <2>2, <2>3, <2>4, <2>5
       DEF CleanInv, CollectedIsGivenUp, DeletesAreClaimed
  <2>9. CleanersAreLate'
    BY <2>1, <2>2, <2>3, BusyCleaner DEF CleanInv, CleanersAreLate
  <2>10. DeletedStaysAbsent' /\ ConsumersKept'
    BY <2>2, <2>3, <2>5 DEF CleanInv, DeletedStaysAbsent, ConsumersKept
  <2> QED
    BY <2>6, <2>7, <2>8, <2>9, <2>10 DEF CleanInv
<1> QED
  BY <1>1, <1>3 DEF RemoteStep

LEMMA StepKeepsClean ==
    TypeInv /\ PubTypeOK /\ CleanTypeOK /\ CleanInv /\ [CleanNext]_everyVar
        => CleanInv'
  BY StepAsPublicationOrCollector, PublicationKeepsClean, ClaimKeepsClean,
     CleanerKeepsClean, RemoteKeepsClean DEF CleanupStep

LEMMA CleanInvariance == CleanSpec => [](TypeInv /\ PubTypeOK /\ CleanInv)
<1>1. CleanInit => CleanInv
  BY DEF CleanInit, PubInit, Init, NoIntent, NoRun, QueuedRun, Idle, NoCleanup,
         IdleCleaner, CleanInv, ProofInv, ArtifactHasProof, VerifiedHasRef,
         AgedIsOver, CollectedIsGivenUp, DeletesAreClaimed, CleanersAreLate,
         DeletedStaysAbsent, ConsumersKept
<1>2. CleanSpec => []TypeInv
  BY CleanupImplementsLifecycle, TypeInvariance, PTL
<1> QED
  BY <1>1, <1>2, CleanPubTyped, CleanupTypeCorrectness, StepKeepsClean, PTL
     DEF CleanSpec

(* Cleanup takes no ref from an artifact: whatever cleaner lost its lease   *)
(* while its deletion was under way, adopted code keeps its retained ref.   *)
THEOREM AcceptedRefsAreRetained == CleanSpec => []ArtifactHasProof
<1>1. CleanInv => ArtifactHasProof
  BY DEF CleanInv, ProofInv
<1> QED
  BY <1>1, CleanInvariance, PTL

(* A commit that another session was allowed to build on keeps its ref, and *)
(* so does one that was adopted, whoever collects refs meanwhile.           *)
THEOREM ConsumersAreSafe == CleanSpec => []ConsumedRefIsKept
<1>1. CleanInv => ConsumedRefIsKept
  BY DEF CleanInv, ProofInv, ArtifactHasProof, ConsumersKept, ConsumedRefIsKept
<1> QED
  BY <1>1, CleanInvariance, PTL

(* A recorded deletion stays true: no late push brings the ref back.        *)
THEOREM DeletionsAreFinal == CleanSpec => []DeletedStaysAbsent
<1>1. CleanInv => DeletedStaysAbsent
  BY DEF CleanInv
<1> QED
  BY <1>1, CleanInvariance, PTL

-----------------------------------------------------------------------------
(* Completed work is kept *)

LEMMA CollectorKeepsWork ==
    ASSUME TypeInv, OwnershipInv, PubTypeOK, AgedIsOver, CollectorStep,
           NEW r \in Runs, Open(r), Current(r), ~intents[r].overdue,
           runs'[r].status = "error"
    PROVE  FALSE
<1>1. runs[r].status = "running"
  BY CurrentAttempt
<1>2. UNCHANGED vars => FALSE
  BY <1>1 DEF vars
<1>3. ASSUME NEW q \in Runs, Discarded(q), GiveUpAttempt(q)
      PROVE  FALSE
  <2>1. PICK j \in Jobs, n \in ClaimNumbers : Fail(j, n, q, FALSE)
    BY <1>2, <1>3, GivenUp
  <2>2. r = q
    BY <1>1, <2>1, FailedRun
  <2> QED
    BY <1>3, <2>2 DEF Discarded, AgedIsOver, Settled
<1> QED
  BY <1>2, <1>3 DEF CollectorStep, allVars

(* With cleaners at work as well, nothing gives up an output that is        *)
(* recorded, wanted and within its deadline.                                *)
THEOREM WorkSurvivesCleanup == CleanSpec => CompletedWorkIsKept
<1>1. CleanSpec => [](TypeInv /\ OwnershipInv)
  BY CleanupImplementsLifecycle, TypeInvariance, OwnershipInvariance, PTL
<1>2. TypeInv /\ OwnershipInv /\ PubTypeOK /\ CleanInv /\ [CleanNext]_everyVar
        => [\A r \in Runs :
              (Open(r) /\ Current(r) /\ ~intents[r].overdue)
                => (runs'[r].status = "error" => PolicyPinned)]_allVars
  BY StepAsPublicationOrCollector, CollectorSteps, StepKeepsWork,
     CollectorKeepsWork DEF CleanInv
<1> QED
  BY <1>1, <1>2, CleanInvariance, PTL DEF CleanSpec, CompletedWorkIsKept
=============================================================================
