------------------------ MODULE CheckpointPublication ------------------------
(***************************************************************************)
(* How completed work becomes an artifact: SessionLifecycle in detail.     *)
(*                                                                         *)
(* A worker that has finished first records its output as a durable        *)
(* publication intent.  From then on any worker may drive the intent: it   *)
(* leases it, pushes the output to a retained Git ref of its own, and has  *)
(* the artifact adopted on proof of that ref.  Leases expire under their   *)
(* holders, pushes land late or never, replies are lost, the original      *)
(* worker dies, and meanwhile people and Linear change the session.        *)
(*                                                                         *)
(* A drainer's program (drainCheckpointPublications) is a process that     *)
(* holds the claim it was given between its calls; a push is in flight     *)
(* until it lands or is lost, whatever became of the drainer (two pushes   *)
(* of one output create the same ref, and count as one).                   *)
(*                                                                         *)
(* Abstractions.  A claim id is the intent's publication_attempt_count     *)
(* when it was given out.  The content of a retained ref is part of its    *)
(* name, so a ref exists or not.  A backoff is over at once.               *)
(***************************************************************************)
EXTENDS SessionLifecycle

CONSTANTS
    Drainers,        \* calls of drainCheckpointPublications under way
    MaxPublications  \* BOUND on publication_attempt_count

ASSUME DrainAssumption == MaxPublications \in Nat \ {0}

VARIABLES
    intents,    \* session_checkpoint_publications, by run
    drains,     \* what each drainer holds and how far it has come
    pushes,     \* runs whose output is on its way to the remote
    refs,       \* retained refs on the remote, each named by its run
    connected   \* is the repository's GitHub installation usable?

pubVars == <<intents, drains, pushes, refs, connected>>
allVars == <<vars, pubVars>>

-----------------------------------------------------------------------------
IntentStatuses == {"none", "pending", "claimed", "adopted", "stale"}
Steps == {"idle", "loaded", "pushing", "verified"}

NoIntent == [status |-> "none", job |-> None, attempt |-> 0, version |-> 0,
             code |-> FALSE, claim |-> 0, leased |-> FALSE, overdue |-> FALSE,
             count |-> 0]
NewIntent(j, n, v, code) ==
    [status |-> "pending", job |-> j, attempt |-> n, version |-> v,
     code |-> code, claim |-> 0, leased |-> FALSE, overdue |-> FALSE,
     count |-> 0]
Idle == [run |-> None, claim |-> 0, step |-> "idle"]

Open(r) == intents[r].status \in {"pending", "claimed"}

(* mutant: recovery publishes into an exhausted session *)
CurrentThoughExhausted(p, r) ==
    /\ connected /\ ~session.archived
    /\ session.phase = "in_progress"
    /\ session.stage = jobs[p.job].stage /\ session.version = p.version
    /\ jobs[p.job].status = "running" /\ jobs[p.job].attempt = p.attempt
    /\ runs[r].status = "running" /\ runs[r].attempt = p.attempt
    /\ runs[r].job = p.job /\ runs[r].stage = jobs[p.job].stage

(* checkpoint_publication_is_current: the execution still owns its session. *)
IsCurrent(p, r) ==
    /\ connected
    /\ ~session.archived
    /\ ~Exhausted(session)
    /\ session.phase = "in_progress"
    /\ session.stage = jobs[p.job].stage /\ session.version = p.version
    /\ jobs[p.job].status = "running" /\ jobs[p.job].attempt = p.attempt
    /\ runs[r].status = "running" /\ runs[r].attempt = p.attempt
    /\ runs[r].job = p.job /\ runs[r].stage = jobs[p.job].stage

Current(r) == IsCurrent(intents[r], r)

(* mutant: the claim is not cleared *)
RetireHeld(r) == intents' = [intents EXCEPT ![r].status = "stale"]

Retire(r) == intents' = [intents EXCEPT ![r].status = "stale", ![r].claim = 0,
                                        ![r].leased = FALSE]

PubInit ==
    /\ Init
    /\ intents = [r \in Runs |-> NoIntent]
    /\ drains = [d \in Drainers |-> Idle]
    /\ pushes = {}
    /\ refs = {}
    /\ connected = TRUE

-----------------------------------------------------------------------------
(* The intent *)

(* prepare_session_source_and_checkpoint_publication: the source and the    *)
(* artifact candidate become durable together, or neither does.  A repeated *)
(* call with the same content finds the intent and changes nothing.         *)
Prepare(r, j, n, v, code) ==
    /\ intents[r].status = "none"
    /\ LET p == NewIntent(j, n, v, code)
       IN  /\ runs[r].job = j /\ runs[r].attempt = n
           /\ IsCurrent(p, r)
           /\ intents' = [intents EXCEPT ![r] = p]
    /\ UNCHANGED <<vars, drains, pushes, refs, connected>>

(* mutant: a claimed intent is left to its holder *)
SettleStaleUnclaimed(r) ==
    /\ intents[r].status = "pending" /\ ~Current(r)
    /\ Retire(r)
    /\ UNCHANGED <<vars, drains, pushes, refs, connected>>

(* claim_session_checkpoint_publication: what its loop does with a          *)
(* candidate that is no longer current, ...                                 *)
SettleStale(r) ==
    /\ Open(r) /\ ~Current(r)
    /\ Retire(r)
    /\ UNCHANGED <<vars, drains, pushes, refs, connected>>

(* ... with one whose deadline has passed, ...                              *)
SettleOverdue(r) ==
    /\ Open(r) /\ Current(r) /\ intents[r].overdue
    /\ Fail(intents[r].job, intents[r].attempt, r, FALSE)
    /\ Retire(r)
    /\ UNCHANGED <<drains, pushes, refs, connected>>

(* ... and with one that nobody holds.                                      *)
TakeIntent(d, r) ==
    /\ drains[d].step = "idle"
    /\ Open(r) /\ Current(r) /\ ~intents[r].overdue /\ ~intents[r].leased
    /\ intents[r].count < MaxPublications
    /\ LET c == intents[r].count + 1
       IN  /\ intents' = [intents EXCEPT ![r].status = "claimed", ![r].claim = c,
                                         ![r].leased = TRUE, ![r].count = c]
           /\ drains' = [drains EXCEPT ![d] = [run |-> r, claim |-> c,
                                               step |-> "loaded"]]
    /\ UNCHANGED <<vars, pushes, refs, connected>>

HoldsClaim(d) == LET p == intents[drains[d].run]
                 IN  p.status = "claimed" /\ p.claim = drains[d].claim

(* assert_session_checkpoint_publication_claim *)
AssertClaim(d) == LET p == intents[drains[d].run]
                  IN  /\ HoldsClaim(d) /\ p.leased /\ ~p.overdue
                      /\ Current(drains[d].run)

-----------------------------------------------------------------------------
(* The drainer between its claim and the adoption *)

BeginPush(d) ==
    /\ drains[d].step = "loaded"
    /\ intents[drains[d].run].code
    /\ AssertClaim(d)
    /\ pushes' = pushes \cup {drains[d].run}
    /\ drains' = [drains EXCEPT ![d].step = "pushing"]
    /\ UNCHANGED <<vars, intents, refs, connected>>

(* The remote accepts the push (it creates the ref or finds it), or the     *)
(* push is lost.                                                            *)
PushLands(r) == /\ pushes' = pushes \ {r}
                /\ refs' = refs \cup {r}
                /\ UNCHANGED <<vars, intents, drains, connected>>
PushIsLost(r) == /\ pushes' = pushes \ {r}
                 /\ UNCHANGED <<vars, intents, drains, refs, connected>>

(* Only a remote read proves the ref, whatever the push reported; a ref     *)
(* that is already there needs no push.                                     *)
Verify(d) ==
    /\ drains[d].step \in {"loaded", "pushing"}
    /\ intents[drains[d].run].code
    /\ drains[d].run \in refs
    /\ drains' = [drains EXCEPT ![d].step = "verified"]
    /\ UNCHANGED <<vars, intents, pushes, refs, connected>>

(* mutant: the push is taken for its proof *)
ProvedByPush(d) == IF intents[drains[d].run].code
                   THEN drains[d].step \in {"pushing", "verified"}
                   ELSE drains[d].step = "loaded"

Proved(d) == IF intents[drains[d].run].code THEN drains[d].step = "verified"
                                            ELSE drains[d].step = "loaded"

Adoptable(d) == LET p == intents[drains[d].run]
                IN  /\ HoldsClaim(d) /\ p.leased /\ ~p.overdue
                    /\ Current(drains[d].run)

(* adopt_session_checkpoint_publication: artifact, job and intent are one   *)
(* transaction.  A drainer that misses the reply still holds its claim; the *)
(* repeated call finds the intent adopted and changes nothing.              *)
Adopt(d) ==
    /\ drains[d].step # "idle"
    /\ Proved(d)
    /\ Adoptable(d)
    /\ LET r == drains[d].run
           p == intents[r]
       IN  /\ PublishAllowed(p.job, p.attempt, r, p.version)
           /\ RecordArtifact(p.job, r, p.version)
           /\ jobs' = [jobs EXCEPT ![p.job].status = "success"]
           /\ intents' = [intents EXCEPT ![r].status = "adopted"]
    /\ \/ drains' = [drains EXCEPT ![d] = Idle]
       \/ UNCHANGED drains
    /\ UNCHANGED <<completed, control, deferrals, retries, invalidated,
                   pushes, refs, connected>>

Releasable(d) == HoldsClaim(d)

(* release_session_checkpoint_publication, after any error of the drainer's *)
(* program: the intent is due again later, unless the lease is over or the  *)
(* work no longer current.                                                  *)
Release(d) ==
    /\ drains[d].step # "idle"
    /\ LET r == drains[d].run
       IN  IF ~Releasable(d) THEN UNCHANGED intents
           ELSE IF ~Current(r) THEN Retire(r)
           ELSE IF ~intents[r].leased \/ intents[r].overdue
                THEN UNCHANGED intents
           ELSE intents' = [intents EXCEPT ![r].status = "pending",
                                ![r].claim = 0, ![r].leased = FALSE]
    /\ drains' = [drains EXCEPT ![d] = Idle]
    /\ UNCHANGED <<vars, pushes, refs, connected>>

(* The drain times out after a minute, or its process dies. *)
Abandon(d) ==
    /\ drains[d].step # "idle"
    /\ drains' = [drains EXCEPT ![d] = Idle]
    /\ UNCHANGED <<vars, intents, pushes, refs, connected>>

-----------------------------------------------------------------------------
(* Giving an attempt up *)

(* failPipelineJob of the worker that runs the attempt.  Once the output is *)
(* prepared only the session's elapsed budget makes it fail the attempt,    *)
(* without a retry; every other error leaves the intent to its drainers.    *)
WorkerFail(j, n, r, retry) ==
    /\ (r # None /\ intents[r].status # "none") => PolicyPinned /\ ~retry
    /\ Fail(j, n, r, retry)
    /\ UNCHANGED pubVars

(* mutant: only a claimed intent keeps the attempt alive *)
OwnsClaimedIntent(j, n, r) ==
    \E q \in Runs : /\ intents[q].job = j /\ intents[q].attempt = n
                    /\ r = None \/ q = r
                    /\ intents[q].status = "claimed" /\ ~intents[q].overdue
                    /\ Current(q)

OwnsOpenIntent(j, n, r) ==
    \E q \in Runs : /\ intents[q].job = j /\ intents[q].attempt = n
                    /\ r = None \/ q = r
                    /\ Open(q) /\ ~intents[q].overdue
                    /\ Current(q)

(* fail_stalled_session_job_attempt: the stall detector, the claim's        *)
(* deadline and a worker unsure of its preparation leave completed work to  *)
(* its intent.                                                              *)
RetireStalled(j, n, r, retry) ==
    /\ ~OwnsOpenIntent(j, n, r)
    /\ Fail(j, n, r, retry)
    /\ UNCHANGED pubVars

(* A publish_session_job_attempt of an earlier deployment: the trigger on   *)
(* artifacts refuses it for an output that was prepared.                    *)
PublishUnprepared(j, n, r, v) ==
    /\ intents[r].status = "none"
    /\ PublishDirect(j, n, r, v)
    /\ UNCHANGED pubVars

-----------------------------------------------------------------------------
(* Time and the installation *)

LeaseExpires(r) ==
    /\ intents[r].leased /\ intents[r].status = "claimed"
    /\ intents' = [intents EXCEPT ![r].leased = FALSE]
    /\ UNCHANGED <<vars, drains, pushes, refs, connected>>

(* A lease never outlives the attempt's deadline. *)
DeadlinePasses(r) ==
    /\ Open(r) /\ ~intents[r].overdue
    /\ intents' = [intents EXCEPT ![r].overdue = TRUE, ![r].leased = FALSE]
    /\ UNCHANGED <<vars, drains, pushes, refs, connected>>

(* The installation is suspended, or the repository archived, and back.     *)
Reconnect ==
    /\ connected' = ~connected
    /\ UNCHANGED <<vars, intents, drains, pushes, refs>>

-----------------------------------------------------------------------------
LifecycleStep ==
    /\ \/ \E j \in Jobs : Claim(j)
       \/ \E j \in Jobs, n \in ClaimNumbers, st \in Stages,
             v \in VersionNumbers, r \in Runs : Start(j, n, st, v, r)
       \/ \E j \in Jobs, n \in ClaimNumbers, r \in Runs : Complete(j, n, r)
       \/ \E j \in Jobs, n \in ClaimNumbers : Defer(j, n)
       \/ ReviewStep
       \/ ControlStep
    /\ UNCHANGED pubVars

FailureStep ==
    \/ \E j \in Jobs, n \in ClaimNumbers, r \in Runs \cup {None},
          retry \in BOOLEAN : WorkerFail(j, n, r, retry)
    \/ \E j \in Jobs, n \in ClaimNumbers, r \in Runs \cup {None},
          retry \in BOOLEAN : RetireStalled(j, n, r, retry)
    \/ \E j \in Jobs, n \in ClaimNumbers, r \in Runs, v \in VersionNumbers :
          PublishUnprepared(j, n, r, v)

IntentStep ==
    \/ \E r \in Runs, j \in Jobs, n \in ClaimNumbers, v \in VersionNumbers,
          code \in BOOLEAN : Prepare(r, j, n, v, code)
    \/ \E r \in Runs : SettleStale(r)
    \/ \E r \in Runs : SettleOverdue(r)
    \/ \E d \in Drainers, r \in Runs : TakeIntent(d, r)

DrainStep ==
    \/ \E d \in Drainers : BeginPush(d)
    \/ \E d \in Drainers : Verify(d)
    \/ \E d \in Drainers : Adopt(d)
    \/ \E d \in Drainers : Release(d)
    \/ \E d \in Drainers : Abandon(d)

EnvironmentStep ==
    \/ \E r \in pushes : PushLands(r)
    \/ \E r \in pushes : PushIsLost(r)
    \/ \E r \in Runs : LeaseExpires(r)
    \/ \E r \in Runs : DeadlinePasses(r)
    \/ Reconnect

PubNext ==
    LifecycleStep \/ FailureStep \/ IntentStep \/ DrainStep \/ EnvironmentStep

PubSpec == PubInit /\ [][PubNext]_allVars

-----------------------------------------------------------------------------
(* Type invariant *)

IntentRows == [status : IntentStatuses, job : Jobs \cup {None},
               attempt : Nat, version : {0} \cup VersionNumbers,
               code : BOOLEAN, claim : Nat, leased : BOOLEAN,
               overdue : BOOLEAN, count : Nat]

(* A column that only some statuses use is null in the others. *)
IntentOK(p) ==
    /\ p.status = "none" <=> p.job = None
    /\ p.status # "none" => /\ p.attempt \in ClaimNumbers
                            /\ p.version \in VersionNumbers
    /\ p.claim > 0 <=> p.status \in {"claimed", "adopted"}
    /\ p.leased => p.claim > 0 /\ ~p.overdue

(* Every row and every process holds values of its type. *)
PubTypeOK ==
    /\ intents \in [Runs -> IntentRows]
    /\ \A r \in Runs : IntentOK(intents[r])
    /\ drains \in [Drainers -> [run : Runs \cup {None}, claim : Nat,
                               step : Steps]]
    /\ \A d \in Drainers : drains[d].run = None <=> drains[d].step = "idle"
    /\ pushes \subseteq Runs
    /\ refs \subseteq Runs
    /\ connected \in BOOLEAN

-----------------------------------------------------------------------------
(* Safety *)

(* A run is published exactly when its intent was adopted, and an artifact  *)
(* with code has its retained ref on the remote, whoever pushed it.         *)
ArtifactHasProof ==
    \A r \in Runs :
        /\ intents[r].status = "adopted" => runs[r].status = "success"
        /\ runs[r].status = "success" =>
            \/ intents[r].status = "adopted" /\ (intents[r].code => r \in refs)
            \/ intents[r].status = "none" /\ LegacyWorkers

(* Completed work is not given up: while its deadline is open and it is     *)
(* still wanted, no sweep, deadline or unsure worker fails the attempt.     *)
(* (Only the worker whose session runs out of elapsed budget may.)          *)
CompletedWorkIsKept ==
    [][\A r \in Runs :
        (Open(r) /\ Current(r) /\ ~intents[r].overdue)
            => (runs'[r].status = "error" => PolicyPinned)]_allVars

-----------------------------------------------------------------------------
(* Liveness *)

(* Maintenance calls the claim RPC, whose loop settles what cannot be       *)
(* handed out, and sweeps; workers poll; deadlines pass.  Nobody is bound   *)
(* to take an intent, push or adopt.                                        *)
Settle == \E r \in Runs : SettleStale(r) \/ SettleOverdue(r)
Poll == /\ \E j \in Jobs : Claim(j)
        /\ UNCHANGED pubVars
PubSweep == \E j \in Jobs, n \in ClaimNumbers :
               \/ Defer(j, n) /\ UNCHANGED pubVars
               \/ \E r \in Runs \cup {None} : RetireStalled(j, n, r, TRUE)

PubFairness == /\ WF_allVars(Settle)
               /\ WF_allVars(Poll)
               /\ WF_allVars(PubSweep)
               /\ \A r \in Runs : WF_allVars(DeadlinePasses(r))

PubFairSpec == PubSpec /\ PubFairness

(* Every recorded output is decided: it is adopted, or it is given up.      *)
IntentIsSettled ==
    \A r \in Runs : intents[r].status \in {"pending", "claimed"}
                      ~> intents[r].status \in {"adopted", "stale"}
=============================================================================
