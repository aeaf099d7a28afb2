-------------------------- MODULE CheckpointCleanup --------------------------
(***************************************************************************)
(* Collecting retained refs that were never adopted.                       *)
(*                                                                         *)
(* A week after an intent's deadline a cleaner may lease its retained ref, *)
(* give up whatever is left of the attempt, delete the ref and record its  *)
(* absence.  Deletions, like pushes, take effect late or never; a cleaner  *)
(* loses its lease or dies at any step; and meanwhile another session may  *)
(* take the retained commit as its source.                                 *)
(*                                                                         *)
(* Abstractions.  A claim id is the row's cleanup_attempt_count when it    *)
(* was given out; a backoff is over at once.  A consumer is any row that   *)
(* needs this very ref: one whose commit another adopted ref keeps         *)
(* reachable (checkpoint_cleanup_has_safe_ref) is none.                    *)
(***************************************************************************)
EXTENDS CheckpointPublication

CONSTANTS
    Cleaners,    \* calls of drainCheckpointCleanup under way
    MaxCleanups  \* BOUND on cleanup_attempt_count

ASSUME CleanAssumption == MaxCleanups \in Nat \ {0}

VARIABLES
    cleanups,   \* session_checkpoint_cleanup, by run
    cleaners,   \* what each cleaner holds and how far it has come
    deletes,    \* refs whose deletion is on its way to the remote
    aged,       \* runs whose publication deadline was a week ago
    consumers   \* runs whose retained commit another session builds on

cleanVars == <<cleanups, cleaners, deletes, aged, consumers>>
everyVar == <<allVars, cleanVars>>

-----------------------------------------------------------------------------
CleanupStatuses == {"none", "pending", "claimed", "deleted", "blocked"}
CleanerSteps == {"idle", "claimed", "deleting", "absent"}

NoCleanup == [status |-> "none", claim |-> 0, leased |-> FALSE, count |-> 0]
IdleCleaner == [run |-> None, claim |-> 0, step |-> "idle"]

CleanInit ==
    /\ PubInit
    /\ cleanups = [r \in Runs |-> NoCleanup]
    /\ cleaners = [c \in Cleaners |-> IdleCleaner]
    /\ deletes = {}
    /\ aged = {}
    /\ consumers = {}

-----------------------------------------------------------------------------
(* The claim *)

(* A candidate was recorded, never adopted, and its week is over. *)
Discarded(r) ==
    /\ r \in aged
    /\ intents[r].status \notin {"none", "adopted"} /\ intents[r].code
    /\ runs[r].status # "success"

Claimable(r) ==
    /\ cleanups[r].status # "deleted"
    /\ ~(cleanups[r].status = "claimed" /\ cleanups[r].leased)

(* The attempt still runs; the claim gives it up before anything else.  A   *)
(* lease ends with the deadline and a run that is live is its job's claim,  *)
(* so that neither is left to block the candidate.                          *)
Executing(r) == OwnsClaim(intents[r].job, intents[r].attempt) /\ Live(r)

GiveUpAttempt(r) ==
    /\ IF Executing(r) THEN Fail(intents[r].job, intents[r].attempt, r, FALSE)
                       ELSE UNCHANGED vars
    /\ Retire(r)
    /\ UNCHANGED <<drains, pushes, refs, connected>>

(* mutant: a blocked row stays claimed by its last cleaner *)
BlockedHeld(row) == [row EXCEPT !.status = "blocked", !.leased = FALSE]

Blocked(row) == [row EXCEPT !.status = "blocked", !.claim = 0, !.leased = FALSE]

(* claim_session_checkpoint_cleanup: a candidate that may go is leased, ... *)
TakeCleanup(c, r) ==
    /\ cleaners[c].step = "idle"
    /\ Discarded(r) /\ Claimable(r)
    /\ connected /\ r \notin consumers
    /\ cleanups[r].count < MaxCleanups
    /\ GiveUpAttempt(r)
    /\ LET n == cleanups[r].count + 1
       IN  /\ cleanups' = [cleanups EXCEPT ![r] = [status |-> "claimed",
                               claim |-> n, leased |-> TRUE, count |-> n]]
           /\ cleaners' = [cleaners EXCEPT ![c] = [run |-> r, claim |-> n,
                                                   step |-> "claimed"]]
    /\ UNCHANGED <<deletes, aged, consumers>>

(* ... and one whose repository is out of reach, or that somebody builds    *)
(* on, is blocked.                                                          *)
BlockCleanup(r) ==
    /\ Discarded(r) /\ Claimable(r)
    /\ ~connected \/ r \in consumers
    /\ GiveUpAttempt(r)
    /\ cleanups' = [cleanups EXCEPT ![r] = Blocked(@)]
    /\ UNCHANGED <<cleaners, deletes, aged, consumers>>

HoldsCleanup(c) == LET row == cleanups[cleaners[c].run]
                   IN  /\ row.status = "claimed" /\ row.leased
                       /\ row.claim = cleaners[c].claim

(* assert_session_checkpoint_cleanup_claim *)
AssertCleanup(c) ==
    LET r == cleaners[c].run
    IN  /\ HoldsCleanup(c) /\ r \in aged /\ connected
        /\ intents[r].status = "stale" /\ runs[r].status # "success"
        /\ ~(jobs[intents[r].job].attempt = intents[r].attempt /\ Live(r))
        /\ r \notin consumers

-----------------------------------------------------------------------------
(* The cleaner between its claim and the receipt *)

(* The ref is there; the lease is confirmed once more and the deletion      *)
(* goes out.                                                                *)
BeginDelete(c) ==
    /\ cleaners[c].step = "claimed"
    /\ cleaners[c].run \in refs
    /\ AssertCleanup(c)
    /\ deletes' = deletes \cup {cleaners[c].run}
    /\ cleaners' = [cleaners EXCEPT ![c].step = "deleting"]
    /\ UNCHANGED <<allVars, cleanups, aged, consumers>>

DeleteLands(r) ==
    /\ deletes' = deletes \ {r}
    /\ refs' = refs \ {r}
    /\ UNCHANGED <<vars, intents, drains, pushes, connected,
                   cleanups, cleaners, aged, consumers>>
DeleteIsLost(r) ==
    /\ deletes' = deletes \ {r}
    /\ UNCHANGED <<allVars, cleanups, cleaners, aged, consumers>>

(* mutant: a deletion that went out is taken for done *)
AbsentByReply(c) == cleaners[c].step = "deleting" \/ cleaners[c].run \notin refs

(* Only absence on the remote is proof. *)
ProvedAbsent(c) == cleaners[c].run \notin refs

ReadAbsent(c) ==
    /\ cleaners[c].step \in {"claimed", "deleting"}
    /\ ProvedAbsent(c)
    /\ cleaners' = [cleaners EXCEPT ![c].step = "absent"]
    /\ UNCHANGED <<allVars, cleanups, deletes, aged, consumers>>

(* finish_session_checkpoint_cleanup, whose reply may be lost *)
FinishCleanup(c) ==
    /\ cleaners[c].step = "absent"
    /\ AssertCleanup(c)
    /\ cleanups' = [cleanups EXCEPT ![cleaners[c].run].status = "deleted"]
    /\ \/ cleaners' = [cleaners EXCEPT ![c] = IdleCleaner]
       \/ UNCHANGED cleaners
    /\ UNCHANGED <<allVars, deletes, aged, consumers>>

(* fail_session_checkpoint_cleanup, after any error of the program.  (A ref *)
(* of other content, which would block the row for a day, is abstracted.)   *)
FailCleanup(c) ==
    /\ cleaners[c].step # "idle"
    /\ IF HoldsCleanup(c)
       THEN cleanups' = [cleanups EXCEPT ![cleaners[c].run].status = "pending",
                             ![cleaners[c].run].claim = 0,
                             ![cleaners[c].run].leased = FALSE]
       ELSE UNCHANGED cleanups
    /\ cleaners' = [cleaners EXCEPT ![c] = IdleCleaner]
    /\ UNCHANGED <<allVars, deletes, aged, consumers>>

(* The call times out after a minute, or its process dies. *)
AbandonCleanup(c) ==
    /\ cleaners[c].step # "idle"
    /\ cleaners' = [cleaners EXCEPT ![c] = IdleCleaner]
    /\ UNCHANGED <<allVars, cleanups, deletes, aged, consumers>>

-----------------------------------------------------------------------------
(* Time and other sessions *)

CleanupLeaseExpires(r) ==
    /\ cleanups[r].status = "claimed" /\ cleanups[r].leased
    /\ cleanups' = [cleanups EXCEPT ![r].leased = FALSE]
    /\ UNCHANGED <<allVars, cleaners, deletes, aged, consumers>>

(* Seven days after the deadline.  ASSUMED: a push, which its sender        *)
(* abandons after a minute, has reached the remote or is lost by then.      *)
Ages(r) ==
    /\ r \notin aged /\ r \notin pushes
    /\ intents[r].status # "none" /\ (Open(r) => intents[r].overdue)
    /\ aged' = aged \cup {r}
    /\ UNCHANGED <<allVars, cleanups, cleaners, deletes, consumers>>

(* mutant: only the cleaner's current claim keeps consumers out *)
TombstonedWhileClaimed(r) == cleanups[r].status \in {"claimed", "deleted"}

(* Once a deletion may be under way the commit is no source any more. *)
Tombstoned(r) == cleanups[r].count > 0

(* A root or input row of another session names the retained commit: the    *)
(* trigger guard_checkpoint_cleanup_reference admits it or refuses it.      *)
Consume(r) ==
    /\ r \in refs /\ r \notin consumers
    /\ ~Tombstoned(r)
    /\ consumers' = consumers \cup {r}
    /\ UNCHANGED <<allVars, cleanups, cleaners, deletes, aged>>

-----------------------------------------------------------------------------
CleanupStep ==
    \/ \E c \in Cleaners, r \in Runs : TakeCleanup(c, r)
    \/ \E r \in Runs : BlockCleanup(r)
    \/ \E c \in Cleaners : BeginDelete(c)
    \/ \E c \in Cleaners : ReadAbsent(c)
    \/ \E c \in Cleaners : FinishCleanup(c)
    \/ \E c \in Cleaners : FailCleanup(c)
    \/ \E c \in Cleaners : AbandonCleanup(c)

RemoteStep ==
    \/ \E r \in deletes : DeleteLands(r)
    \/ \E r \in deletes : DeleteIsLost(r)
    \/ \E r \in Runs : CleanupLeaseExpires(r)
    \/ \E r \in Runs : Ages(r)
    \/ \E r \in Runs : Consume(r)

CleanNext ==
    \/ PubNext /\ UNCHANGED cleanVars
    \/ CleanupStep
    \/ RemoteStep

CleanSpec == CleanInit /\ [][CleanNext]_everyVar

-----------------------------------------------------------------------------
(* Properties *)

CleanupRows == [status : CleanupStatuses, claim : Nat, leased : BOOLEAN,
                count : Nat]

(* Every row and every cleaner holds values of its type, and a row's claim  *)
(* belongs to a claim or a receipt (the table's checks).                    *)
CleanTypeOK ==
    /\ cleanups \in [Runs -> CleanupRows]
    /\ \A r \in Runs :
          LET row == cleanups[r]
          IN  /\ row.claim > 0 <=> row.status \in {"claimed", "deleted"}
              /\ row.leased => row.claim > 0
              /\ row.claim <= row.count
    /\ cleaners \in [Cleaners -> [run : Runs \cup {None}, claim : Nat,
                                 step : CleanerSteps]]
    /\ \A c \in Cleaners : cleaners[c].run = None <=> cleaners[c].step = "idle"
    /\ deletes \subseteq Runs /\ aged \subseteq Runs /\ consumers \subseteq Runs

(* A commit that another session builds on, or that an artifact rests on,   *)
(* keeps its ref: not even a deletion that its cleaner gave up long ago can *)
(* take it away, and no drainer adopts what a cleaner may delete.           *)
ConsumedRefIsKept ==
    consumers \cup {r \in Runs : intents[r].status = "adopted" /\ intents[r].code}
        \subseteq refs

(* A receipt of deletion tells the truth for good: the ref is not on the    *)
(* remote, and no late push brings it back.                                 *)
DeletedStaysAbsent == \A r \in Runs : cleanups[r].status = "deleted" => r \notin refs
=============================================================================
